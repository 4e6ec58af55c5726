---------------------------- MODULE AccountProofs ----------------------------
(* Theorems about the accounts and the link to Redis in Connection: who is      *)
(* served as whom, one owner to a name, tokens that expire.                     *)
EXTENDS ConnectionProofs

-----------------------------------------------------------------------------
(* The coroutines and the one connection to Redis they share. *)

Making(c) == at[c] \in {"setWait", "expireWait"}
Waits == {"setWait", "expireWait", "getWait", "rpushWait", "ltrimWait"}

\* t is a token that a login as u has handed out.
Vouched(t, u) == t \in Token /\ u \in User /\ given[t].user = u

\* m is the command c waits for; the reply r may be given to c.
Asks(c, m) ==
  /\ reply[c] = Pending
  /\ \/ m.name = "SET" /\ at[c] = "setWait" /\ m.tok = tok[c] /\ m.user = cur[c].user
     \/ m.name = "EXPIRE" /\ at[c] = "expireWait" /\ m.tok = tok[c]
     \/ m.name = "GET" /\ at[c] = "getWait" /\ m.tok = cur[c].tok
     \/ m.name = "RPUSH" /\ at[c] = "rpushWait"
     \/ m.name = "LTRIM" /\ at[c] = "ltrimWait"

Answers(c, r) ==
  /\ at[c] = "getWait" /\ r.type = "string" => Vouched(cur[c].tok, r.str)
  /\ at[c] = "expireWait" /\ link = "up" => tok[c] \notin eternal

Told(c, r) == reply[c] = Pending /\ r.type # "pending" /\ at[c] \in Waits /\ Answers(c, r)

\* Who waits has one command, or one reply, on its way, in the order of the waiters.
Line == net \o out

Piped ==
  /\ link = "lost" => back = <<>> /\ waiters = <<>> /\ Line = <<>>
  /\ Len(waiters) = Len(back) + Len(Line)
  /\ \A i, j \in 1 .. Len(waiters) : waiters[i] = waiters[j] => i = j
  /\ \A i \in 1 .. Len(back), c \in Conn, r \in Replies :
       waiters[i] = c /\ back[i] = r => Told(c, r)
  /\ \A j \in 1 .. Len(Line), c \in Conn, m \in Command :
       waiters[Len(back) + j] = c /\ Line[j] = m => Asks(c, m)

\* What a coroutine knows when it goes on.
Session(c) ==
  /\ at[c] \notin Working \cup Acting => cur[c] = NoItem
  /\ at[c] \in Acting => cur[c].kind \in Frames
  /\ at[c] = "insert" => cur[c].kind = "register"
  /\ at[c] = "select" \/ Making(c) => cur[c].kind = "login"
  /\ at[c] = "getWait" => cur[c].kind \in {"check", "upgrade"}
  /\ at[c] \in Working \ {"respond", "handshake"} => answer[c].status = 0
  /\ at[c] \in {"respond", "handshake"} /\ cur[c].kind \in {"check", "upgrade"}
       /\ answer[c].status \in {101, 200} => Vouched(cur[c].tok, answer[c].user)
  /\ at[c] = "respond" /\ cur[c].kind = "login" /\ answer[c].status = 200
       => Vouched(tok[c], cur[c].user)
  /\ Making(c) => /\ tok[c] \in Token /\ given[tok[c]].user = NoUser
                  /\ cur[c].password = users[cur[c].user]
  /\ reply[c] # Pending => Answers(c, reply[c])
  /\ \A i \in 1 .. Len(asked[c]) :
       asked[c][i].kind \in {"check", "upgrade"} => asked[c][i].tok \in known \cup {NoToken}

\* A token is in the store for the user it has been given to, or is about to be.
Tokens ==
  /\ \A t \in fresh : holder[t] = NoUser /\ given[t].user = NoUser /\ t \notin eternal
  /\ \A c \in Conn : tok[c] \notin fresh
  /\ \A c, d \in Conn : tok[c] \in Token /\ tok[c] = tok[d] => c = d
  /\ \A t \in Token : holder[t] # NoUser =>
       \/ Vouched(t, holder[t])
       \/ \E c \in Conn : Making(c) /\ tok[c] = t /\ cur[c].user = holder[t]
  /\ \A t \in known : t \in Token /\ given[t].user \in User
  /\ TokensExpire

Names ==
  /\ users \in [User -> Password \cup {NoPassword}] /\ created \in [User -> Nat]
  /\ given \in [Token -> [user : User \cup {NoUser}, password : Password \cup {NoPassword}]]
  /\ \A u \in User : created[u] <= 1 /\ (created[u] = 1 => users[u] \in Password)
  /\ \A t \in Token, u \in User :
       given[t].user = u => given[t].password = users[u] /\ users[u] \in Password

Shaped == answer = [c \in Conn |-> answer[c]]

SessionInv == RedisTypeOK /\ Piped /\ Tokens /\ Names /\ \A c \in Conn : Session(c)

-----------------------------------------------------------------------------
(* The pipeline. *)

LEMMA InLine ==
  ASSUME RedisTypeOK
  PROVE  /\ Line \in Seq(Command) /\ Len(Line) = Len(net) + Len(out)
         /\ Len(Line) \in Nat /\ Len(back) \in Nat /\ Len(waiters) \in Nat
<1>1. net \in Seq(Command) /\ out \in Seq(Command) /\ back \in Seq(Replies) /\ waiters \in Seq(Conn)
  BY DEF RedisTypeOK
<1>2. Line \in Seq(Command) /\ Len(Line) = Len(net) + Len(out)
  BY <1>1, ConcatProperties DEF Line
<1>3. Len(Line) \in Nat
  BY <1>2
<1> QED
  BY <1>1, <1>2, <1>3

\* Nothing has happened to who waits for a reply.
Calm(d) ==
  reply[d] = Pending /\ at[d] \in Waits =>
    reply'[d] = Pending /\ at'[d] = at[d] /\ cur'[d] = cur[d] /\ tok'[d] = tok[d]

\* What is vouched for stays so.
Steadfast == \A t, u : Vouched(t, u) => Vouched(t, u)'

LEMMA AsksStill ==
  ASSUME NEW d, NEW m, Asks(d, m), Calm(d)
  PROVE  Asks(d, m)'
BY DEF Asks, Calm, Waits

LEMMA ToldStill ==
  ASSUME NEW d, NEW r, Told(d, r), Calm(d), Steadfast, link' = "up" => link = "up",
         tok[d] \in eternal' => tok[d] \in eternal \/ at[d] # "expireWait"
  PROVE  Told(d, r)'
<1>1. /\ reply'[d] = Pending /\ at'[d] = at[d] /\ cur'[d] = cur[d] /\ tok'[d] = tok[d]
      /\ r.type # "pending" /\ at[d] \in Waits
  BY DEF Told, Calm
<1>2. PICK t : t = cur[d].tok
  OBVIOUS
<1>3. at'[d] = "getWait" /\ r.type = "string" => Vouched(cur[d].tok, r.str)'
  <2>1. at[d] = "getWait" /\ r.type = "string" => Vouched(t, r.str)
    BY <1>2 DEF Told, Answers
  <2>2. at[d] = "getWait" /\ r.type = "string" => Vouched(t, r.str)'
    BY <2>1 DEF Steadfast
  <2> QED
    BY <1>1, <1>2, <2>2 DEF Vouched
<1>4. at'[d] = "expireWait" /\ link' = "up" => tok'[d] \notin eternal'
  BY <1>1 DEF Told, Answers
<1> QED
  BY <1>1, <1>3, <1>4 DEF Told, Answers

LEMMA PipedStill ==
  ASSUME Piped, UNCHANGED <<link, out, net, back, waiters>>, \A d \in Conn : Calm(d),
         Steadfast, eternal' \subseteq eternal
  PROVE  Piped'
<1>1. Line' = Line
  BY DEF Line
<1>2. \A i \in 1 .. Len(back), c \in Conn, r \in Replies : waiters[i] = c /\ back[i] = r => Told(c, r)'
  BY ToldStill DEF Piped
<1>3. \A j \in 1 .. Len(Line), c \in Conn, m \in Command :
        waiters[Len(back) + j] = c /\ Line[j] = m => Asks(c, m)'
  BY AsksStill DEF Piped
<1> QED
  BY <1>1, <1>2, <1>3 DEF Piped

\* Who waits, waits once.
LEMMA Queued ==
  ASSUME RedisTypeOK, Piped, NEW i \in 1 .. Len(waiters)
  PROVE  waiters[i] \in Conn /\ reply[waiters[i]] = Pending /\ at[waiters[i]] \in Waits
<1>1. PICK d \in Conn : waiters[i] = d
  BY DEF RedisTypeOK
<1>2. CASE i \in 1 .. Len(back)
  <2>1. PICK r \in Replies : back[i] = r
    BY <1>2 DEF RedisTypeOK
  <2>2. Told(d, r)
    BY <1>1, <1>2, <2>1 DEF Piped
  <2> QED
    BY <1>1, <2>2 DEF Told
<1>3. CASE i \notin 1 .. Len(back)
  <2> DEFINE j == i - Len(back)
  <2>1. j \in 1 .. Len(Line) /\ Len(back) + j = i
    BY <1>3, InLine DEF Piped
  <2>2. PICK m \in Command : Line[j] = m
    BY <2>1, InLine
  <2>3. Asks(d, m)
    <3> HIDE DEF j
    <3> QED
      BY <1>1, <2>1, <2>2 DEF Piped
  <2> QED
    BY <1>1, <2>3 DEF Asks, Waits
<1> QED
  BY <1>2, <1>3

\* The command m of c goes into the buffer.
LEMMA Submitted ==
  ASSUME RedisTypeOK, Piped, NEW c \in Conn, NEW n, NEW t, NEW u,
         [name |-> n, tok |-> t, user |-> u] \in Command, Submit(c, n, t, u),
         reply[c] = Pending => at[c] \notin Waits,
         \A d \in Conn \ {c} : at'[d] = at[d] /\ cur'[d] = cur[d] /\ tok'[d] = tok[d],
         Steadfast,
         reply'[c] = Pending => Asks(c, [name |-> n, tok |-> t, user |-> u])'
  PROVE  /\ RedisTypeOK' /\ Piped' /\ UNCHANGED <<link, storeVars>>
         /\ reply'[c] # Pending => link = "lost" /\ reply'[c].type = "error"
         /\ \A d \in Conn \ {c} : reply'[d] = reply[d]
<1> DEFINE m == [name |-> n, tok |-> t, user |-> u]
<1>0. /\ net \in Seq(Command) /\ out \in Seq(Command) /\ waiters \in Seq(Conn)
      /\ reply \in [Conn -> Replies] /\ Pending \in Replies /\ Reply("error", NoUser) \in Replies
  BY DEF RedisTypeOK, Pending, Reply, Replies
<1>1. UNCHANGED <<link, net, back, holder, eternal>> /\ reply' \in [Conn -> Replies]
      /\ \A d \in Conn \ {c} : reply'[d] = reply[d]
  BY <1>0 DEF Submit, storeVars, linkVars
<1>2. \A d \in Conn \ {c} : Calm(d)
  BY <1>1 DEF Calm
<1>3. \A d \in Conn : reply[d] = Pending /\ at[d] \in Waits => d # c
  OBVIOUS
<1>4. \A d \in Conn : Calm(d)
  BY <1>2, <1>3 DEF Calm
<1>5. CASE link = "up"
  <2>1. /\ out' = Append(out, m) /\ waiters' = Append(waiters, c) /\ writing' = TRUE
        /\ reading' = reading /\ UpdateEvents /\ reply' = [reply EXCEPT ![c] = Pending]
    BY <1>5 DEF Submit
  <2>2. reply'[c] = Pending
    BY <1>0, <2>1
  <2> HIDE DEF m
  <2>3. m \in Command
    BY DEF m
  <2>4. out' \in Seq(Command) /\ waiters' \in Seq(Conn)
    BY <1>0, <2>1, <2>3, AppendProperties
  <2>5. RedisTypeOK'
    BY <1>1, <1>5, <2>1, <2>4 DEF RedisTypeOK, UpdateEvents
  <2>6. Line' = Append(Line, m)
    <3>1. net \o Append(out, m) = Append(net \o out, m)
      <4>1. Append(out, m) = out \o <<m>> /\ Append(net \o out, m) = (net \o out) \o <<m>> /\ <<m>> \in Seq(Command)
        BY <1>0, <2>3, ConcatProperties, AppendIsConcat
      <4> QED
        BY <1>0, <4>1, Associates
    <3> QED
      BY <1>1, <2>1, <3>1 DEF Line
  <2> DEFINE L == Line
             W == waiters
             b == Len(back)
             k == Len(Line)
  <2>7. L \in Seq(Command) /\ W \in Seq(Conn) /\ b \in Nat /\ k \in Nat /\ k = Len(L) /\ Len(W) = b + k
    BY <1>0, InLine DEF Piped
  <2>8. /\ Len(Line') = k + 1 /\ Line'[k + 1] = m /\ \A j \in 1 .. k : Line'[j] = L[j]
    BY <2>3, <2>6, <2>7, AppendProperties
  <2>9. /\ Len(waiters') = b + k + 1 /\ waiters'[b + k + 1] = c /\ \A i \in 1 .. b + k : waiters'[i] = W[i]
    BY <2>1, <2>7, AppendProperties
  <2>10. \A i \in 1 .. b + k : W[i] # c
    <3> TAKE i \in 1 .. b + k
    <3>1. i \in 1 .. Len(waiters)
      BY <2>7
    <3> QED
      BY <3>1, Queued
  <2>11. \A i, j \in 1 .. b + k : W[i] = W[j] => i = j
    BY <2>7 DEF Piped
  <2>12. \A i \in 1 .. b, d \in Conn, r \in Replies : W[i] = d /\ back[i] = r => Told(d, r)'
    BY <1>1, <1>4, ToldStill DEF Piped
  <2>13. \A j \in 1 .. k, d \in Conn, x \in Command : W[b + j] = d /\ L[j] = x => Asks(d, x)'
    BY <1>4, AsksStill DEF Piped
  <2> HIDE DEF L, W, b, k
  <2>14. \A i, j \in 1 .. Len(waiters') : waiters'[i] = waiters'[j] => i = j
    <3> TAKE i, j \in 1 .. Len(waiters')
    <3>1. i \in 1 .. b + k \/ i = b + k + 1
      BY <2>7, <2>9
    <3>2. j \in 1 .. b + k \/ j = b + k + 1
      BY <2>7, <2>9
    <3> QED
      BY <2>9, <2>10, <2>11, <3>1, <3>2
  <2>15. \A i \in 1 .. Len(back'), d \in Conn, r \in Replies : waiters'[i] = d /\ back'[i] = r => Told(d, r)'
    <3>1. Len(back') = b /\ back' = back
      BY <1>1 DEF b
    <3>2. \A i \in 1 .. b : waiters'[i] = W[i]
      BY <2>7, <2>9
    <3> QED
      BY <2>12, <3>1, <3>2
  <2>16. \A j \in 1 .. Len(Line'), d \in Conn, x \in Command :
           waiters'[Len(back') + j] = d /\ Line'[j] = x => Asks(d, x)'
    <3> TAKE j \in 1 .. Len(Line'), d \in Conn, x \in Command
    <3>1. Len(back') = b
      BY <1>1 DEF b
    <3>2. CASE j \in 1 .. k
      <4>1. waiters'[b + j] = W[b + j] /\ Line'[j] = L[j]
        BY <2>7, <2>8, <2>9, <3>2
      <4> QED
        BY <2>13, <3>1, <3>2, <4>1
    <3>3. CASE j = k + 1
      <4>1. waiters'[b + j] = c /\ Line'[j] = m
        BY <2>7, <2>8, <2>9, <3>3
      <4>2. Asks(c, m)'
        BY <2>2 DEF m
      <4> QED
        BY <3>1, <4>1, <4>2
    <3> QED
      BY <2>7, <2>8, <3>2, <3>3
  <2>17. Len(waiters') = Len(back') + Len(Line')
    <3>1. Len(back') = b
      BY <1>1 DEF b
    <3> QED
      BY <2>7, <2>8, <2>9, <3>1
  <2>18. link' # "lost"
    BY <1>1, <1>5
  <2>19. Piped'
    BY <2>14, <2>15, <2>16, <2>17, <2>18 DEF Piped
  <2> QED
    BY <1>1, <2>2, <2>5, <2>19 DEF storeVars
<1>6. CASE link # "up"
  <2>1. link = "lost" /\ UNCHANGED linkVars /\ (reply'[c] # Pending => reply'[c] = Reply("error", NoUser))
    BY <1>0, <1>6 DEF Submit
  <2>2. RedisTypeOK'
    BY <1>1, <2>1 DEF RedisTypeOK, linkVars
  <2>3. Piped'
    BY <1>1, <1>4, <2>1, PipedStill DEF linkVars
  <2> QED
    BY <1>1, <2>1, <2>2, <2>3 DEF storeVars, Reply
<1> QED
  BY <1>5, <1>6

-----------------------------------------------------------------------------
(* What a coroutine keeps while others act. *)

\* The name and the password of a post, the token of a request that shows one.
LEMMA AtWork ==
  ASSUME StreamInv, NEW c \in Conn, at[c] \in Working \cup Acting
  PROVE  /\ cur[c] \in Item
         /\ cur[c].kind \in Posts => cur[c].user \in User /\ cur[c].password \in Password
         /\ Session(c) /\ cur[c].kind \in {"check", "upgrade"} => cur[c].tok \in known \cup {NoToken}
<1>1. /\ Busy(c) /\ Scripted(c) /\ asked[c] \in Seq(Item) /\ taken[c] \in 1 .. Len(asked[c])
      /\ cur[c] = asked[c][taken[c]]
  BY DEF StreamInv, Typed, Reader, Counted, Busy
<1>2. cur[c] \in Item
  BY <1>1
<1>3. cur[c].kind \in Posts => cur[c].user \in User /\ cur[c].password \in Password
  BY <1>1 DEF Scripted
<1>4. Session(c) /\ cur[c].kind \in {"check", "upgrade"} => cur[c].tok \in known \cup {NoToken}
  BY <1>1 DEF Session
<1> QED
  BY <1>2, <1>3, <1>4

LEMMA LoggingIn ==
  ASSUME StreamInv, NEW c \in Conn, Session(c), at[c] = "select" \/ Making(c)
  PROVE  cur[c].kind = "login" /\ cur[c].user \in User /\ cur[c].password \in Password
<1>1. at[c] \in Working \cup Acting
  BY DEF Making, Working
<1>2. cur[c].kind = "login"
  BY DEF Session
<1> QED
  BY <1>1, <1>2, AtWork DEF Posts

\* The answer r is as good as before.
LEMMA AnswersStill ==
  ASSUME NEW d, NEW r, Answers(d, r), at'[d] = at[d], cur'[d] = cur[d], tok'[d] = tok[d],
         Steadfast, link' = "up" => link = "up",
         tok[d] \in eternal' => tok[d] \in eternal \/ at[d] # "expireWait"
  PROVE  Answers(d, r)'
<1>2. PICK t : t = cur[d].tok
  OBVIOUS
<1>3. at'[d] = "getWait" /\ r.type = "string" => Vouched(cur[d].tok, r.str)'
  <2>1. at[d] = "getWait" /\ r.type = "string" => Vouched(t, r.str)
    BY <1>2 DEF Answers
  <2>2. at[d] = "getWait" /\ r.type = "string" => Vouched(t, r.str)'
    BY <2>1 DEF Steadfast
  <2> QED
    BY <1>2, <2>2 DEF Vouched
<1>4. at'[d] = "expireWait" /\ link' = "up" => tok'[d] \notin eternal'
  BY DEF Answers
<1> QED
  BY <1>3, <1>4 DEF Answers

LEMMA SessionStill ==
  ASSUME NEW d \in Conn, Session(d),
         at'[d] = at[d], cur'[d] = cur[d], tok'[d] = tok[d], asked'[d] = asked[d], answer'[d] = answer[d],
         Steadfast, known \subseteq known',
         Making(d) => given'[tok[d]].user = NoUser /\ users'[cur[d].user] = users[cur[d].user],
         \A r : reply'[d] = r /\ r # Pending => Answers(d, r)'
  PROVE  Session(d)'
<1>1. /\ Making(d)' <=> Making(d)
  BY DEF Making
<1>2. PICK t, u, v, w : t = cur[d].tok /\ u = answer[d].user /\ v = tok[d] /\ w = cur[d].user
  OBVIOUS
<1>3. at'[d] \in {"respond", "handshake"} /\ cur'[d].kind \in {"check", "upgrade"}
       /\ answer'[d].status \in {101, 200} => Vouched(cur[d].tok, answer[d].user)'
  <2>1. at[d] \in {"respond", "handshake"} /\ cur[d].kind \in {"check", "upgrade"}
          /\ answer[d].status \in {101, 200} => Vouched(t, u)'
    BY <1>2 DEF Session, Steadfast
  <2> QED
    BY <1>2, <2>1 DEF Vouched
<1>4. at'[d] = "respond" /\ cur'[d].kind = "login" /\ answer'[d].status = 200
       => Vouched(tok[d], cur[d].user)'
  <2>1. at[d] = "respond" /\ cur[d].kind = "login" /\ answer[d].status = 200 => Vouched(v, w)'
    BY <1>2 DEF Session, Steadfast
  <2> QED
    BY <1>2, <2>1 DEF Vouched
<1>5. Making(d)' => /\ tok'[d] \in Token /\ given'[tok'[d]].user = NoUser
                    /\ cur'[d].password = users'[cur'[d].user]
  BY <1>1 DEF Session
<1>6. reply'[d] # Pending => Answers(d, reply[d])'
  <2>1. PICK r : r = reply'[d]
    OBVIOUS
  <2>2. r # Pending => Answers(d, r)'
    BY <2>1
  <2> QED
    BY <2>1, <2>2 DEF Answers
<1>7. \A i \in 1 .. Len(asked'[d]) :
        asked'[d][i].kind \in {"check", "upgrade"} => asked'[d][i].tok \in known' \cup {NoToken}
  BY DEF Session
<1>8. /\ at'[d] \notin Working \cup Acting => cur'[d] = NoItem
      /\ at'[d] \in Acting => cur'[d].kind \in Frames
      /\ at'[d] = "insert" => cur'[d].kind = "register"
      /\ at'[d] = "select" \/ Making(d)' => cur'[d].kind = "login"
      /\ at'[d] = "getWait" => cur'[d].kind \in {"check", "upgrade"}
      /\ at'[d] \in Working \ {"respond", "handshake"} => answer'[d].status = 0
  BY <1>1 DEF Session
<1>9. Pending' = Pending
  BY DEF Pending, Reply
<1> QED
  BY <1>3, <1>4, <1>5, <1>6, <1>7, <1>8, <1>9 DEF Session

LEMMA NamesStill ==
  ASSUME Names, UNCHANGED <<users, created, given>>
  PROVE  Names' /\ Steadfast
BY DEF Names, Steadfast, Vouched

-----------------------------------------------------------------------------
(* Redis. *)

LEMMA MovedCommands ==
  \A s, w \in Seq(Command) : \A n \in 1 .. Len(w) :
    /\ s \o SubSeq(w, 1, n) \in Seq(Command) /\ Len(s \o SubSeq(w, 1, n)) = Len(s) + n
    /\ SubSeq(w, n + 1, Len(w)) \in Seq(Command)
    /\ (s \o SubSeq(w, 1, n)) \o SubSeq(w, n + 1, Len(w)) = s \o w
BY Moved, Zenon

LEMMA HandleWriteSession ==
  ASSUME StreamInv, SessionInv, HandleWrite, UNCHANGED <<accountVars, streamVars>>
  PROVE  SessionInv'
<1>0. RedisTypeOK /\ Piped /\ Tokens /\ Names
  BY DEF SessionInv
<1>1. PICK n \in 1 .. Len(out) : /\ net' = net \o SubSeq(out, 1, n)
                                 /\ out' = SubSeq(out, n + 1, Len(out))
  BY DEF HandleWrite
<1>2. net \in Seq(Command) /\ out \in Seq(Command)
  BY <1>0 DEF RedisTypeOK
<1>3. /\ net' \in Seq(Command) /\ out' \in Seq(Command) /\ net' \o out' = net \o out
  <2>1. PICK s \in Seq(Command), w \in Seq(Command) : s = net /\ w = out
    BY <1>2
  <2>2. n \in 1 .. Len(w)
    BY <1>1, <2>1
  <2>3. /\ s \o SubSeq(w, 1, n) \in Seq(Command) /\ SubSeq(w, n + 1, Len(w)) \in Seq(Command)
        /\ (s \o SubSeq(w, 1, n)) \o SubSeq(w, n + 1, Len(w)) = s \o w
    BY <2>2, MovedCommands, Zenon
  <2> QED
    BY <1>1, <2>1, <2>3
<1>4. /\ UNCHANGED <<link, back, waiters, reply, holder, eternal>>
      /\ reading' \in BOOLEAN /\ writing' \in BOOLEAN /\ UpdateEvents
  BY DEF HandleWrite, storeVars
<1>5. UNCHANGED <<at, cur, tok, users, fresh, given, created, answer, asked, known>>
  BY DEF accountVars, streamVars
<1>6. RedisTypeOK'
  BY <1>0, <1>3, <1>4 DEF RedisTypeOK, UpdateEvents
<1>7. Names' /\ Steadfast
  BY <1>0, <1>5, NamesStill
<1>8. Line' = Line
  BY <1>3 DEF Line
<1>9. Piped'
  <2>1. \A d \in Conn : Calm(d)
    BY <1>4, <1>5 DEF Calm
  <2>2. \A i \in 1 .. Len(back), c \in Conn, r \in Replies : waiters[i] = c /\ back[i] = r => Told(c, r)'
    BY <1>0, <1>4, <1>7, <2>1, ToldStill DEF Piped
  <2>3. \A j \in 1 .. Len(Line), c \in Conn, m \in Command :
          waiters[Len(back) + j] = c /\ Line[j] = m => Asks(c, m)'
    BY <1>0, <2>1, AsksStill DEF Piped
  <2> QED
    BY <1>0, <1>4, <1>8, <2>2, <2>3 DEF Piped
<1>10. Tokens'
  BY <1>0, <1>4, <1>5 DEF Tokens, TokensExpire, Vouched, Making
<1>11. ASSUME NEW d \in Conn
       PROVE  Session(d)'
  <2>1. Session(d)
    BY DEF SessionInv
  <2>2. \A r : reply'[d] = r /\ r # Pending => Answers(d, r)'
    <3> TAKE r
    <3> HAVE reply'[d] = r /\ r # Pending
    <3>1. Answers(d, r)
      BY <1>4, <2>1 DEF Session
    <3> QED
      BY <1>4, <1>5, <1>7, <3>1, AnswersStill
  <2>3. Making(d) => given'[tok[d]].user = NoUser /\ users'[cur[d].user] = users[cur[d].user]
    BY <1>5, <2>1 DEF Session
  <2> QED
    BY <1>5, <1>7, <2>1, <2>2, <2>3, SessionStill
<1> QED
  BY <1>6, <1>7, <1>9, <1>10, <1>11 DEF SessionInv

LEMMA ExpireSession ==
  ASSUME StreamInv, SessionInv, NEW t \in Token, Expire(t), UNCHANGED <<accountVars, streamVars>>
  PROVE  SessionInv'
<1>0. RedisTypeOK /\ Piped /\ Tokens /\ Names
  BY DEF SessionInv
<1>1. /\ UNCHANGED <<link, out, net, back, waiters, reading, writing, watched, reply, eternal>>
      /\ holder' = [holder EXCEPT ![t] = NoUser]
  BY DEF Expire, linkVars
<1>2. UNCHANGED <<at, cur, tok, users, fresh, given, created, answer, asked, known>>
  BY DEF accountVars, streamVars
<1>3. RedisTypeOK'
  BY <1>0, <1>1 DEF RedisTypeOK
<1>4. Names' /\ Steadfast
  BY <1>0, <1>2, NamesStill
<1>5. Piped'
  <2>1. \A d \in Conn : Calm(d)
    BY <1>1, <1>2 DEF Calm
  <2> QED
    BY <1>0, <1>1, <1>4, <2>1, PipedStill
<1>6. Tokens'
  <2>1. \A s \in Token : holder'[s] # NoUser => holder'[s] = holder[s]
    BY <1>0, <1>1 DEF RedisTypeOK
  <2>2. \A s \in Token : holder[s] = NoUser => holder'[s] = NoUser
    BY <1>0, <1>1 DEF RedisTypeOK
  <2>3. fresh \subseteq Token
    BY DEF StreamInv, Typed
  <2>4. \A s \in fresh : holder'[s] = NoUser /\ given'[s].user = NoUser /\ s \notin eternal'
    BY <1>0, <1>1, <1>2, <2>2, <2>3 DEF Tokens
  <2>5. \A s \in Token : holder'[s] # NoUser =>
          \/ Vouched(s, holder[s])'
          \/ \E c \in Conn : Making(c)' /\ tok'[c] = s /\ cur'[c].user = holder'[s]
    BY <1>0, <1>2, <2>1 DEF Tokens, Vouched, Making
  <2> QED
    BY <1>0, <1>1, <1>2, <2>4, <2>5 DEF Tokens, TokensExpire, Vouched
<1>7. ASSUME NEW d \in Conn
      PROVE  Session(d)'
  <2>1. Session(d)
    BY DEF SessionInv
  <2>2. \A r : reply'[d] = r /\ r # Pending => Answers(d, r)'
    <3> TAKE r
    <3> HAVE reply'[d] = r /\ r # Pending
    <3>1. Answers(d, r)
      BY <1>1, <2>1 DEF Session
    <3> QED
      BY <1>1, <1>2, <1>4, <3>1, AnswersStill
  <2>3. Making(d) => given'[tok[d]].user = NoUser /\ users'[cur[d].user] = users[cur[d].user]
    BY <1>2, <2>1 DEF Session
  <2> QED
    BY <1>2, <1>4, <2>1, <2>2, <2>3, SessionStill
<1> QED
  BY <1>3, <1>4, <1>5, <1>6, <1>7 DEF SessionInv

LEMMA LoseSession ==
  ASSUME StreamInv, SessionInv, Lose, UNCHANGED <<accountVars, streamVars>>
  PROVE  SessionInv'
<1>0. RedisTypeOK /\ Piped /\ Tokens /\ Names
  BY DEF SessionInv
<1>1. /\ link' = "lost" /\ out' = <<>> /\ net' = <<>> /\ back' = <<>> /\ waiters' = <<>> /\ watched' = {}
      /\ UNCHANGED <<reading, writing, holder, eternal>>
      /\ reply' = [c \in Conn |-> IF c \in Range(waiters) THEN Reply("null", NoUser) ELSE reply[c]]
  BY DEF Lose, storeVars
<1>2. UNCHANGED <<at, cur, tok, users, fresh, given, created, answer, asked, known>>
  BY DEF accountVars, streamVars
<1>3. RedisTypeOK'
  <2>1. Reply("null", NoUser) \in Replies
    BY DEF Reply, Replies
  <2>2. reply' \in [Conn -> Replies]
    BY <1>0, <1>1, <2>1 DEF RedisTypeOK
  <2> QED
    BY <1>0, <1>1, <2>2 DEF RedisTypeOK
<1>4. Names' /\ Steadfast
  BY <1>0, <1>2, NamesStill
<1>5. Piped'
  <2>1. Line' = <<>>
    BY <1>1 DEF Line
  <2> QED
    BY <1>1, <2>1 DEF Piped
<1>6. Tokens'
  BY <1>0, <1>1, <1>2 DEF Tokens, TokensExpire, Vouched, Making
<1>7. ASSUME NEW d \in Conn
      PROVE  Session(d)'
  <2>1. Session(d)
    BY DEF SessionInv
  <2>2. \A r : reply'[d] = r /\ r # Pending => Answers(d, r)'
    <3> TAKE r
    <3> HAVE reply'[d] = r /\ r # Pending
    <3>1. CASE r = Reply("null", NoUser)
      BY <1>1, <3>1 DEF Answers, Reply
    <3>2. CASE r # Reply("null", NoUser)
      <4>1. Answers(d, r)
        BY <1>1, <2>1, <3>2 DEF Session
      <4> QED
        BY <1>1, <1>2, <1>4, <4>1, AnswersStill
    <3> QED
      BY <3>1, <3>2
  <2>3. Making(d) => given'[tok[d]].user = NoUser /\ users'[cur[d].user] = users[cur[d].user]
    BY <1>2, <2>1 DEF Session
  <2> QED
    BY <1>2, <1>4, <2>1, <2>2, <2>3, SessionStill
<1> QED
  BY <1>3, <1>4, <1>5, <1>6, <1>7 DEF SessionInv

LEMMA HandleReadSession ==
  ASSUME StreamInv, SessionInv, HandleRead, UNCHANGED <<accountVars, streamVars>>
  PROVE  SessionInv'
<1>0. RedisTypeOK /\ Piped /\ Tokens /\ Names
  BY DEF SessionInv
<1>1. /\ back # <<>> /\ waiters' = Tail(waiters) /\ back' = Tail(back)
      /\ reply' = [reply EXCEPT ![Head(waiters)] = Head(back)]
      /\ UNCHANGED <<link, out, net, reading, writing, watched, holder, eternal>>
  BY DEF HandleRead, storeVars
<1>2. UNCHANGED <<at, cur, tok, users, fresh, given, created, answer, asked, known>>
  BY DEF accountVars, streamVars
<1>3. Names' /\ Steadfast
  BY <1>0, <1>2, NamesStill
<1> DEFINE b == Len(back)
           k == Len(Line)
           n == Len(waiters)
<1>4. /\ back \in Seq(Replies) /\ waiters \in Seq(Conn) /\ b \in Nat /\ k \in Nat /\ n \in Nat
      /\ b = Len(back) /\ n = b + k /\ n = Len(waiters) /\ Line' = Line /\ k = Len(Line)
  BY <1>0, <1>1, InLine DEF RedisTypeOK, Piped, Line
<1>5. b > 0
  BY <1>1, <1>4, EmptySeq
<1>6. waiters # <<>>
  BY <1>4, <1>5, EmptySeq
<1> HIDE DEF b, k, n
<1>7. /\ Tail(waiters) \in Seq(Conn) /\ Len(Tail(waiters)) = n - 1
      /\ \A i \in 1 .. Len(Tail(waiters)) : Tail(waiters)[i] = waiters[i + 1]
  BY <1>4, <1>6, HeadTailProperties
<1>8. /\ Tail(back) \in Seq(Replies) /\ Len(Tail(back)) = b - 1
      /\ \A i \in 1 .. Len(Tail(back)) : Tail(back)[i] = back[i + 1]
  BY <1>1, <1>4, HeadTailProperties
<1>9. PICK c \in Conn, r \in Replies : c = waiters[1] /\ r = back[1] /\ c = Head(waiters) /\ r = Head(back)
  BY <1>1, <1>4, <1>6, HeadTailProperties
<1>10. reply' = [reply EXCEPT ![c] = r] /\ reply'[c] = r /\ \A d \in Conn \ {c} : reply'[d] = reply[d]
  BY <1>0, <1>1, <1>9 DEF RedisTypeOK
<1>11. RedisTypeOK'
  <2>1. reply' \in [Conn -> Replies]
    BY <1>0, <1>10 DEF RedisTypeOK
  <2> QED
    BY <1>0, <1>1, <1>7, <1>8, <2>1 DEF RedisTypeOK
<1>12. Told(c, r)
  <2>1. 1 \in 1 .. Len(back)
    BY <1>4, <1>5
  <2> QED
    BY <1>0, <1>9, <2>1 DEF Piped
<1>13. \A i \in 2 .. n : waiters[i] # c
  <2> TAKE i \in 2 .. n
  <2>1. i \in 1 .. Len(waiters) /\ 1 \in 1 .. Len(waiters) /\ i # 1
    BY <1>4
  <2> QED
    BY <1>0, <1>9, <2>1 DEF Piped
<1>14. \A d \in Conn \ {c} : Calm(d)
  BY <1>2, <1>10 DEF Calm
<1>15. Piped'
  <2>1. link' = "lost" => back' = <<>> /\ waiters' = <<>> /\ Line' = <<>>
    BY <1>0, <1>1 DEF Piped
  <2>2. Len(waiters') = n - 1 /\ Len(back') = b - 1 /\ Len(Line') = k
    BY <1>1, <1>4, <1>7, <1>8
  <2>3. Len(waiters') = Len(back') + Len(Line')
    BY <1>4, <2>2
  <2>4. \A i \in 1 .. n - 1 : waiters'[i] = waiters[i + 1] /\ i + 1 \in 2 .. n
    BY <1>1, <1>4, <1>7
  <2>5. \A i, j \in 1 .. Len(waiters') : waiters'[i] = waiters'[j] => i = j
    <3> TAKE i, j \in 1 .. Len(waiters')
    <3>1. i \in 1 .. n - 1 /\ j \in 1 .. n - 1
      BY <2>2
    <3>2. i + 1 \in 1 .. Len(waiters) /\ j + 1 \in 1 .. Len(waiters)
      BY <1>4, <3>1
    <3>3. waiters[i + 1] = waiters[j + 1] => i + 1 = j + 1
      BY <1>0, <3>2 DEF Piped
    <3> QED
      BY <1>4, <2>4, <3>1, <3>3
  <2>6. \A i \in 1 .. Len(back'), d \in Conn, x \in Replies : waiters'[i] = d /\ back'[i] = x => Told(d, x)'
    <3> TAKE i \in 1 .. Len(back'), d \in Conn, x \in Replies
    <3> HAVE waiters'[i] = d /\ back'[i] = x
    <3>1. i \in 1 .. b - 1
      BY <2>2
    <3>2. i + 1 \in 1 .. Len(back) /\ i \in 1 .. n - 1
      BY <1>4, <3>1
    <3>3. waiters[i + 1] = d /\ back[i + 1] = x /\ d # c
      BY <1>1, <1>8, <1>13, <2>4, <3>2
    <3>4. Told(d, x)
      BY <1>0, <3>2, <3>3 DEF Piped
    <3>5. Calm(d)
      BY <1>14, <3>3
    <3> QED
      BY <1>1, <1>3, <3>4, <3>5, ToldStill
  <2>7. \A j \in 1 .. Len(Line'), d \in Conn, m \in Command :
          waiters'[Len(back') + j] = d /\ Line'[j] = m => Asks(d, m)'
    <3> TAKE j \in 1 .. Len(Line'), d \in Conn, m \in Command
    <3> HAVE waiters'[Len(back') + j] = d /\ Line'[j] = m
    <3> DEFINE i == Len(back') + j
    <3>1. j \in 1 .. k /\ i = b - 1 + j
      BY <2>2
    <3>2. i \in 1 .. n - 1 /\ i + 1 = b + j /\ i + 1 \in 2 .. n
      BY <1>4, <1>5, <3>1
    <3> HIDE DEF i
    <3>3. waiters[b + j] = d /\ d # c
      <4>1. waiters'[i] = waiters[i + 1]
        BY <2>4, <3>2
      <4>2. waiters'[i] = d
        BY DEF i
      <4> QED
        BY <1>13, <3>2, <4>1, <4>2
    <3>4. Asks(d, m)
      BY <1>0, <1>4, <3>1, <3>3 DEF Piped, b
    <3>5. Calm(d)
      BY <1>14, <3>3
    <3> QED
      BY <3>4, <3>5, AsksStill
  <2> QED
    BY <2>1, <2>3, <2>5, <2>6, <2>7 DEF Piped
<1>16. Tokens'
  BY <1>0, <1>1, <1>2 DEF Tokens, TokensExpire, Vouched, Making
<1>17. ASSUME NEW d \in Conn
       PROVE  Session(d)'
  <2>1. Session(d)
    BY DEF SessionInv
  <2>2. \A x : reply'[d] = x /\ x # Pending => Answers(d, x)'
    <3> TAKE x
    <3> HAVE reply'[d] = x /\ x # Pending
    <3>1. Answers(d, x)
      <4>1. CASE d = c
        BY <1>10, <1>12, <4>1 DEF Told
      <4>2. CASE d # c
        BY <1>10, <2>1, <4>2 DEF Session
      <4> QED
        BY <4>1, <4>2
    <3> QED
      BY <1>1, <1>2, <1>3, <3>1, AnswersStill
  <2>3. Making(d) => given'[tok[d]].user = NoUser /\ users'[cur[d].user] = users[cur[d].user]
    BY <1>2, <2>1 DEF Session
  <2> QED
    BY <1>2, <1>3, <2>1, <2>2, <2>3, SessionStill
<1> QED
  BY <1>3, <1>11, <1>15, <1>16, <1>17 DEF SessionInv

\* Redis has executed the command of c and answers r.
LEMMA ExecutedPiped ==
  ASSUME RedisTypeOK, Piped, net # <<>>, NEW r \in Replies, NEW c \in Conn, c = waiters[Len(back) + 1],
         net' = Tail(net), back' = Append(back, r),
         UNCHANGED <<link, out, waiters, reply, at, cur, tok, given>>,
         Told(c, r)',
         \A d \in Conn \ {c} : tok[d] \in eternal' => tok[d] \in eternal
  PROVE  Piped'
<1> DEFINE b == Len(back)
           k == Len(Line)
           n == Len(waiters)
<1>1. /\ back \in Seq(Replies) /\ waiters \in Seq(Conn) /\ b \in Nat /\ k \in Nat /\ n \in Nat
      /\ b = Len(back) /\ n = b + k /\ n = Len(waiters) /\ Line \in Seq(Command) /\ k = Len(Line)
      /\ net \in Seq(Command) /\ out \in Seq(Command)
  BY InLine DEF RedisTypeOK, Piped
<1>2. Len(net) > 0 /\ k = Len(net) + Len(out) /\ Len(net) \in Nat /\ Len(out) \in Nat
  BY <1>1, InLine, EmptySeq
<1>3. k > 0
  BY <1>1, <1>2
<1> HIDE DEF b, k, n
<1>4. Len(back') = b + 1 /\ back'[b + 1] = r /\ \A i \in 1 .. b : back'[i] = back[i]
  BY <1>1, AppendProperties
<1>5. /\ Len(Line') = k - 1
      /\ \A j \in 1 .. k - 1 : Line'[j] = Line[j + 1]
  <2>1. /\ Tail(net) \in Seq(Command) /\ Len(Tail(net)) = Len(net) - 1
        /\ \A i \in 1 .. Len(Tail(net)) : Tail(net)[i] = net[i + 1]
    BY <1>1, HeadTailProperties
  <2>2. Line' = Tail(net) \o out
    BY DEF Line
  <2> DEFINE s == Tail(net)
             p == Len(net)
             q == Len(out)
  <2>3. s \in Seq(Command) /\ p \in Nat /\ q \in Nat /\ Len(s) = p - 1 /\ p > 0 /\ p = Len(net) /\ q = Len(out)
    BY <1>2, <2>1
  <2>4. \A i \in 1 .. p - 1 : s[i] = net[i + 1]
    BY <2>1
  <2> HIDE DEF s, p, q
  <2>5. /\ Len(s \o out) = Len(s) + q
        /\ \A i \in 1 .. Len(s) + q : (s \o out)[i] = IF i <= Len(s) THEN s[i] ELSE out[i - Len(s)]
    <3>1. /\ Len(s \o out) = Len(s) + Len(out)
          /\ \A i \in 1 .. Len(s) + Len(out) : (s \o out)[i] = IF i <= Len(s) THEN s[i] ELSE out[i - Len(s)]
      <4>1. s \in Seq(Command) /\ out \in Seq(Command)
        BY <1>1, <2>3
      <4> QED
        BY <4>1, ConcatProperties
    <3>2. q = Len(out)
      BY <2>3
    <3> QED
      BY <3>1, <3>2, Zenon
  <2>6. \A i \in 1 .. p + q : (net \o out)[i] = IF i <= p THEN net[i] ELSE out[i - p]
    <3>1. net \in Seq(Command) /\ out \in Seq(Command) /\ p = Len(net) /\ q = Len(out)
      BY <1>1, <2>3 DEF p, q
    <3>2. \A i \in 1 .. Len(net) + Len(out) :
            (net \o out)[i] = IF i <= Len(net) THEN net[i] ELSE out[i - Len(net)]
      BY <3>1, ConcatProperties
    <3> QED
      BY <3>1, <3>2, Zenon
  <2>7. k = p + q
    BY <1>2 DEF p, q
  <2>8. ASSUME NEW j \in 1 .. k - 1
        PROVE  (s \o out)[j] = (net \o out)[j + 1]
    <3>1. /\ j \in 1 .. Len(s) + q /\ j + 1 \in 1 .. p + q /\ j - Len(s) = (j + 1) - p
          /\ j <= Len(s) <=> j + 1 <= p
      BY <2>3, <2>7
    <3>2. CASE j <= Len(s)
      <4>1. j \in 1 .. p - 1
        BY <2>3, <3>2
      <4> QED
        BY <2>4, <2>5, <2>6, <3>1, <3>2, <4>1
    <3>3. CASE ~ (j <= Len(s))
      BY <2>5, <2>6, <3>1, <3>3
    <3> QED
      BY <3>2, <3>3
  <2> QED
    BY <2>2, <2>3, <2>5, <2>7, <2>8 DEF Line, s
<1>6. \A d \in Conn : Calm(d)
  BY DEF Calm
<1>7. Steadfast
  BY DEF Steadfast, Vouched
<1>8. link' # "lost"
  <2>1. Line # <<>>
    BY <1>1, <1>3, EmptySeq
  <2> QED
    BY <2>1 DEF Piped
<1>9. Len(waiters') = Len(back') + Len(Line')
  <2>1. Len(waiters') = n /\ Len(back') = b + 1 /\ Len(Line') = k - 1
    BY <1>1, <1>4, <1>5
  <2>2. n = b + k /\ b \in Nat /\ k \in Nat
    BY <1>1
  <2> QED
    BY <2>1, <2>2
<1>10. \A i, j \in 1 .. Len(waiters') : waiters'[i] = waiters'[j] => i = j
  BY DEF Piped
<1>11. \A i \in 1 .. b : waiters[i] # c
  <2> TAKE i \in 1 .. b
  <2>1. i \in 1 .. Len(waiters) /\ b + 1 \in 1 .. Len(waiters) /\ i # b + 1
    BY <1>1, <1>3
  <2> QED
    BY <2>1 DEF Piped, b
<1>12. \A i \in 1 .. Len(back'), d \in Conn, x \in Replies : waiters'[i] = d /\ back'[i] = x => Told(d, x)'
  <2> TAKE i \in 1 .. Len(back'), d \in Conn, x \in Replies
  <2> HAVE waiters'[i] = d /\ back'[i] = x
  <2>1. CASE i = b + 1
    <3>1. d = c /\ x = r
      BY <1>4, <2>1 DEF b
    <3> QED
      BY <3>1
  <2>2. CASE i \in 1 .. b
    <3>1. waiters[i] = d /\ back[i] = x /\ d # c
      BY <1>4, <1>11, <2>2
    <3>2. Told(d, x)
      BY <2>2, <3>1 DEF Piped, b
    <3> QED
      BY <1>6, <1>7, <3>1, <3>2, ToldStill
  <2> QED
    BY <1>1, <1>4, <2>1, <2>2
<1>13. \A j \in 1 .. Len(Line'), d \in Conn, m \in Command :
         waiters'[Len(back') + j] = d /\ Line'[j] = m => Asks(d, m)'
  <2> TAKE j \in 1 .. Len(Line'), d \in Conn, m \in Command
  <2> HAVE waiters'[Len(back') + j] = d /\ Line'[j] = m
  <2>1. j \in 1 .. k - 1 /\ j + 1 \in 1 .. k /\ Len(back') + j = b + (j + 1)
    BY <1>1, <1>4, <1>5
  <2>2. waiters[b + (j + 1)] = d /\ Line[j + 1] = m
    BY <1>5, <2>1
  <2>3. Asks(d, m)
    <3> DEFINE i == j + 1
    <3>1. i \in 1 .. Len(Line) /\ waiters[Len(back) + i] = d /\ Line[i] = m
      BY <1>1, <2>1, <2>2
    <3> HIDE DEF i
    <3> QED
      BY <3>1 DEF Piped
  <2> QED
    BY <1>6, <2>3, AsksStill
<1> QED
  BY <1>8, <1>9, <1>10, <1>12, <1>13 DEF Piped

\* A token somebody shows belongs to who is in the store for it.
LEMMA ShownIsOwned ==
  ASSUME StreamInv, SessionInv, NEW c \in Conn, at[c] = "getWait",
         cur[c].tok \in Token, holder[cur[c].tok] # NoUser
  PROVE  Vouched(cur[c].tok, holder[cur[c].tok])
<1> DEFINE t == cur[c].tok
<1>0. Tokens /\ Session(c)
  BY DEF SessionInv
<1>1. t \in known
  <2>1. cur[c].tok \in known \cup {NoToken}
    <3>1. cur[c].kind \in {"check", "upgrade"}
      BY <1>0 DEF Session
    <3>2. at[c] \in Working \cup Acting
      BY DEF Working
    <3> QED
      BY <1>0, <3>1, <3>2, AtWork
  <2> QED
    BY <2>1, LinkAssumption
<1>2. given[t].user \in User /\ given[t].user # NoUser
  BY <1>0, <1>1, LinkAssumption DEF Tokens
<1>3. ASSUME NEW d \in Conn, Making(d), tok[d] = t
      PROVE  FALSE
  <2>1. Session(d)
    BY DEF SessionInv
  <2> QED
    BY <1>2, <1>3, <2>1 DEF Session
<1> QED
  BY <1>0, <1>3 DEF Tokens

LEMMA ExecuteSession ==
  ASSUME StreamInv, SessionInv, Execute, UNCHANGED <<accountVars, streamVars>>
  PROVE  SessionInv'
<1>0. RedisTypeOK /\ Piped /\ Tokens /\ Names
  BY DEF SessionInv
<1>1. /\ net # <<>> /\ net' = Tail(net)
      /\ UNCHANGED <<link, out, waiters, reading, writing, watched, reply>>
  BY DEF Execute
<1>2. UNCHANGED <<at, cur, tok, users, fresh, given, created, answer, asked, known>>
  BY DEF accountVars, streamVars
<1>3. Names' /\ Steadfast
  BY <1>0, <1>2, NamesStill
<1> DEFINE b == Len(back)
           k == Len(Line)
           n == Len(waiters)
<1>4. /\ net \in Seq(Command) /\ out \in Seq(Command) /\ back \in Seq(Replies) /\ waiters \in Seq(Conn)
      /\ reply \in [Conn -> Replies] /\ holder \in [Token -> User \cup {NoUser}] /\ eternal \subseteq Token
      /\ b \in Nat /\ k \in Nat /\ n \in Nat /\ n = b + k /\ k = Len(net) + Len(out)
      /\ Len(net) \in Nat /\ Len(out) \in Nat
  BY <1>0, InLine DEF RedisTypeOK, Piped
<1>5. Len(net) > 0 /\ k > 0
  BY <1>1, <1>4, EmptySeq
<1>6. PICK m \in Command : m = Head(net) /\ m = Line[1]
  <2>1. Head(net) \in Command /\ Head(net) = net[1]
    BY <1>1, <1>4, HeadTailProperties
  <2>2. \A i \in 1 .. Len(net) + Len(out) : (net \o out)[i] = IF i <= Len(net) THEN net[i] ELSE out[i - Len(net)]
    BY <1>4, ConcatProperties
  <2>3. 1 \in 1 .. Len(net) + Len(out) /\ 1 <= Len(net)
    BY <1>4, <1>5
  <2>4. (net \o out)[1] = net[1]
    BY <2>2, <2>3
  <2> QED
    BY <2>1, <2>4 DEF Line
<1>7. PICK c \in Conn : c = waiters[Len(back) + 1]
  <2>1. b + 1 \in 1 .. n
    BY <1>4, <1>5
  <2> QED
    BY <1>4, <2>1
<1>8. Asks(c, m)
  <2>1. 1 \in 1 .. Len(Line)
    BY <1>4, <1>5
  <2> QED
    BY <1>0, <1>6, <1>7, <2>1 DEF Piped
<1> HIDE DEF b, k, n
<1>9. tok[c] \in Token => \A d \in Conn \ {c} : tok[d] # tok[c]
  BY <1>0 DEF Tokens
<1>10. Session(c)
  BY DEF SessionInv
\* What is common to the four kinds of commands.
<1>11. ASSUME NEW r \in Replies, back' = Append(back, r),
              holder' \in [Token -> User \cup {NoUser}], eternal' \subseteq Token,
              Told(c, r)',
              \A d \in Conn \ {c} : tok[d] \in eternal' => tok[d] \in eternal,
              Tokens'
       PROVE  SessionInv'
  <2>1. RedisTypeOK'
    <3>1. Tail(net) \in Seq(Command) /\ Append(back, r) \in Seq(Replies)
      BY <1>1, <1>4, <1>11, HeadTailProperties, AppendProperties
    <3> QED
      BY <1>0, <1>1, <1>11, <3>1 DEF RedisTypeOK
  <2>2. Piped'
    BY <1>0, <1>1, <1>2, <1>7, <1>11, ExecutedPiped
  <2>3. ASSUME NEW d \in Conn
        PROVE  Session(d)'
    <3>1. Session(d)
      BY DEF SessionInv
    <3>2. \A x : reply'[d] = x /\ x # Pending => Answers(d, x)'
      <4> TAKE x
      <4> HAVE reply'[d] = x /\ x # Pending
      <4>1. d # c
        BY <1>1, <1>8 DEF Asks
      <4>2. Answers(d, x)
        BY <1>1, <3>1 DEF Session
      <4>3. tok[d] \in eternal' => tok[d] \in eternal
        BY <1>11, <4>1
      <4> QED
        BY <1>1, <1>2, <1>3, <4>2, <4>3, AnswersStill
    <3>3. Making(d) => given'[tok[d]].user = NoUser /\ users'[cur[d].user] = users[cur[d].user]
      BY <1>2, <3>1 DEF Session
    <3> QED
      BY <1>2, <1>3, <3>1, <3>2, <3>3, SessionStill
  <2> QED
    BY <1>3, <1>11, <2>1, <2>2, <2>3 DEF SessionInv
\* The store is left alone.
<1>12. ASSUME NEW r \in Replies, back' = Append(back, r), UNCHANGED storeVars,
              r.type # "pending", m.name \in {"GET", "RPUSH", "LTRIM"},
              m.name = "GET" /\ r.type = "string" => Vouched(cur[c].tok, r.str)
       PROVE  SessionInv'
  <2>1. UNCHANGED <<holder, eternal>>
    BY <1>12 DEF storeVars
  <2>2. Tokens'
    BY <1>0, <1>1, <1>2, <2>1 DEF Tokens, TokensExpire, Vouched, Making
  <2>3. at[c] \in Waits /\ (at[c] = "getWait" => m.name = "GET") /\ at[c] # "expireWait" /\ reply[c] = Pending
    BY <1>8, <1>12 DEF Asks, Waits
  <2>4. Told(c, r)
    BY <1>12, <2>3 DEF Told, Answers
  <2>5. Told(c, r)'
    <3>1. Calm(c)
      BY <1>1, <1>2 DEF Calm
    <3> QED
      BY <1>1, <1>3, <2>1, <2>4, <3>1, ToldStill
  <2> QED
    BY <1>4, <1>11, <1>12, <2>1, <2>2, <2>5
<1>13. CASE m.name = "GET"
  <2>1. /\ UNCHANGED storeVars
        /\ back' = Append(back, IF m.tok \in Token /\ holder[m.tok] # NoUser
                                THEN Reply("string", holder[m.tok]) ELSE Reply("nil", NoUser))
    BY <1>6, <1>13 DEF Execute
  <2>2. m.tok = cur[c].tok /\ at[c] = "getWait"
    BY <1>8, <1>13 DEF Asks
  <2>3. CASE m.tok \in Token /\ holder[m.tok] # NoUser
    <3> DEFINE r == Reply("string", holder[m.tok])
    <3>1. r \in Replies /\ r.type = "string" /\ r.str = holder[m.tok]
      BY <1>4, <2>3 DEF Reply, Replies
    <3>2. Vouched(cur[c].tok, holder[m.tok])
      BY <2>2, <2>3, ShownIsOwned
    <3>3. back' = Append(back, r)
      BY <2>1, <2>3
    <3> HIDE DEF r
    <3>4. Vouched(cur[c].tok, r.str) /\ r.type # "pending"
      BY <3>1, <3>2
    <3> QED
      BY <1>12, <1>13, <2>1, <3>1, <3>3, <3>4
  <2>4. CASE ~ (m.tok \in Token /\ holder[m.tok] # NoUser)
    <3> DEFINE r == Reply("nil", NoUser)
    <3>1. r \in Replies /\ r.type = "nil"
      BY DEF Reply, Replies
    <3>2. back' = Append(back, r)
      BY <2>1, <2>4
    <3> HIDE DEF r
    <3>3. r.type # "pending" /\ r.type # "string"
      BY <3>1
    <3> QED
      BY <1>12, <1>13, <2>1, <3>1, <3>2, <3>3
  <2> QED
    BY <2>3, <2>4
<1> DEFINE ok == Reply("ok", NoUser)
<1>14. ok \in Replies /\ ok.type = "ok" /\ ok.type # "pending" /\ ok.type # "string"
  BY DEF Reply, Replies
<1>15. m.name # "GET" => back' = Append(back, ok)
  BY <1>6 DEF Execute
<1> HIDE DEF ok
<1>16. CASE m.name \in {"RPUSH", "LTRIM"}
  <2>1. UNCHANGED storeVars
    BY <1>6, <1>16 DEF Execute
  <2>2. m.name # "GET"
    BY <1>16
  <2> QED
    BY <1>12, <1>14, <1>15, <1>16, <2>1, <2>2
<1>17. CASE m.name = "SET"
  <2>1. holder' = [holder EXCEPT ![m.tok] = m.user] /\ eternal' = eternal \cup {m.tok}
    BY <1>6, <1>17 DEF Execute
  <2>2. at[c] = "setWait" /\ m.tok = tok[c] /\ m.user = cur[c].user /\ reply[c] = Pending /\ Making(c)
    BY <1>8, <1>17 DEF Asks, Making
  <2>3. tok[c] \in Token /\ given[tok[c]].user = NoUser
    BY <1>10, <2>2 DEF Session
  <2>4. cur[c].user \in User
    BY <1>10, <2>2, LoggingIn
  <2>5. holder' \in [Token -> User \cup {NoUser}] /\ eternal' \subseteq Token
        /\ holder'[tok[c]] = cur[c].user /\ \A t \in Token \ {tok[c]} : holder'[t] = holder[t]
    BY <1>4, <2>1, <2>2, <2>3, <2>4
  <2>6. \A d \in Conn \ {c} : tok[d] \in eternal' => tok[d] \in eternal
    BY <1>9, <2>1, <2>2, <2>3
  <2>7. Told(c, ok)'
    BY <1>1, <1>2, <1>14, <2>2 DEF Told, Answers, Waits
  <2>8. Tokens'
    <3>1. \A t \in fresh : holder'[t] = NoUser /\ given'[t].user = NoUser /\ t \notin eternal'
      <4>1. tok[c] \notin fresh /\ fresh \subseteq Token
        BY <1>0 DEF Tokens, StreamInv, Typed
      <4> QED
        BY <1>0, <1>2, <2>1, <2>2, <2>5, <4>1 DEF Tokens
    <3>2. \A t \in Token : holder'[t] # NoUser =>
            \/ Vouched(t, holder[t])'
            \/ \E d \in Conn : Making(d)' /\ tok'[d] = t /\ cur'[d].user = holder'[t]
      <4> TAKE t \in Token
      <4>1. CASE t = tok[c]
        BY <1>2, <2>2, <2>5, <4>1 DEF Making
      <4>2. CASE t # tok[c]
        BY <1>0, <1>2, <2>5, <4>2 DEF Tokens, Vouched, Making
      <4> QED
        BY <4>1, <4>2
    <3>3. TokensExpire'
      BY <1>0, <1>1, <1>2, <2>1, <2>2 DEF Tokens, TokensExpire
    <3> QED
      BY <1>0, <1>2, <3>1, <3>2, <3>3 DEF Tokens
  <2> QED
    BY <1>11, <1>14, <1>15, <1>17, <2>5, <2>6, <2>7, <2>8
<1>18. CASE m.name = "EXPIRE"
  <2>1. holder' = holder /\ eternal' = eternal \ {m.tok}
    BY <1>6, <1>18 DEF Execute
  <2>2. at[c] = "expireWait" /\ m.tok = tok[c] /\ reply[c] = Pending
    BY <1>8, <1>18 DEF Asks
  <2>3. Told(c, ok)'
    BY <1>1, <1>2, <1>14, <2>1, <2>2 DEF Told, Answers, Waits
  <2>4. Tokens'
    BY <1>0, <1>1, <1>2, <2>1 DEF Tokens, TokensExpire, Vouched, Making
  <2> QED
    BY <1>4, <1>11, <1>14, <1>15, <1>18, <2>1, <2>3, <2>4
<1>19. m.name \in {"GET", "SET", "EXPIRE", "RPUSH", "LTRIM"}
  BY <1>6 DEF Command
<1> QED
  BY <1>13, <1>16, <1>17, <1>18, <1>19

LEMMA RedisSession ==
  ASSUME StreamInv, SessionInv, Redis, UNCHANGED <<accountVars, streamVars>>
  PROVE  SessionInv'
BY HandleWriteSession, ExecuteSession, HandleReadSession, LoseSession, ExpireSession DEF Redis, RedisStep

-----------------------------------------------------------------------------
(* Steps of a coroutine: what they leave to the others. *)

Alike(d) ==
  /\ at'[d] = at[d] /\ cur'[d] = cur[d] /\ tok'[d] = tok[d]
  /\ reply'[d] = reply[d] /\ answer'[d] = answer[d] /\ asked'[d] = asked[d]

LEMMA OthersSession ==
  ASSUME SessionInv, NEW c \in Conn, \A d \in Conn \ {c} : Alike(d),
         Steadfast, known \subseteq known', UNCHANGED <<link, eternal>>,
         \A d \in Conn \ {c} : Making(d) =>
           given'[tok[d]].user = NoUser /\ users'[cur[d].user] = users[cur[d].user]
  PROVE  \A d \in Conn \ {c} : Session(d)'
<1> TAKE d \in Conn \ {c}
<1>1. Session(d)
  BY DEF SessionInv
<1>2. \A r : reply'[d] = r /\ r # Pending => Answers(d, r)'
  <2> TAKE r
  <2> HAVE reply'[d] = r /\ r # Pending
  <2>1. Answers(d, r)
    BY <1>1 DEF Session, Alike
  <2> QED
    BY <2>1, AnswersStill DEF Alike
<1> QED
  BY <1>1, <1>2, SessionStill DEF Alike

LEMMA TokensStill ==
  ASSUME Tokens, UNCHANGED <<link, holder, eternal, fresh, tok, given, known>>,
         \A d \in Conn : Making(d)' <=> Making(d),
         \A d \in Conn : Making(d) => cur'[d] = cur[d]
  PROVE  Tokens'
<1>1. \A t \in Token : holder'[t] # NoUser =>
        \/ Vouched(t, holder[t])'
        \/ \E c \in Conn : Making(c)' /\ tok'[c] = t /\ cur'[c].user = holder'[t]
  BY DEF Tokens, Vouched
<1>2. TokensExpire'
  BY DEF Tokens, TokensExpire, Making
<1> QED
  BY <1>1, <1>2 DEF Tokens

\* The connection c goes where nobody is served.
LEMMA PlainSession ==
  ASSUME StreamInv, SessionInv, NEW c \in Conn, NEW p \in Places \ (Working \cup Acting), Go(c, p),
         UNCHANGED <<redisVars, tok, users, fresh, given, created, answer, asked>>,
         cur'[c] = NoItem, \A d \in Conn \ {c} : cur'[d] = cur[d],
         reply[c] = Pending => at[c] \notin Waits, ~ Making(c),
         known \subseteq known', \A t \in known' : t \in Token /\ given[t].user \in User
  PROVE  SessionInv'
<1>0. RedisTypeOK /\ Piped /\ Tokens /\ Names /\ Session(c) /\ Typed
  BY DEF SessionInv, StreamInv
<1>1. UNCHANGED <<link, out, net, back, waiters, reading, writing, watched, reply, holder, eternal>>
  BY DEF redisVars, linkVars, storeVars
<1>2. at'[c] = p /\ \A d \in Conn \ {c} : at'[d] = at[d]
  BY <1>0, Went DEF Typed
<1>3. /\ p \notin Working \cup Acting /\ p \notin Waits /\ p # "respond" /\ p # "handshake" /\ p # "insert"
      /\ p # "select" /\ p # "getWait" /\ p # "setWait" /\ p # "expireWait"
  BY DEF Working, Acting, Waits
<1>4. RedisTypeOK'
  BY <1>0, <1>1 DEF RedisTypeOK
<1>5. Names' /\ Steadfast
  BY <1>0, NamesStill
<1>6. \A d \in Conn : Calm(d)
  BY <1>1, <1>2 DEF Calm
<1>7. Piped'
  BY <1>0, <1>1, <1>5, <1>6, PipedStill
<1>8. \A d \in Conn : Making(d)' <=> Making(d)
  BY <1>2, <1>3 DEF Making
<1>9. Tokens'
  <2>1. \A t \in Token : holder'[t] # NoUser =>
          \/ Vouched(t, holder[t])'
          \/ \E d \in Conn : Making(d)' /\ tok'[d] = t /\ cur'[d].user = holder'[t]
    BY <1>0, <1>1, <1>8 DEF Tokens, Vouched
  <2>2. TokensExpire'
    BY <1>0, <1>1, <1>8 DEF Tokens, TokensExpire, Making
  <2>3. \A t \in known' : given'[t].user \in User
    OBVIOUS
  <2> QED
    BY <1>0, <1>1, <2>1, <2>2, <2>3 DEF Tokens
<1>10. \A d \in Conn \ {c} : Session(d)'
  <2>1. \A d \in Conn \ {c} : Alike(d)
    BY <1>1, <1>2 DEF Alike
  <2>2. \A d \in Conn \ {c} : Making(d) =>
          given'[tok[d]].user = NoUser /\ users'[cur[d].user] = users[cur[d].user]
    BY DEF SessionInv, Session
  <2> QED
    BY <1>1, <1>5, <2>1, <2>2, OthersSession
<1>11. Session(c)'
  <2>1. Answers(c, reply[c])'
    BY <1>2, <1>3 DEF Answers
  <2>2. \A i \in 1 .. Len(asked'[c]) :
          asked'[c][i].kind \in {"check", "upgrade"} => asked'[c][i].tok \in known' \cup {NoToken}
    BY <1>0 DEF Session
  <2> QED
    BY <1>2, <1>3, <1>8, <2>1, <2>2 DEF Session
<1> QED
  BY <1>4, <1>5, <1>7, <1>9, <1>10, <1>11 DEF SessionInv

LEMMA StillSession ==
  ASSUME StreamInv, SessionInv, UNCHANGED <<redisVars, accountVars>>, UNCHANGED <<asked, known>>
  PROVE  SessionInv'
<1>0. RedisTypeOK /\ Piped /\ Tokens /\ Names
  BY DEF SessionInv
<1>1. UNCHANGED <<link, out, net, back, waiters, reading, writing, watched, reply, holder, eternal>>
  BY DEF redisVars, linkVars, storeVars
<1>2. UNCHANGED <<at, cur, tok, users, fresh, given, created, answer>>
  BY DEF accountVars
<1>3. RedisTypeOK'
  BY <1>0, <1>1 DEF RedisTypeOK
<1>4. Names' /\ Steadfast
  BY <1>0, <1>2, NamesStill
<1>5. Piped'
  <2>1. \A d \in Conn : Calm(d)
    BY <1>1, <1>2 DEF Calm
  <2> QED
    BY <1>0, <1>1, <1>4, <2>1, PipedStill
<1>6. Tokens'
  <2>1. \A d \in Conn : Making(d)' <=> Making(d)
    BY <1>2 DEF Making
  <2> QED
    BY <1>0, <1>1, <1>2, <2>1, TokensStill
<1>7. \A d \in Conn : Session(d)'
  <2> TAKE d \in Conn
  <2>2. Session(d)
    BY DEF SessionInv
  <2>3. \A r : reply'[d] = r /\ r # Pending => Answers(d, r)'
    <3> TAKE r
    <3> HAVE reply'[d] = r /\ r # Pending
    <3>1. Answers(d, r)
      BY <1>1, <2>2 DEF Session
    <3> QED
      BY <1>1, <1>2, <1>4, <3>1, AnswersStill
  <2>4. Making(d) => given'[tok[d]].user = NoUser /\ users'[cur[d].user] = users[cur[d].user]
    BY <1>2, <2>2 DEF Session
  <2> QED
    BY <1>2, <1>4, <2>2, <2>3, <2>4, SessionStill
<1> QED
  BY <1>3, <1>4, <1>5, <1>6, <1>7 DEF SessionInv

LEMMA AskSession ==
  ASSUME StreamInv, SessionInv, NEW c \in Conn, Ask(c)
  PROVE  SessionInv'
<1> DEFINE i == Len(asked[c]) + 1
           x == script[c][i]
<1>0. RedisTypeOK /\ Piped /\ Tokens /\ Names /\ Session(c) /\ Typed
  BY DEF SessionInv, StreamInv
<1>1. UNCHANGED <<redisVars, accountVars, known>>
  BY DEF Ask
<1>2. UNCHANGED <<link, out, net, back, waiters, reading, writing, watched, reply, holder, eternal>>
  BY <1>1 DEF redisVars, linkVars, storeVars
<1>3. UNCHANGED <<at, cur, tok, users, fresh, given, created, answer>>
  BY <1>1 DEF accountVars
<1>4. PICK t \in known \cup {NoToken} : asked' = [asked EXCEPT ![c] = Append(@, [x EXCEPT !.tok = t])]
  BY DEF Ask
<1>5. asked[c] \in Seq(Item) /\ Len(asked[c]) \in Nat /\ script[c] \in Seq(Item) /\ known \subseteq Token \cup {NoToken}
  BY <1>0 DEF Typed, Sendable
<1>6. x \in Item
  <2>1. Len(asked[c]) < Len(script[c]) /\ Len(script[c]) \in Nat
    BY <1>5 DEF Ask
  <2>2. i \in 1 .. Len(script[c])
    BY <1>5, <2>1
  <2> QED
    BY <1>5, <2>2
<1> DEFINE y == [x EXCEPT !.tok = t]
<1>7. y \in Item /\ y.tok = t
  <2> HIDE DEF x
  <2>1. t \in Token \cup {NoToken}
    BY <1>5
  <2>2. y \in Item
    BY <1>6, <2>1, PartsOf
  <2>3. y.tok = t
    BY <1>6 DEF Item
  <2> QED
    BY <2>2, <2>3
<1> HIDE DEF y
<1>8. asked'[c] = Append(asked[c], y) /\ \A d \in Conn \ {c} : asked'[d] = asked[d]
  BY <1>0, <1>4 DEF Typed, y
<1>9. /\ Len(asked'[c]) = i /\ asked'[c][i] = y
      /\ \A k \in 1 .. Len(asked[c]) : asked'[c][k] = asked[c][k]
  BY <1>5, <1>7, <1>8, AppendProperties
<1>10. RedisTypeOK'
  BY <1>0, <1>2 DEF RedisTypeOK
<1>11. Names' /\ Steadfast
  BY <1>0, <1>3, NamesStill
<1>12. Piped'
  <2>1. \A d \in Conn : Calm(d)
    BY <1>2, <1>3 DEF Calm
  <2> QED
    BY <1>0, <1>2, <1>11, <2>1, PipedStill
<1>13. Tokens'
  <2>1. \A d \in Conn : Making(d)' <=> Making(d)
    BY <1>3 DEF Making
  <2> QED
    BY <1>0, <1>1, <1>2, <1>3, <2>1, TokensStill
<1>14. \A d \in Conn \ {c} : Session(d)'
  <2>1. \A d \in Conn \ {c} : Alike(d)
    BY <1>2, <1>3, <1>8 DEF Alike
  <2>2. \A d \in Conn \ {c} : Making(d) =>
          given'[tok[d]].user = NoUser /\ users'[cur[d].user] = users[cur[d].user]
    BY <1>3 DEF SessionInv, Session
  <2> QED
    BY <1>1, <1>2, <1>11, <2>1, <2>2, OthersSession
<1>15. Session(c)'
  <2>1. \A k \in 1 .. Len(asked'[c]) :
          asked'[c][k].kind \in {"check", "upgrade"} => asked'[c][k].tok \in known' \cup {NoToken}
    <3> TAKE k \in 1 .. Len(asked'[c])
    <3>1. CASE k = i
      <4>1. asked'[c][k].tok = t
        BY <1>7, <1>9, <3>1
      <4> QED
        BY <1>1, <4>1
    <3>2. CASE k \in 1 .. Len(asked[c])
      BY <1>0, <1>1, <1>9, <3>2 DEF Session
    <3> QED
      BY <1>5, <1>9, <3>1, <3>2
  <2> QED
    BY <1>0, <1>2, <1>3, <2>1 DEF Session, Answers, Vouched, Making
<1> QED
  BY <1>10, <1>11, <1>12, <1>13, <1>14, <1>15 DEF SessionInv

-----------------------------------------------------------------------------
(* Steps that serve nobody. *)

LEMMA Idle ==
  ASSUME StreamInv, SessionInv, NEW c \in Conn, at[c] \notin Working \cup Acting
  PROVE  cur[c] = NoItem /\ at[c] \notin Waits /\ ~ Making(c) /\ at[c] \in Places \ (Working \cup Acting)
<1>1. Session(c) /\ at[c] \in Places
  BY DEF SessionInv, StreamInv, Typed
<1>2. cur[c] = NoItem
  BY <1>1 DEF Session
<1>3. at[c] \notin Waits /\ ~ Making(c)
  BY DEF Waits, Making, Working, Acting
<1> QED
  BY <1>1, <1>2, <1>3

LEMMA KnownIsGiven ==
  ASSUME SessionInv
  PROVE  \A t \in known : t \in Token /\ given[t].user \in User
BY DEF SessionInv, Tokens

\* From one such place to another, or staying there.
LEMMA IdleSession ==
  ASSUME StreamInv, SessionInv, NEW c \in Conn, at[c] \notin Working \cup Acting,
         at' = at \/ \E p \in Places \ (Working \cup Acting) : Go(c, p),
         UNCHANGED <<redisVars, cur, tok, users, fresh, given, created, answer, asked, known>>
  PROVE  SessionInv'
<1>1. cur[c] = NoItem /\ at[c] \notin Waits /\ ~ Making(c) /\ at[c] \in Places \ (Working \cup Acting)
  BY Idle
<1>2. at' = at => Go(c, at[c])
  BY DEF StreamInv, Typed, Go
<1>3. PICK p \in Places \ (Working \cup Acting) : Go(c, p)
  BY <1>1, <1>2
<1> QED
  BY <1>1, <1>3, PlainSession, KnownIsGiven

LEMMA PlainSteps ==
  ASSUME StreamInv, SessionInv, NEW c \in Conn,
         ReadRequest(c) \/ BadRequest(c) \/ ReadFieldEnd(c) \/ ReadGarbled(c) \/ Close(c)
  PROVE  SessionInv'
<1>1. "cleanup" \in Places \ (Working \cup Acting) /\ "closed" \in Places \ (Working \cup Acting)
  BY DEF Places, Over, Working, Acting
<1>2. \A q \in {"read", "garbled", "cleanup"} \cup Fields : q \notin Working \cup Acting
  BY DEF Fields, Working, Acting
<1>3. at[c] \in {"read", "garbled", "cleanup"} \cup Fields
  BY DEF ReadRequest, BadRequest, ReadFieldEnd, ReadGarbled, Close
<1>4. at[c] \notin Working \cup Acting
  BY <1>2, <1>3
<1>5. UNCHANGED <<redisVars, cur, tok, users, fresh, given, created, answer, asked, known>>
  BY DEF ReadRequest, BadRequest, ReadFieldEnd, ReadGarbled, Close, streamVars
<1>6. at' = at \/ Go(c, "cleanup") \/ Go(c, "closed")
  BY DEF ReadRequest, BadRequest, ReadFieldEnd, ReadGarbled, Close
<1>7. at' = at \/ \E p \in Places \ (Working \cup Acting) : Go(c, p)
  BY <1>1, <1>6
<1> QED
  BY <1>4, <1>5, <1>7, IdleSession

LEMMA ReadFieldSession ==
  ASSUME StreamInv, SessionInv, NEW c \in Conn, ReadField(c)
  PROVE  SessionInv'
<1>0. UNCHANGED <<redisVars, cur, tok, users, fresh, given, created, answer, asked, known>> /\ at[c] \in Fields
  BY DEF ReadField
<1>1. at[c] \notin Working \cup Acting
  BY <1>0 DEF Fields, Working, Acting
<1>2. {"ext", "mask", "payload", "act", "garbled"} \subseteq Places \ (Working \cup Acting)
  BY DEF Places, Fields, Working, Acting, Over
<1>3. PICK n \in 1 .. Min({Missing(c), Len(wire[c])}) :
        /\ Receive(c, n)
        /\ \/ Go(c, NextField(c))
           \/ UNCHANGED at
           \/ Go(c, "garbled")
  BY DEF ReadField
<1>4. NextField(c) \in {"ext", "mask", "payload", "act"}
  <2>1. FrameOf(c).long \in BOOLEAN /\ FrameOf(c).size \in Nat
    BY <1>0, <1>3, FieldRead
  <2>2. CASE at[c] = "header"
    BY <2>1, <2>2 DEF NextField
  <2>3. CASE at[c] = "ext"
    BY <2>3 DEF NextField
  <2>4. CASE at[c] = "mask"
    BY <2>1, <2>4 DEF NextField
  <2>5. CASE at[c] = "payload"
    BY <2>5 DEF NextField
  <2> QED
    BY <1>0, <2>2, <2>3, <2>4, <2>5 DEF Fields
<1>5. at' = at \/ \E p \in Places \ (Working \cup Acting) : Go(c, p)
  BY <1>2, <1>3, <1>4
<1> QED
  BY <1>0, <1>1, <1>5, IdleSession

LEMMA HangUpSession ==
  ASSUME StreamInv, SessionInv, NEW c \in Conn, HangUp(c)
  PROVE  SessionInv'
<1>1. UNCHANGED <<redisVars, accountVars>> /\ UNCHANGED <<asked, known>>
  BY DEF HangUp
<1> QED
  BY <1>1, StillSession

\* A response is written: a login makes its token known.
LEMMA WriteResponseSession ==
  ASSUME StreamInv, SessionInv, NEW c \in Conn, WriteResponse(c)
  PROVE  SessionInv'
<1>0. Session(c) /\ Tokens /\ Typed /\ at[c] = "respond" /\ Names
  BY DEF SessionInv, StreamInv, WriteResponse
<1>1. /\ UNCHANGED <<redisVars, tok, users, fresh, given, created, answer, asked>>
      /\ cur' = [cur EXCEPT ![c] = NoItem]
      /\ Go(c, "read") \/ Go(c, "cleanup")
      /\ \/ known' = known
         \/ cur[c].kind = "login" /\ answer[c].status = 200 /\ known' = known \cup {tok[c]}
  BY DEF WriteResponse
<1>2. {"read", "cleanup"} \subseteq Places \ (Working \cup Acting)
  BY DEF Places, Working, Acting, Over
<1>3. PICK p \in Places \ (Working \cup Acting) : Go(c, p)
  BY <1>1, <1>2
<1>4. cur'[c] = NoItem /\ \A d \in Conn \ {c} : cur'[d] = cur[d]
  BY <1>0, <1>1 DEF Typed
<1>5. at[c] \notin Waits /\ ~ Making(c)
  BY <1>0 DEF Waits, Making
<1>6. known \subseteq known' /\ \A t \in known' : t \in Token /\ given[t].user \in User
  <2>1. cur[c].kind = "login" /\ answer[c].status = 200 => tok[c] \in Token /\ given[tok[c]].user \in User
    BY <1>0 DEF Session, Vouched
  <2> QED
    BY <1>1, <2>1, KnownIsGiven
<1> QED
  BY <1>1, <1>3, <1>4, <1>5, <1>6, PlainSession

LEMMA HandshakeSession ==
  ASSUME StreamInv, SessionInv, NEW c \in Conn, Handshake(c)
  PROVE  SessionInv'
<1>0. Typed /\ at[c] = "handshake"
  BY DEF StreamInv, Handshake
<1>1. /\ UNCHANGED <<redisVars, tok, users, fresh, given, created, answer, asked, known>>
      /\ cur' = [cur EXCEPT ![c] = NoItem]
      /\ Go(c, "header") \/ Go(c, "cleanup")
  BY DEF Handshake
<1>2. {"header", "cleanup"} \subseteq Places \ (Working \cup Acting)
  BY DEF Places, Fields, Working, Acting, Over
<1>3. PICK p \in Places \ (Working \cup Acting) : Go(c, p)
  BY <1>1, <1>2
<1>4. cur'[c] = NoItem /\ \A d \in Conn \ {c} : cur'[d] = cur[d]
  BY <1>0, <1>1 DEF Typed
<1>5. at[c] \notin Waits /\ ~ Making(c)
  BY <1>0 DEF Waits, Making
<1> QED
  BY <1>1, <1>3, <1>4, <1>5, KnownIsGiven, PlainSession

LEMMA FrameDoneSession ==
  ASSUME StreamInv, SessionInv, NEW c \in Conn, FrameDone(c)
  PROVE  SessionInv'
<1>0. Typed
  BY DEF StreamInv
<1>1. /\ UNCHANGED <<redisVars, tok, users, fresh, given, created, answer, asked, known>>
      /\ cur' = [cur EXCEPT ![c] = NoItem]
      /\ Go(c, "header") \/ Go(c, "cleanup")
  BY DEF FrameDone
<1>2. {"header", "cleanup"} \subseteq Places \ (Working \cup Acting)
  BY DEF Places, Fields, Working, Acting, Over
<1>3. PICK p \in Places \ (Working \cup Acting) : Go(c, p)
  BY <1>1, <1>2
<1>4. cur'[c] = NoItem /\ \A d \in Conn \ {c} : cur'[d] = cur[d]
  BY <1>0, <1>1 DEF Typed
<1>5. (reply[c] = Pending => at[c] \notin Waits) /\ ~ Making(c)
  BY DEF FrameDone, Waits, Making
<1> QED
  BY <1>1, <1>3, <1>4, <1>5, KnownIsGiven, PlainSession

-----------------------------------------------------------------------------
(* Steps that start to serve an item, or go on without Redis. *)

\* c goes to p to work on the item x; it submits nothing.
LEMMA ServeSession ==
  ASSUME StreamInv, SessionInv, NEW c \in Conn, NEW p, Go(c, p),
         p \in {"insert", "select", "respond", "handshake", "pong", "acted"},
         NEW x, cur'[c] = x, \A d \in Conn \ {c} : cur'[d] = cur[d],
         NEW a, answer'[c] = a, \A d \in Conn \ {c} : answer'[d] = answer[d],
         UNCHANGED <<redisVars, tok, users, fresh, given, created, asked, known>>,
         reply[c] = Pending => at[c] \notin Waits, ~ Making(c),
         p = "insert" => x.kind = "register" /\ a.status = 0,
         p = "select" => x.kind = "login" /\ a.status = 0,
         p \in {"pong", "acted"} => x.kind \in Frames,
         p \in {"respond", "handshake"} /\ a.status \in {101, 200} =>
           /\ x.kind # "login"
           /\ x.kind \in {"check", "upgrade"} => Vouched(x.tok, a.user)
  PROVE  SessionInv'
<1>0. RedisTypeOK /\ Piped /\ Tokens /\ Names /\ Session(c) /\ Typed
  BY DEF SessionInv, StreamInv
<1>1. UNCHANGED <<link, out, net, back, waiters, reading, writing, watched, reply, holder, eternal>>
  BY DEF redisVars, linkVars, storeVars
<1>2. at'[c] = p /\ \A d \in Conn \ {c} : at'[d] = at[d]
  <2>1. p \in Places
    BY DEF Places, Working, Acting
  <2> QED
    BY <1>0, <2>1, Went DEF Typed
<1>3. /\ p \notin Waits /\ p # "getWait" /\ p # "setWait" /\ p # "expireWait"
      /\ p \in Acting <=> p \in {"pong", "acted"}
      /\ p \in Working \cup Acting
  BY DEF Working, Acting, Waits
<1>4. RedisTypeOK'
  BY <1>0, <1>1 DEF RedisTypeOK
<1>5. Names' /\ Steadfast
  BY <1>0, NamesStill
<1>6. Piped'
  <2>1. \A d \in Conn : Calm(d)
    BY <1>1, <1>2 DEF Calm
  <2> QED
    BY <1>0, <1>1, <1>5, <2>1, PipedStill
<1>7. \A d \in Conn : Making(d)' <=> Making(d)
  BY <1>2, <1>3 DEF Making
<1>8. Tokens'
  BY <1>0, <1>1, <1>7, TokensStill
<1>9. \A d \in Conn \ {c} : Session(d)'
  <2>1. \A d \in Conn \ {c} : Alike(d)
    BY <1>1, <1>2 DEF Alike
  <2>2. \A d \in Conn \ {c} : Making(d) =>
          given'[tok[d]].user = NoUser /\ users'[cur[d].user] = users[cur[d].user]
    BY DEF SessionInv, Session
  <2> QED
    BY <1>1, <1>5, <2>1, <2>2, OthersSession
<1>10. Session(c)'
  <2>1. Answers(c, reply[c])'
    BY <1>2, <1>3 DEF Answers
  <2>2. \A i \in 1 .. Len(asked'[c]) :
          asked'[c][i].kind \in {"check", "upgrade"} => asked'[c][i].tok \in known' \cup {NoToken}
    BY <1>0 DEF Session
  <2>3. p \in Working \ {"respond", "handshake"} => a.status = 0
    BY DEF Working
  <2>4. p \in {"respond", "handshake"} /\ a.status \in {101, 200} /\ x.kind \in {"check", "upgrade"} => Vouched(cur[c].tok, answer[c].user)'
    BY DEF Vouched
  <2>5. p = "respond" /\ x.kind = "login" => a.status # 200
    OBVIOUS
  <2>6. p \in Acting => x.kind \in Frames
    BY <1>3
  <2>7. ~ Making(c)'
    BY <1>2, <1>3 DEF Making
  <2> QED
    BY <1>2, <1>3, <2>1, <2>2, <2>3, <2>4, <2>5, <2>6, <2>7 DEF Session
<1> QED
  BY <1>4, <1>5, <1>6, <1>8, <1>9, <1>10 DEF SessionInv

-----------------------------------------------------------------------------
(* Steps that ask Redis. *)

\* c goes to p to wait for GET, RPUSH or LTRIM.
LEMMA CommandSession ==
  ASSUME StreamInv, SessionInv, NEW c \in Conn, NEW p, Go(c, p),
         NEW n, NEW t \in Token \cup {NoToken}, Submit(c, n, t, NoUser),
         <<p, n>> \in {<<"getWait", "GET">>, <<"rpushWait", "RPUSH">>, <<"ltrimWait", "LTRIM">>},
         NEW x, cur'[c] = x, \A d \in Conn \ {c} : cur'[d] = cur[d],
         NEW a, answer'[c] = a, \A d \in Conn \ {c} : answer'[d] = answer[d],
         UNCHANGED <<tok, users, fresh, given, created, asked, known>>,
         reply[c] = Pending => at[c] \notin Waits, ~ Making(c),
         p = "getWait" => x.kind \in {"check", "upgrade"} /\ t = x.tok /\ a.status = 0,
         p # "getWait" => x.kind \in Frames
  PROVE  SessionInv'
<1>0. RedisTypeOK /\ Piped /\ Tokens /\ Names /\ Session(c) /\ Typed
  BY DEF SessionInv, StreamInv
<1> DEFINE m == [name |-> n, tok |-> t, user |-> NoUser]
<1>1. /\ p \in Waits /\ p \notin {"setWait", "expireWait", "insert", "select", "respond", "handshake"}
      /\ p \in Places /\ p \in Working \cup Acting /\ n \in {"GET", "RPUSH", "LTRIM"}
      /\ p = "getWait" => n = "GET"
      /\ p = "rpushWait" => n = "RPUSH"
      /\ p = "ltrimWait" => n = "LTRIM"
      /\ p = "getWait" \/ p = "rpushWait" \/ p = "ltrimWait"
      /\ p \in Acting <=> p # "getWait"
  BY DEF Waits, Places, Working, Acting
<1>2. at'[c] = p /\ \A d \in Conn \ {c} : at'[d] = at[d]
  BY <1>0, <1>1, Went DEF Typed
<1>3. m \in Command
  BY <1>1 DEF Command
<1>4. Names' /\ Steadfast
  BY <1>0, NamesStill
<1>5. /\ RedisTypeOK' /\ Piped' /\ UNCHANGED <<link, storeVars>>
      /\ reply'[c] # Pending => link = "lost" /\ reply'[c].type = "error"
      /\ \A d \in Conn \ {c} : reply'[d] = reply[d]
  <2>1. reply'[c] = Pending => Asks(c, m)'
    BY <1>1, <1>2 DEF Asks, Pending, Reply
  <2>2. \A d \in Conn \ {c} : at'[d] = at[d] /\ cur'[d] = cur[d] /\ tok'[d] = tok[d]
    BY <1>2
  <2> QED
    BY <1>0, <1>3, <1>4, <2>1, <2>2, Submitted
<1>6. UNCHANGED <<holder, eternal>>
  BY <1>5 DEF storeVars
<1>7. \A d \in Conn : Making(d)' <=> Making(d)
  BY <1>1, <1>2 DEF Making
<1>8. Tokens'
  BY <1>0, <1>5, <1>6, <1>7, TokensStill
<1>9. \A d \in Conn \ {c} : Session(d)'
  <2>1. \A d \in Conn \ {c} : Alike(d)
    BY <1>2, <1>5 DEF Alike
  <2>2. \A d \in Conn \ {c} : Making(d) =>
          given'[tok[d]].user = NoUser /\ users'[cur[d].user] = users[cur[d].user]
    BY DEF SessionInv, Session
  <2> QED
    BY <1>4, <1>5, <1>6, <2>1, <2>2, OthersSession
<1>10. Session(c)'
  <2>1. reply'[c] # Pending => Answers(c, reply[c])'
    BY <1>1, <1>2, <1>5 DEF Answers
  <2>2. \A i \in 1 .. Len(asked'[c]) :
          asked'[c][i].kind \in {"check", "upgrade"} => asked'[c][i].tok \in known' \cup {NoToken}
    BY <1>0 DEF Session
  <2>3. p \in Working \ {"respond", "handshake"} => a.status = 0
    BY <1>1 DEF Working
  <2>4. ~ Making(c)'
    BY <1>1, <1>2 DEF Making
  <2>5. Pending' = Pending
    BY DEF Pending, Reply
  <2> QED
    BY <1>1, <1>2, <2>1, <2>2, <2>3, <2>4, <2>5 DEF Session
<1> QED
  BY <1>4, <1>5, <1>8, <1>9, <1>10 DEF SessionInv

LEMMA TakeRequestSession ==
  ASSUME StreamInv, SessionInv, Shaped, NEW c \in Conn, TakeRequest(c)
  PROVE  SessionInv'
<1> DEFINE n == RequestLength(c, raw[c])
           x == asked[c][taken[c] + 1]
<1>0. Typed /\ at[c] = "read"
  BY DEF StreamInv, TakeRequest
<1>1. /\ taken[c] + 1 \in 1 .. Len(asked[c]) /\ raw[c][1].item = taken[c] + 1
      /\ x \in Item /\ Decode(c, taken[c] + 1, SubSeq(raw[c], 1, n)) = x
  BY RequestWhole DEF TakeRequest
<1>2. /\ cur' = [cur EXCEPT ![c] = x] /\ Dispatch(c, x)
      /\ UNCHANGED <<tok, users, fresh, given, created, asked, known>>
  BY <1>1 DEF TakeRequest
<1> HIDE DEF x
<1>3. cur'[c] = x /\ \A d \in Conn \ {c} : cur'[d] = cur[d]
  BY <1>0, <1>2 DEF Typed
<1>4. at[c] \notin Waits /\ ~ Making(c)
  BY <1>0 DEF Waits, Making
<1>5. NoAnswer.status = 0
  BY DEF NoAnswer
<1>6. CASE x.kind \in {"register", "login"}
  <2>1. PICK p \in {"insert", "select"} :
          /\ Go(c, p) /\ UNCHANGED redisVars /\ answer' = [answer EXCEPT ![c] = NoAnswer]
          /\ p = "insert" => x.kind = "register"
          /\ p = "select" => x.kind = "login"
    BY <1>2, <1>6 DEF Dispatch
  <2>2. answer'[c] = NoAnswer /\ \A d \in Conn \ {c} : answer'[d] = answer[d]
    BY <2>1 DEF Shaped
  <2>3. p \in {"insert", "select", "respond", "handshake", "pong", "acted"} /\ p \notin {"pong", "acted", "respond", "handshake"}
    OBVIOUS
  <2> QED
    BY <1>2, <1>3, <1>4, <1>5, <2>1, <2>2, <2>3, ServeSession
<1>7. CASE x.kind \in {"check", "upgrade"}
  <2>1. Go(c, "getWait") /\ Submit(c, "GET", x.tok, NoUser) /\ answer' = [answer EXCEPT ![c] = NoAnswer]
    BY <1>2, <1>7 DEF Dispatch
  <2>2. answer'[c] = NoAnswer /\ \A d \in Conn \ {c} : answer'[d] = answer[d]
    BY <2>1 DEF Shaped
  <2>3. x.tok \in Token \cup {NoToken}
    BY <1>1, <1>7 DEF Item
  <2> QED
    BY <1>2, <1>3, <1>4, <1>5, <1>7, <2>1, <2>2, <2>3, CommandSession
<1>8. CASE x.kind \notin {"register", "login", "check", "upgrade"}
  <2>1. PICK s \in {200, 404} : Respond(c, s, NoUser) /\ UNCHANGED redisVars
    BY <1>2, <1>8 DEF Dispatch
  <2> DEFINE a == [status |-> s, user |-> NoUser]
  <2>2. Go(c, "respond") /\ answer' = [answer EXCEPT ![c] = a]
    BY <2>1 DEF Respond
  <2>3. answer'[c] = a /\ \A d \in Conn \ {c} : answer'[d] = answer[d]
    BY <2>2 DEF Shaped
  <2>4. x.kind # "login" /\ x.kind \notin {"check", "upgrade"}
    BY <1>8
  <2> HIDE DEF a
  <2> QED
    BY <1>2, <1>3, <1>4, <2>1, <2>2, <2>3, <2>4, ServeSession
<1> QED
  BY <1>6, <1>7, <1>8

LEMMA ActSession ==
  ASSUME StreamInv, SessionInv, NEW c \in Conn, Act(c)
  PROVE  SessionInv'
<1> DEFINE x == asked[c][taken[c] + 1]
<1>0. Typed /\ at[c] = "act"
  BY DEF StreamInv, Act
<1>1. /\ taken[c] + 1 \in 1 .. Len(asked[c]) /\ raw[c][1].item = taken[c] + 1
      /\ x \in Item /\ x.kind \in Frames /\ Decode(c, taken[c] + 1, raw[c]) = x
  BY <1>0, FrameWhole
<1>2. UNCHANGED <<tok, users, fresh, given, created, answer, asked, known>>
  BY DEF Act
<1> HIDE DEF x
<1>3. \/ Go(c, "cleanup") /\ UNCHANGED <<redisVars, cur>>
      \/ /\ Go(c, "pong") \/ Go(c, "acted")
         /\ cur' = [cur EXCEPT ![c] = x] /\ UNCHANGED redisVars
      \/ /\ Go(c, "rpushWait") /\ Submit(c, "RPUSH", NoToken, NoUser)
         /\ cur' = [cur EXCEPT ![c] = x]
  BY <1>1 DEF Act
<1>4. at[c] \notin Waits /\ ~ Making(c) /\ at[c] \notin Working \cup Acting
  BY <1>0 DEF Waits, Making, Working, Acting
<1>5. CASE Go(c, "cleanup") /\ UNCHANGED <<redisVars, cur>>
  <2>1. "cleanup" \in Places \ (Working \cup Acting)
    BY DEF Places, Over, Working, Acting
  <2> QED
    BY <1>2, <1>4, <1>5, <2>1, IdleSession
<1>6. ASSUME NEW p \in {"pong", "acted"}, Go(c, p), cur' = [cur EXCEPT ![c] = x], UNCHANGED redisVars
      PROVE  SessionInv'
  <2>1. cur'[c] = x /\ \A d \in Conn \ {c} : cur'[d] = cur[d]
    BY <1>0, <1>6 DEF Typed
  <2>2. PICK a : answer'[c] = a /\ \A d \in Conn \ {c} : answer'[d] = answer[d]
    BY <1>2
  <2>3. p \in {"insert", "select", "respond", "handshake", "pong", "acted"} /\ p \notin {"insert", "select", "respond", "handshake"}
    OBVIOUS
  <2> QED
    BY <1>1, <1>2, <1>4, <1>6, <2>1, <2>2, <2>3, ServeSession
<1>7. CASE Go(c, "rpushWait") /\ Submit(c, "RPUSH", NoToken, NoUser) /\ cur' = [cur EXCEPT ![c] = x]
  <2>1. cur'[c] = x /\ \A d \in Conn \ {c} : cur'[d] = cur[d]
    BY <1>0, <1>7 DEF Typed
  <2>2. PICK a : answer'[c] = a /\ \A d \in Conn \ {c} : answer'[d] = answer[d]
    BY <1>2
  <2> QED
    BY <1>1, <1>2, <1>4, <1>7, <2>1, <2>2, CommandSession
<1> QED
  BY <1>3, <1>5, <1>6, <1>7

LEMMA PushedSession ==
  ASSUME StreamInv, SessionInv, NEW c \in Conn, Pushed(c)
  PROVE  SessionInv'
<1>1. /\ at[c] = "rpushWait" /\ reply[c] # Pending /\ Go(c, "ltrimWait") /\ Submit(c, "LTRIM", NoToken, NoUser)
      /\ UNCHANGED <<cur, tok, users, fresh, given, created, answer, asked, known>>
  BY DEF Pushed, streamVars
<1>2. PICK a, x : answer'[c] = a /\ cur'[c] = x /\ cur[c] = x
  BY <1>1
<1>3. x.kind \in Frames
  BY <1>1, <1>2 DEF SessionInv, Session, Acting
<1>4. ~ Making(c)
  BY <1>1 DEF Making
<1> QED
  BY <1>1, <1>2, <1>3, <1>4, CommandSession

-----------------------------------------------------------------------------
(* The routes. *)

LEMMA TokenCheckedSession ==
  ASSUME StreamInv, SessionInv, Shaped, NEW c \in Conn, TokenChecked(c), UNCHANGED streamVars
  PROVE  SessionInv'
<1>1. /\ at[c] = "getWait" /\ reply[c] # Pending
      /\ UNCHANGED <<redisVars, cur, tok, users, fresh, given, created, asked, known>>
  BY DEF TokenChecked, streamVars
<1>2. cur[c].kind \in {"check", "upgrade"} /\ (reply[c].type = "string" => Vouched(cur[c].tok, reply[c].str))
  BY <1>1 DEF SessionInv, Session, Answers
<1>3. ~ Making(c)
  BY <1>1 DEF Making
<1>4. \E p \in {"respond", "handshake"}, s \in {101, 200, 401}, u \in {NoUser, reply[c].str} :
        /\ Go(c, p) /\ answer' = [answer EXCEPT ![c] = [status |-> s, user |-> u]]
        /\ s \in {101, 200} => reply[c].type = "string" /\ u = reply[c].str
  BY DEF TokenChecked, Respond
<1>5. PICK p \in {"respond", "handshake"}, s \in {101, 200, 401}, u \in {NoUser, reply[c].str} :
        /\ Go(c, p) /\ answer' = [answer EXCEPT ![c] = [status |-> s, user |-> u]]
        /\ s \in {101, 200} => reply[c].type = "string" /\ u = reply[c].str
  BY <1>4
<1>6. PICK a : a = [status |-> s, user |-> u]
  OBVIOUS
<1>7. answer'[c] = a /\ \A d \in Conn \ {c} : answer'[d] = answer[d]
  BY <1>5, <1>6 DEF Shaped
<1>8. PICK x : cur'[c] = x /\ cur[c] = x
  BY <1>1
<1>9. a.status \in {101, 200} => x.kind # "login" /\ Vouched(x.tok, a.user)
  BY <1>2, <1>5, <1>6, <1>8
<1>10. p \in {"insert", "select", "respond", "handshake", "pong", "acted"}
       /\ p \notin {"insert", "select", "pong", "acted"}
  OBVIOUS
<1> QED
  BY <1>1, <1>3, <1>5, <1>7, <1>8, <1>9, <1>10, ServeSession

\* A refusal: no 200, and nothing is stored.
LEMMA RefusedSession ==
  ASSUME StreamInv, SessionInv, Shaped, NEW c \in Conn, at[c] \in {"insert", "select"},
         NEW s \in {401, 409, 500}, Respond(c, s, NoUser),
         UNCHANGED <<redisVars, cur, tok, users, fresh, given, created, asked, known>>
  PROVE  SessionInv'
<1>1. at[c] \notin Waits /\ ~ Making(c)
  BY DEF Waits, Making
<1> DEFINE a == [status |-> s, user |-> NoUser]
<1>2. a.status = s
  OBVIOUS
<1>3. Go(c, "respond") /\ answer'[c] = a /\ \A d \in Conn \ {c} : answer'[d] = answer[d]
  BY DEF Shaped, Respond
<1> HIDE DEF a
<1>4. PICK x : cur'[c] = x
  OBVIOUS
<1>5. a.status \notin {101, 200}
  BY <1>2
<1> QED
  BY <1>1, <1>3, <1>4, <1>5, ServeSession

LEMMA InsertSession ==
  ASSUME StreamInv, SessionInv, Shaped, NEW c \in Conn, Insert(c), UNCHANGED streamVars
  PROVE  SessionInv'
<1> DEFINE u == cur[c].user
           w == cur[c].password
<1>0. RedisTypeOK /\ Piped /\ Tokens /\ Names /\ Session(c) /\ Typed
  BY DEF SessionInv, StreamInv
<1>1. at[c] = "insert" /\ UNCHANGED <<redisVars, cur, tok, fresh, given, asked, known>>
  BY DEF Insert, streamVars
<1>2. CASE UNCHANGED <<users, created>> /\ \E s \in {401, 409, 500} : Respond(c, s, NoUser)
  BY <1>1, <1>2, RefusedSession
<1>3. CASE /\ users[u] = NoPassword
           /\ users' = [users EXCEPT ![u] = w] /\ created' = [created EXCEPT ![u] = created[u] + 1]
           /\ Respond(c, 200, u)
  <2>1. cur[c].kind = "register" /\ u \in User /\ w \in Password
    <3>1. cur[c].kind = "register" /\ at[c] \in Working \cup Acting
      BY <1>0, <1>1 DEF Session, Working
    <3> QED
      BY <3>1, AtWork DEF Posts
  <2>2. Go(c, "respond") /\ "respond" \in Places
    BY <1>3 DEF Respond, Places, Working
  <2>3. at'[c] = "respond" /\ \A d \in Conn \ {c} : at'[d] = at[d]
    BY <1>0, <2>2, Went DEF Typed
  <2> HIDE DEF u, w
  <2>4. UNCHANGED <<link, out, net, back, waiters, reading, writing, watched, reply, holder, eternal>>
    BY <1>1 DEF redisVars, linkVars, storeVars
  <2>5. RedisTypeOK'
    BY <1>0, <2>4 DEF RedisTypeOK
  <2>6. users[u] \notin Password
    BY <1>3, AccountAssumption
  <2>7. /\ users'[u] = w /\ \A v \in User \ {u} : users'[v] = users[v]
        /\ users' \in [User -> Password \cup {NoPassword}]
    BY <1>0, <1>3, <2>1 DEF Names
  <2>8. Names'
    <3>1. created[u] = 0
      BY <1>0, <2>1, <2>6 DEF Names
    <3>2. created' \in [User -> Nat] /\ \A v \in User : created'[v] <= 1 /\ (created'[v] = 1 => users'[v] \in Password)
      BY <1>0, <1>3, <2>1, <2>7, <3>1 DEF Names
    <3>3. \A t \in Token, v \in User :
            given'[t].user = v => given'[t].password = users'[v] /\ users'[v] \in Password
      <4> TAKE t \in Token, v \in User
      <4> HAVE given'[t].user = v
      <4>1. given[t].user = v /\ given[t].password = users[v] /\ users[v] \in Password
        BY <1>0, <1>1 DEF Names
      <4>2. v # u
        BY <2>6, <4>1
      <4> QED
        BY <1>1, <2>7, <4>1, <4>2
    <3> QED
      BY <1>0, <1>1, <2>7, <3>2, <3>3 DEF Names
  <2>9. Steadfast
    BY <1>1 DEF Steadfast, Vouched
  <2>10. Piped'
    <3>1. \A d \in Conn : Calm(d)
      BY <1>1, <2>3, <2>4 DEF Calm, Waits
    <3> QED
      BY <1>0, <2>4, <2>9, <3>1, PipedStill
  <2>11. Tokens'
    <3>1. \A d \in Conn : Making(d)' <=> Making(d)
      BY <1>1, <2>3 DEF Making
    <3> QED
      BY <1>0, <1>1, <2>4, <3>1, TokensStill
  <2>12. PICK a : a = [status |-> 200, user |-> u]
    OBVIOUS
  <2>13. answer'[c] = a /\ \A d \in Conn \ {c} : answer'[d] = answer[d]
    BY <1>3, <2>12 DEF Shaped, Respond
  <2>14. \A d \in Conn \ {c} : Session(d)'
    <3>1. \A d \in Conn \ {c} : Alike(d)
      BY <1>1, <2>3, <2>4, <2>13 DEF Alike
    <3>2. ASSUME NEW d \in Conn \ {c}, Making(d)
          PROVE  given'[tok[d]].user = NoUser /\ users'[cur[d].user] = users[cur[d].user]
      <4>1. Session(d)
        BY DEF SessionInv
      <4>2. given[tok[d]].user = NoUser /\ cur[d].password = users[cur[d].user]
        BY <3>2, <4>1 DEF Session
      <4>3. cur[d].user \in User /\ cur[d].password \in Password
        BY <3>2, <4>1, LoggingIn
      <4>4. cur[d].user # u
        BY <2>6, <4>2, <4>3
      <4> QED
        BY <1>1, <2>7, <4>2, <4>3, <4>4
    <3> QED
      BY <1>1, <2>4, <2>9, <3>1, <3>2, OthersSession
  <2>15. Session(c)'
    <3>1. /\ "respond" \in Working /\ "respond" \notin Acting /\ "respond" # "insert" /\ "respond" # "select"
          /\ "respond" # "getWait" /\ "respond" # "expireWait"
      BY DEF Working, Acting
    <3>2. Answers(c, reply[c])' /\ ~ Making(c)'
      BY <2>3 DEF Answers, Making
    <3>3. cur'[c].kind = "register"
      BY <1>1, <2>1
    <3>4. \A i \in 1 .. Len(asked'[c]) :
            asked'[c][i].kind \in {"check", "upgrade"} => asked'[c][i].tok \in known' \cup {NoToken}
      BY <1>0, <1>1 DEF Session
    <3> QED
      BY <2>3, <3>1, <3>2, <3>3, <3>4 DEF Session
  <2> QED
    BY <2>5, <2>8, <2>10, <2>11, <2>14, <2>15 DEF SessionInv
<1>4. \/ UNCHANGED <<users, created>> /\ \E s \in {401, 409, 500} : Respond(c, s, NoUser)
      \/ /\ users[u] = NoPassword
         /\ users' = [users EXCEPT ![u] = w] /\ created' = [created EXCEPT ![u] = created[u] + 1]
         /\ Respond(c, 200, u)
  BY DEF Insert
<1> QED
  BY <1>2, <1>3, <1>4

\* The token is made, and SET goes out.
LEMMA SelectSession ==
  ASSUME StreamInv, SessionInv, Shaped, NEW c \in Conn, Select(c), UNCHANGED streamVars
  PROVE  SessionInv'
<1> DEFINE u == cur[c].user
<1>0. RedisTypeOK /\ Piped /\ Tokens /\ Names /\ Session(c) /\ Typed
  BY DEF SessionInv, StreamInv
<1>1. at[c] = "select" /\ UNCHANGED <<cur, users, given, created, asked, known>>
  BY DEF Select, streamVars
<1>2. CASE Respond(c, 401, NoUser) /\ UNCHANGED <<redisVars, tok, fresh>>
  BY <1>1, <1>2, RefusedSession
<1>3. ASSUME NEW t \in fresh, users[u] = cur[c].password,
             fresh' = fresh \ {t}, tok' = [tok EXCEPT ![c] = t], Submit(c, "SET", t, u),
             Go(c, "setWait"), UNCHANGED answer
      PROVE  SessionInv'
  <2>1. cur[c].kind = "login" /\ u \in User /\ t \in Token
    BY <1>0, <1>1, LoggingIn DEF Typed
  <2>2. at'[c] = "setWait" /\ \A d \in Conn \ {c} : at'[d] = at[d]
    <3>1. "setWait" \in Places
      BY DEF Places, Working
    <3> QED
      BY <1>0, <1>3, <3>1, Went DEF Typed
  <2>3. tok'[c] = t /\ \A d \in Conn \ {c} : tok'[d] = tok[d]
    BY <1>0, <1>3 DEF Typed
  <2>4. Names' /\ Steadfast
    BY <1>0, <1>1, NamesStill
  <2> DEFINE m == [name |-> "SET", tok |-> t, user |-> u]
  <2>5. m \in Command
    BY <2>1 DEF Command
  <2>6. at[c] \notin Waits /\ ~ Making(c)
    BY <1>1 DEF Waits, Making
  <2>7. /\ RedisTypeOK' /\ Piped' /\ UNCHANGED <<link, storeVars>>
        /\ reply'[c] # Pending => link = "lost" /\ reply'[c].type = "error"
        /\ \A d \in Conn \ {c} : reply'[d] = reply[d]
    <3>1. reply'[c] = Pending => Asks(c, m)'
      BY <1>1, <2>2, <2>3 DEF Asks, Pending, Reply
    <3>2. \A d \in Conn \ {c} : at'[d] = at[d] /\ cur'[d] = cur[d] /\ tok'[d] = tok[d]
      BY <1>1, <2>2, <2>3
    <3>3. PICK v : v = u
      OBVIOUS
    <3>4. Submit(c, "SET", t, v) /\ [name |-> "SET", tok |-> t, user |-> v] \in Command
          /\ (reply'[c] = Pending => Asks(c, [name |-> "SET", tok |-> t, user |-> v])')
      BY <1>1, <1>3, <2>5, <3>1, <3>3
    <3> QED
      BY <1>0, <2>4, <2>6, <3>2, <3>4, Submitted
  <2>8. UNCHANGED <<holder, eternal>>
    BY <2>7 DEF storeVars
  <2>9. given[t].user = NoUser /\ \A d \in Conn : tok[d] # t
    BY <1>0 DEF Tokens
  <2>10. \A d \in Conn : Making(d) => Making(d)' /\ d # c
    BY <2>2, <2>6 DEF Making
  <2>11. Tokens'
    <3>1. \A s \in fresh' : holder'[s] = NoUser /\ given'[s].user = NoUser /\ s \notin eternal'
      BY <1>0, <1>1, <1>3, <2>8 DEF Tokens
    <3>2. \A d \in Conn : tok'[d] \notin fresh'
      BY <1>0, <1>3, <2>3 DEF Tokens
    <3>3. \A d, e \in Conn : tok'[d] \in Token /\ tok'[d] = tok'[e] => d = e
      BY <1>0, <2>3, <2>9 DEF Tokens
    <3>4. \A s \in Token : holder'[s] # NoUser =>
            \/ Vouched(s, holder[s])'
            \/ \E d \in Conn : Making(d)' /\ tok'[d] = s /\ cur'[d].user = holder'[s]
      <4> TAKE s \in Token
      <4> HAVE holder'[s] # NoUser
      <4>1. CASE Vouched(s, holder[s])
        BY <1>1, <2>8, <4>1 DEF Vouched
      <4>2. CASE \E d \in Conn : Making(d) /\ tok[d] = s /\ cur[d].user = holder[s]
        BY <1>1, <2>3, <2>8, <2>10, <4>2
      <4> QED
        BY <1>0, <2>8, <4>1, <4>2 DEF Tokens
    <3>5. TokensExpire'
      <4> SUFFICES ASSUME link' = "up", NEW s \in eternal'
                   PROVE  \E d \in Conn : tok'[d] = s /\ at'[d] \in {"setWait", "expireWait"}
        BY DEF TokensExpire
      <4>1. PICK d \in Conn : tok[d] = s /\ at[d] \in {"setWait", "expireWait"}
        BY <1>0, <2>7, <2>8 DEF Tokens, TokensExpire
      <4>2. d # c
        BY <1>1, <4>1
      <4> QED
        BY <2>2, <2>3, <4>1, <4>2
    <3>6. \A s \in known' : s \in Token /\ given'[s].user \in User
      BY <1>0, <1>1 DEF Tokens
    <3> QED
      BY <3>1, <3>2, <3>3, <3>4, <3>5, <3>6 DEF Tokens
  <2>12. \A d \in Conn \ {c} : Session(d)'
    <3>1. \A d \in Conn \ {c} : Alike(d)
      BY <1>1, <1>3, <2>2, <2>3, <2>7 DEF Alike
    <3>2. \A d \in Conn \ {c} : Making(d) =>
            given'[tok[d]].user = NoUser /\ users'[cur[d].user] = users[cur[d].user]
      BY <1>1 DEF SessionInv, Session
    <3> QED
      BY <1>1, <2>4, <2>7, <2>8, <3>1, <3>2, OthersSession
  <2>13. Session(c)'
    <3>1. "setWait" \in Working /\ "setWait" \notin Acting /\ "select" \in Working \ {"respond", "handshake"}
      BY DEF Working, Acting
    <3>2. Answers(c, reply[c])'
      BY <2>2 DEF Answers
    <3>3. answer'[c].status = 0
      BY <1>0, <1>1, <1>3, <3>1 DEF Session
    <3>4. \A i \in 1 .. Len(asked'[c]) :
            asked'[c][i].kind \in {"check", "upgrade"} => asked'[c][i].tok \in known' \cup {NoToken}
      BY <1>0, <1>1 DEF Session
    <3>5. tok'[c] \in Token /\ given'[tok'[c]].user = NoUser /\ cur'[c].password = users'[cur'[c].user]
      BY <1>1, <1>3, <2>1, <2>3, <2>9
    <3>6. cur'[c].kind = "login"
      BY <1>1, <2>1
    <3> QED
      BY <2>2, <3>1, <3>2, <3>3, <3>4, <3>5, <3>6 DEF Session
  <2> QED
    BY <2>4, <2>7, <2>11, <2>12, <2>13 DEF SessionInv
<1>4. \/ Respond(c, 401, NoUser) /\ UNCHANGED <<redisVars, tok, fresh>>
      \/ \E t \in fresh : /\ users[u] = cur[c].password
                          /\ fresh' = fresh \ {t} /\ tok' = [tok EXCEPT ![c] = t] /\ Submit(c, "SET", t, u)
                          /\ Go(c, "setWait") /\ UNCHANGED answer
  BY DEF Select
<1> QED
  BY <1>2, <1>3, <1>4

\* EXPIRE goes out.
LEMMA StoredSession ==
  ASSUME StreamInv, SessionInv, Shaped, NEW c \in Conn, Stored(c), UNCHANGED streamVars
  PROVE  SessionInv'
<1>0. RedisTypeOK /\ Piped /\ Tokens /\ Names /\ Session(c) /\ Typed
  BY DEF SessionInv, StreamInv
<1>1. /\ at[c] = "setWait" /\ reply[c] # Pending /\ Submit(c, "EXPIRE", tok[c], NoUser) /\ Go(c, "expireWait")
      /\ UNCHANGED <<cur, tok, users, fresh, given, created, answer, asked, known>>
  BY DEF Stored, streamVars
<1>2. PICK t : t = tok[c]
  OBVIOUS
<1>3. Making(c) /\ t \in Token
  BY <1>0, <1>1, <1>2 DEF Session, Making
<1>4. at'[c] = "expireWait" /\ \A d \in Conn \ {c} : at'[d] = at[d]
  <2>1. "expireWait" \in Places
    BY DEF Places, Working
  <2> QED
    BY <1>0, <1>1, <2>1, Went DEF Typed
<1>5. Names' /\ Steadfast
  BY <1>0, <1>1, NamesStill
<1>6. /\ RedisTypeOK' /\ Piped' /\ UNCHANGED <<link, storeVars>>
      /\ reply'[c] # Pending => link = "lost" /\ reply'[c].type = "error"
      /\ \A d \in Conn \ {c} : reply'[d] = reply[d]
  <2>1. [name |-> "EXPIRE", tok |-> t, user |-> NoUser] \in Command
    BY <1>3 DEF Command
  <2>2. reply'[c] = Pending => Asks(c, [name |-> "EXPIRE", tok |-> t, user |-> NoUser])'
    BY <1>1, <1>2, <1>4 DEF Asks, Pending, Reply
  <2>3. \A d \in Conn \ {c} : at'[d] = at[d] /\ cur'[d] = cur[d] /\ tok'[d] = tok[d]
    BY <1>1, <1>4
  <2> QED
    BY <1>0, <1>1, <1>2, <1>5, <2>1, <2>2, <2>3, Submitted
<1>7. UNCHANGED <<holder, eternal>>
  BY <1>6 DEF storeVars
<1>8. \A d \in Conn : Making(d)' <=> Making(d)
  BY <1>1, <1>4 DEF Making
<1>9. Tokens'
  BY <1>0, <1>1, <1>6, <1>7, <1>8, TokensStill
<1>10. \A d \in Conn \ {c} : Session(d)'
  <2>1. \A d \in Conn \ {c} : Alike(d)
    BY <1>1, <1>4, <1>6 DEF Alike
  <2>2. \A d \in Conn \ {c} : Making(d) =>
          given'[tok[d]].user = NoUser /\ users'[cur[d].user] = users[cur[d].user]
    BY <1>1 DEF SessionInv, Session
  <2> QED
    BY <1>1, <1>5, <1>6, <1>7, <2>1, <2>2, OthersSession
<1>11. Session(c)'
  <2>1. /\ "expireWait" \in Working /\ "expireWait" \notin Acting
        /\ "setWait" \in Working \ {"respond", "handshake"}
    BY DEF Working, Acting
  <2>2. reply'[c] # Pending => Answers(c, reply[c])'
    BY <1>4, <1>6 DEF Answers
  <2>3. answer'[c].status = 0
    BY <1>0, <1>1, <2>1 DEF Session
  <2>4. \A i \in 1 .. Len(asked'[c]) :
          asked'[c][i].kind \in {"check", "upgrade"} => asked'[c][i].tok \in known' \cup {NoToken}
    BY <1>0, <1>1 DEF Session
  <2>5. tok'[c] \in Token /\ given'[tok'[c]].user = NoUser /\ cur'[c].password = users'[cur'[c].user]
        /\ cur'[c].kind = "login"
    BY <1>0, <1>1, <1>3 DEF Session
  <2>6. Pending' = Pending
    BY DEF Pending, Reply
  <2> QED
    BY <1>4, <2>1, <2>2, <2>3, <2>4, <2>5, <2>6 DEF Session
<1> QED
  BY <1>5, <1>6, <1>9, <1>10, <1>11 DEF SessionInv

\* The token is handed out.
LEMMA LoggedInSession ==
  ASSUME StreamInv, SessionInv, Shaped, NEW c \in Conn, LoggedIn(c), UNCHANGED streamVars
  PROVE  SessionInv'
<1> DEFINE u == cur[c].user
           w == cur[c].password
<1>0. RedisTypeOK /\ Piped /\ Tokens /\ Names /\ Session(c) /\ Typed
  BY DEF SessionInv, StreamInv
<1>1. /\ at[c] = "expireWait" /\ reply[c] # Pending
      /\ given' = [given EXCEPT ![tok[c]] = [user |-> u, password |-> w]]
      /\ Respond(c, 200, u)
      /\ UNCHANGED <<redisVars, cur, tok, users, fresh, created, asked, known>>
  BY DEF LoggedIn, streamVars
<1>2. PICK t : t = tok[c]
  OBVIOUS
<1>3. Making(c) /\ t \in Token /\ given[t].user = NoUser /\ w = users[u]
  BY <1>0, <1>1, <1>2 DEF Session, Making
<1>4. cur[c].kind = "login" /\ u \in User /\ w \in Password
  BY <1>0, <1>3, LoggingIn
<1>5. link = "up" => t \notin eternal
  BY <1>0, <1>1, <1>2 DEF Session, Answers
<1>6. \A d \in Conn \ {c} : tok[d] # t
  BY <1>0, <1>2, <1>3 DEF Tokens
<1>7. at'[c] = "respond" /\ \A d \in Conn \ {c} : at'[d] = at[d]
  <2>1. "respond" \in Places /\ Go(c, "respond")
    BY <1>1 DEF Places, Working, Respond
  <2> QED
    BY <1>0, <2>1, Went DEF Typed
<1>8. UNCHANGED <<link, out, net, back, waiters, reading, writing, watched, reply, holder, eternal>>
  BY <1>1 DEF redisVars, linkVars, storeVars
<1>9. RedisTypeOK'
  BY <1>0, <1>8 DEF RedisTypeOK
<1> HIDE DEF u, w
<1>10. /\ given'[t].user = u /\ given'[t].password = w /\ \A s \in Token \ {t} : given'[s] = given[s]
       /\ given' \in [Token -> [user : User \cup {NoUser}, password : Password \cup {NoPassword}]]
  BY <1>0, <1>1, <1>2, <1>3, <1>4 DEF Names
<1>11. Steadfast
  <2> SUFFICES ASSUME NEW s, NEW v, Vouched(s, v)
               PROVE  Vouched(s, v)'
    BY DEF Steadfast
  <2>1. s # t
    BY <1>3, LinkAssumption DEF Vouched
  <2> QED
    BY <1>10, <2>1 DEF Vouched
<1>12. Names'
  <2>1. ASSUME NEW s \in Token, NEW v \in User, given'[s].user = v
        PROVE  given'[s].password = users'[v] /\ users'[v] \in Password
    <3>1. CASE s = t
      BY <1>1, <1>3, <1>4, <1>10, <2>1, <3>1
    <3>2. CASE s # t
      BY <1>0, <1>1, <1>10, <2>1, <3>2 DEF Names
    <3> QED
      BY <3>1, <3>2
  <2> QED
    BY <1>0, <1>1, <1>10, <2>1 DEF Names
<1>13. Piped'
  <2>1. \A d \in Conn : Calm(d)
    BY <1>1, <1>7, <1>8 DEF Calm
  <2> QED
    BY <1>0, <1>8, <1>11, <2>1, PipedStill
<1>14. \A d \in Conn \ {c} : Making(d)' <=> Making(d)
  BY <1>7 DEF Making
<1>15. Tokens'
  <2>1. \A s \in fresh' : holder'[s] = NoUser /\ given'[s].user = NoUser /\ s \notin eternal'
    <3>1. t \notin fresh /\ fresh \subseteq Token
      BY <1>0, <1>2 DEF Tokens, Typed
    <3> QED
      BY <1>0, <1>1, <1>8, <1>10, <3>1 DEF Tokens
  <2>2. \A s \in Token : holder'[s] # NoUser =>
          \/ Vouched(s, holder[s])'
          \/ \E d \in Conn : Making(d)' /\ tok'[d] = s /\ cur'[d].user = holder'[s]
    <3> TAKE s \in Token
    <3> HAVE holder'[s] # NoUser
    <3>1. CASE Vouched(s, holder[s])
      <4>1. s # t
        BY <1>3, <3>1, LinkAssumption DEF Vouched
      <4> QED
        BY <1>8, <1>10, <3>1, <4>1 DEF Vouched
    <3>2. CASE \E d \in Conn : Making(d) /\ tok[d] = s /\ cur[d].user = holder[s]
      <4>1. PICK d \in Conn : Making(d) /\ tok[d] = s /\ cur[d].user = holder[s]
        BY <3>2
      <4>2. CASE d = c
        BY <1>2, <1>3, <1>4, <1>8, <1>10, <4>1, <4>2 DEF Vouched, u
      <4>3. CASE d # c
        BY <1>1, <1>8, <1>14, <4>1, <4>3
      <4> QED
        BY <4>2, <4>3
    <3> QED
      BY <1>0, <1>8, <3>1, <3>2 DEF Tokens
  <2>3. TokensExpire'
    <3> SUFFICES ASSUME link' = "up", NEW s \in eternal'
                 PROVE  \E d \in Conn : tok'[d] = s /\ at'[d] \in {"setWait", "expireWait"}
      BY DEF TokensExpire
    <3>1. PICK d \in Conn : tok[d] = s /\ at[d] \in {"setWait", "expireWait"}
      BY <1>0, <1>8 DEF Tokens, TokensExpire
    <3>2. d # c
      BY <1>2, <1>5, <1>8, <3>1
    <3> QED
      BY <1>1, <1>7, <3>1, <3>2
  <2>4. \A s \in known' : s \in Token /\ given'[s].user \in User
    BY <1>0, <1>1, <1>4, <1>10 DEF Tokens
  <2> QED
    BY <1>0, <1>1, <1>8, <2>1, <2>2, <2>3, <2>4 DEF Tokens
<1>16. PICK a : a = [status |-> 200, user |-> u]
  OBVIOUS
<1>17. answer'[c] = a /\ \A d \in Conn \ {c} : answer'[d] = answer[d]
  BY <1>1, <1>16 DEF Shaped, Respond
<1>18. \A d \in Conn \ {c} : Session(d)'
  <2>1. \A d \in Conn \ {c} : Alike(d)
    BY <1>1, <1>7, <1>8, <1>17 DEF Alike
  <2>2. ASSUME NEW d \in Conn \ {c}, Making(d)
        PROVE  given'[tok[d]].user = NoUser /\ users'[cur[d].user] = users[cur[d].user]
    <3>1. tok[d] \in Token /\ given[tok[d]].user = NoUser /\ tok[d] # t
      BY <1>6, <2>2 DEF SessionInv, Session
    <3> QED
      BY <1>1, <1>10, <3>1
  <2> QED
    BY <1>1, <1>8, <1>11, <2>1, <2>2, OthersSession
<1>19. Session(c)'
  <2>1. "respond" \in Working /\ "respond" \notin Acting
    BY DEF Working, Acting
  <2>2. Answers(c, reply[c])' /\ ~ Making(c)'
    BY <1>7 DEF Answers, Making
  <2>3. \A i \in 1 .. Len(asked'[c]) :
          asked'[c][i].kind \in {"check", "upgrade"} => asked'[c][i].tok \in known' \cup {NoToken}
    BY <1>0, <1>1 DEF Session
  <2>4. Vouched(tok[c], cur[c].user)'
    BY <1>1, <1>2, <1>3, <1>4, <1>10 DEF Vouched, u
  <2>5. cur'[c].kind = "login"
    BY <1>1, <1>4
  <2> QED
    BY <1>7, <2>1, <2>2, <2>3, <2>4, <2>5 DEF Session
<1> QED
  BY <1>9, <1>12, <1>13, <1>15, <1>18, <1>19 DEF SessionInv

-----------------------------------------------------------------------------
(* The invariant of the accounts. *)

LEMMA InitSession == Init => SessionInv /\ Shaped
<1> SUFFICES ASSUME Init PROVE SessionInv /\ Shaped
  OBVIOUS
<1>1. PICK s \in Scenarios : users = s.users /\ holder = s.tokens
  BY DEF Init
<1>2. /\ users \in [User -> Password \cup {NoPassword}] /\ holder \in [Token -> User \cup {NoUser}]
      /\ \A t \in Token : holder[t] # NoUser => users[holder[t]] \in Password
  BY <1>1, ScenariosAssumption
<1>3. RedisInit /\ AccountInit /\ known = Token \ fresh /\ asked = [c \in Conn |-> <<>>]
  BY DEF Init
<1>4. /\ at = [c \in Conn |-> "read"] /\ cur = [c \in Conn |-> NoItem] /\ tok = [c \in Conn |-> NoToken]
      /\ fresh = {t \in Token : holder[t] = NoUser} /\ created = [u \in User |-> 0]
      /\ given = [t \in Token |->
           IF t \in fresh THEN [user |-> NoUser, password |-> NoPassword]
           ELSE [user |-> holder[t], password |-> users[holder[t]]]]
      /\ answer = [c \in Conn |-> NoAnswer]
  BY <1>3 DEF AccountInit
<1>5. /\ link = "up" /\ out = <<>> /\ net = <<>> /\ back = <<>> /\ waiters = <<>> /\ eternal = {}
      /\ reply = [c \in Conn |-> Pending]
  BY <1>3 DEF RedisInit
<1>6. RedisTypeOK
  <2>1. Pending \in Replies
    BY DEF Pending, Reply, Replies
  <2>2. reading = FALSE /\ writing = FALSE /\ watched = {}
    BY <1>3 DEF RedisInit
  <2>3. <<>> \in Seq(Command) /\ <<>> \in Seq(Replies) /\ <<>> \in Seq(Conn)
    OBVIOUS
  <2>4. out \in Seq(Command) /\ net \in Seq(Command) /\ back \in Seq(Replies) /\ waiters \in Seq(Conn)
    BY <1>5, <2>3
  <2>5. link \in {"up", "lost"} /\ eternal \subseteq Token /\ reply \in [Conn -> Replies]
    BY <1>5, <2>1
  <2>6. reading \in BOOLEAN /\ writing \in BOOLEAN /\ watched \subseteq {"IN", "OUT"}
    BY <2>2
  <2> QED
    BY <1>2, <2>4, <2>5, <2>6 DEF RedisTypeOK
<1>7. Shaped
  BY <1>4 DEF Shaped
<1>8. Len(<<>>) = 0 /\ 1 .. 0 = {} /\ Line = <<>>
  <2>1. Line = <<>> \o <<>>
    BY <1>5 DEF Line
  <2> QED
    BY <2>1
<1>9. Piped
  BY <1>5, <1>8 DEF Piped
<1>10. ASSUME NEW t \in fresh
       PROVE  given[t].user = NoUser /\ given[t].password = NoPassword /\ holder[t] = NoUser
  BY <1>4
<1>11. ASSUME NEW t \in Token \ fresh
       PROVE  /\ holder[t] \in User
              /\ given[t].user = holder[t] /\ given[t].password = users[holder[t]]
              /\ users[holder[t]] \in Password
  BY <1>2, <1>4
<1>12. Tokens
  <2>1. \A t \in Token : holder[t] # NoUser => Vouched(t, holder[t])
    BY <1>4, <1>11 DEF Vouched
  <2>2. TokensExpire
    BY <1>5 DEF TokensExpire
  <2>3. \A t \in known : t \in Token /\ given[t].user \in User
    BY <1>3, <1>11
  <2>4. \A t \in fresh : holder[t] = NoUser /\ given[t].user = NoUser /\ t \notin eternal
    BY <1>5, <1>10
  <2>5. \A c \in Conn : tok[c] = NoToken /\ tok[c] \notin Token
    BY <1>4, LinkAssumption
  <2>6. \A c \in Conn : tok[c] \notin fresh
    BY <1>4, <2>5
  <2> QED
    BY <2>1, <2>2, <2>3, <2>4, <2>5, <2>6 DEF Tokens
<1>13. Names
  <2>1. ASSUME NEW t \in Token
        PROVE  given[t] \in [user : User \cup {NoUser}, password : Password \cup {NoPassword}]
    <3>1. CASE t \in fresh
      BY <1>4, <3>1
    <3>2. CASE t \notin fresh
      <4>1. given[t] = [user |-> holder[t], password |-> users[holder[t]]]
        BY <1>4, <3>2
      <4> QED
        BY <1>11, <3>2, <4>1
    <3> QED
      BY <3>1, <3>2
  <2>2. given \in [Token -> [user : User \cup {NoUser}, password : Password \cup {NoPassword}]]
    BY <1>4, <2>1
  <2>3. ASSUME NEW t \in Token, NEW u \in User, given[t].user = u
        PROVE  given[t].password = users[u] /\ users[u] \in Password
    <3>1. t \notin fresh
      BY <1>10, <2>3, LinkAssumption
    <3>2. given[t].user = holder[t] /\ given[t].password = users[holder[t]] /\ users[holder[t]] \in Password
      BY <1>11, <3>1
    <3> QED
      BY <2>3, <3>2
  <2> QED
    BY <1>2, <1>4, <2>2, <2>3 DEF Names
<1>14. ASSUME NEW c \in Conn
       PROVE  Session(c)
  <2>1. at[c] = "read" /\ cur[c] = NoItem /\ reply[c] = Pending /\ asked[c] = <<>>
    BY <1>3, <1>4, <1>5
  <2> QED
    BY <1>8, <2>1 DEF Session, Making, Working, Acting
<1> QED
  BY <1>6, <1>7, <1>9, <1>12, <1>13, <1>14 DEF SessionInv

LEMMA ShapedStays ==
  ASSUME Shaped, [Next]_vars
  PROVE  Shaped'
<1>1. ASSUME NEW c \in Conn, NEW a, answer' = [answer EXCEPT ![c] = a]
      PROVE  Shaped'
  BY <1>1 DEF Shaped
<1>2. CASE UNCHANGED answer
  BY <1>2 DEF Shaped
<1>3. ASSUME NEW c \in Conn, Step(c)
      PROVE  UNCHANGED answer \/ \E d \in Conn : \E a : answer' = [answer EXCEPT ![d] = a]
  <2>1. CASE AccountStep(c)
    BY <2>1 DEF AccountStep, Insert, Select, Stored, LoggedIn, TokenChecked, Respond
  <2>2. CASE TakeRequest(c)
    <3>1. PICK x : Dispatch(c, x)
      BY <2>2 DEF TakeRequest
    <3> QED
      BY <3>1 DEF Dispatch, Respond
  <2>3. CASE ReadRequest(c) \/ BadRequest(c) \/ WriteResponse(c) \/ Handshake(c) \/ ReadField(c)
               \/ ReadFieldEnd(c) \/ ReadGarbled(c) \/ Act(c) \/ Pushed(c) \/ FrameDone(c) \/ Close(c)
    BY <2>3 DEF ReadRequest, BadRequest, WriteResponse, Handshake, ReadField, ReadFieldEnd,
                ReadGarbled, Act, Pushed, FrameDone, Close
  <2> QED
    BY <1>3, <2>1, <2>2, <2>3 DEF Step, StreamStep
<1>4. CASE \E c \in Conn : Ask(c) \/ HangUp(c)
  BY <1>2, <1>4 DEF Ask, HangUp, accountVars
<1>5. CASE UNCHANGED accountVars
  BY <1>2, <1>5 DEF accountVars
<1>6. CASE \E c \in Conn : Step(c)
  BY <1>1, <1>2, <1>3, <1>6
<1> QED
  BY <1>4, <1>5, <1>6 DEF Next, vars

LEMMA SessionStays == StreamInv /\ SessionInv /\ Shaped /\ [Next]_vars => SessionInv'
<1> SUFFICES ASSUME StreamInv, SessionInv, Shaped, [Next]_vars
             PROVE  SessionInv'
  OBVIOUS
<1>1. ASSUME NEW c \in Conn, Step(c)
      PROVE  SessionInv'
  <2>1. CASE Insert(c) /\ UNCHANGED streamVars
    BY <2>1, InsertSession
  <2>2. CASE Select(c) /\ UNCHANGED streamVars
    BY <2>2, SelectSession
  <2>3. CASE Stored(c) /\ UNCHANGED streamVars
    BY <2>3, StoredSession
  <2>4. CASE LoggedIn(c) /\ UNCHANGED streamVars
    BY <2>4, LoggedInSession
  <2>5. CASE TokenChecked(c) /\ UNCHANGED streamVars
    BY <2>5, TokenCheckedSession
  <2>6. CASE ReadRequest(c) \/ BadRequest(c) \/ ReadFieldEnd(c) \/ ReadGarbled(c) \/ Close(c)
    BY <2>6, PlainSteps
  <2>7. CASE TakeRequest(c)
    BY <2>7, TakeRequestSession
  <2>8. CASE WriteResponse(c)
    BY <2>8, WriteResponseSession
  <2>9. CASE Handshake(c)
    BY <2>9, HandshakeSession
  <2>10. CASE ReadField(c)
    BY <2>10, ReadFieldSession
  <2>11. CASE Act(c)
    BY <2>11, ActSession
  <2>12. CASE Pushed(c)
    BY <2>12, PushedSession
  <2>13. CASE FrameDone(c)
    BY <2>13, FrameDoneSession
  <2> QED
    BY <1>1, <2>1, <2>2, <2>3, <2>4, <2>5, <2>6, <2>7, <2>8, <2>9, <2>10, <2>11, <2>12, <2>13
    DEF Step, AccountStep, StreamStep
<1>2. CASE UNCHANGED vars
  <2>1. UNCHANGED <<redisVars, accountVars>> /\ UNCHANGED <<asked, known>>
    BY <1>2 DEF vars, streamVars
  <2> QED
    BY <2>1, StillSession
<1>3. CASE Next
  <2>1. CASE \E c \in Conn : Step(c)
    BY <1>1, <2>1
  <2>2. CASE \E c \in Conn : Ask(c)
    BY <2>2, AskSession
  <2>3. CASE \E c \in Conn : HangUp(c)
    BY <2>3, HangUpSession
  <2>4. CASE Redis /\ UNCHANGED <<accountVars, streamVars>>
    BY <2>4, RedisSession
  <2> QED
    BY <1>3, <2>1, <2>2, <2>3, <2>4 DEF Next
<1> QED
  BY <1>2, <1>3

LEMMA AlwaysInSession == Spec => [](StreamInv /\ SessionInv)
<1> DEFINE I == StreamInv /\ SessionInv /\ Shaped
<1>1. Init => I
  BY InitStream, InitSession
<1>2. I /\ [Next]_vars => I'
  BY StreamStays, SessionStays, ShapedStays
<1> QED
  BY <1>1, <1>2, PTL DEF Spec

\* Every reachable state is well-typed: in particular nobody is answered more
\* often than asked, and a client knows only tokens that have been made
\* (handle_http_connection, WorkerRedis).
THEOREM ConnectionTyped == Spec => []TypeOK
<1>1. StreamInv /\ SessionInv => TypeOK
  <2> SUFFICES ASSUME StreamInv, SessionInv
               PROVE  TypeOK
    OBVIOUS
  <2>1. RedisTypeOK /\ Typed /\ Names /\ Tokens
    BY DEF StreamInv, SessionInv
  <2>2. at \in [Conn -> {"read", "insert", "select", "setWait", "expireWait", "getWait",
                         "respond", "handshake", "act", "acted", "rpushWait", "ltrimWait",
                         "pong", "garbled", "cleanup", "closed"} \cup Fields]
    BY <2>1 DEF Typed, Places, Working, Acting, Over
  <2>3. known \subseteq Token \ fresh
    BY <2>1, LinkAssumption DEF Tokens
  <2>4. ASSUME NEW c \in Conn
        PROVE  got[c] \in 0 .. taken[c] /\ taken[c] \in 0 .. Len(asked[c])
    <3>1. got[c] \in Nat /\ taken[c] \in Nat /\ Len(asked[c]) \in Nat
      BY <2>1 DEF Typed
    <3>2. taken[c] <= Len(asked[c]) /\ got[c] <= taken[c]
      BY DEF StreamInv, Reader, Counted
    <3> QED
      BY <3>1, <3>2
  <2> QED
    BY <2>1, <2>2, <2>3, <2>4 DEF TypeOK, Typed, Names
<1> QED
  BY <1>1, AlwaysInSession, PTL

\* However many registrations and logins interleave, a name has one owner, and a
\* token handed out for it goes with the owner's password: the UNIQUE key of
\* users decides (chat_app.h:537-580).
THEOREM NameHasOneOwner == Spec => []OneOwner
<1>1. SessionInv => OneOwner
  BY DEF SessionInv, Names, OneOwner
<1> QED
  BY <1>1, AlwaysInSession, PTL

\* Whoever is served under a name has shown a token that a login under that name
\* handed out: the replies of the shared connection to Redis reach the coroutines
\* that asked, whatever is pipelined and wherever the link breaks
\* (AsyncRedisCommand, command_callback).
THEOREM ServedByToken == Spec => []ServedAsOwner
<1>1. StreamInv /\ SessionInv => ServedAsOwner
  <2> SUFFICES ASSUME StreamInv, SessionInv, NEW c \in Conn,
                      answer[c].status \in {101, 200}, cur[c].kind \in {"check", "upgrade"}
               PROVE  cur[c].tok \in Token \ fresh /\ given[cur[c].tok].user = answer[c].user
    BY DEF ServedAsOwner
  <2>1. Session(c) /\ Tokens
    BY DEF SessionInv
  <2>2. cur[c].kind \notin Frames /\ cur[c] # NoItem
    BY DEF Frames, NoItem
  <2>3. at[c] \in Working
    BY <2>1, <2>2 DEF Session
  <2>4. Vouched(cur[c].tok, answer[c].user)
    BY <2>1, <2>3 DEF Session
  <2> QED
    BY <2>1, <2>4, LinkAssumption DEF Vouched, Tokens
<1> QED
  BY <1>1, AlwaysInSession, PTL

\* While the link is up, a token without an expiry is that of a login that has
\* still to see the reply to its EXPIRE (chat_app.h:575-577).
THEOREM TokensDoExpire == Spec => []TokensExpire
<1>1. SessionInv => TokensExpire
  BY DEF SessionInv, Tokens
<1> QED
  BY <1>1, AlwaysInSession, PTL
==============================================================================
