------------------------------ MODULE Connection ------------------------------
(***************************************************************************)
(* The coroutines handle_http_connection of one Worker, from the bytes of   *)
(* the client to the routes of Accounts and back: reading a request however *)
(* its bytes arrive, pipelining, keep-alive, and the WebSocket frames after *)
(* an upgrade.                                                              *)
(*                                                                         *)
(* A byte, or a run of bytes whose cutting makes no difference, is a record *)
(* of the item it belongs to and the part it is: "line" (request line and   *)
(* headers), "end" (the empty line), "body"; "op" and "len" (the header of  *)
(* a frame), "ext", "key" (mask key) and "pay".                             *)
(***************************************************************************)
EXTENDS Accounts, FiniteSetsExt

CONSTANTS
  Scenarios  \* bound: what the clients may want to send, item after item, the
             \* table of users and the tokens to start from

VARIABLES
  script,  \* what the clients send
  asked,   \* asked[c]: the items sent so far
  wire,    \* wire[c]: bytes sent and not yet read
  raw,     \* raw[c]: raw and leftover; in the frame reader the bytes of this frame
  gone,    \* clients that have hung up
  ws,      \* clients that have seen 101
  got,     \* got[c]: responses the client has seen
  known,   \* the tokens clients have seen
  taken,   \* taken[c]: items taken so far
  astray   \* connections whose frame reader met a short read or an EAGAIN

streamVars == <<script, asked, wire, raw, gone, ws, got, known, taken, astray>>
vars == <<redisVars, accountVars, streamVars>>

Posts == {"register", "login"}
Requests == Posts \cup {"check", "upgrade", "page", "bad"}
Frames == {"text", "ping", "close"}

ContentLength(x) == IF x.kind \in Posts THEN 1 ELSE 0

\* How an item looks on the wire; browsers mask every frame.
Parts(x) ==
  IF x.kind \in Requests
  THEN <<"line", "end">> \o [k \in 1..ContentLength(x) |-> "body"]
  ELSE <<"op", "len">> \o (IF x.long THEN <<"ext", "ext">> ELSE <<>>)
         \o <<"key", "key">> \o [k \in 1..x.size |-> "pay"]

Bytes(x, i) == [k \in 1..Len(Parts(x)) |-> [item |-> i, part |-> Parts(x)[k]]]

\* What a client sends, and when: frames and nothing else once it has asked for
\* the upgrade.
Item ==
  [kind : Requests, user : User \cup {NoUser}, password : Password \cup {NoPassword},
   tok : Token \cup {NoToken}, keep : BOOLEAN]
  \cup [kind : Frames, long : BOOLEAN, size : Nat, tok : Token \cup {NoToken}]

Sendable(s) ==
  /\ s \in Seq(Item)
  /\ \A i \in DOMAIN s : s[i].kind \in Posts => s[i].user \in User /\ s[i].password \in Password
  /\ \A i, j \in DOMAIN s : i < j /\ s[i].kind = "upgrade" => s[j].kind \in Frames

ASSUME ScenariosAssumption ==
  \A s \in Scenarios :
    /\ s.users \in [User -> Password \cup {NoPassword}]
    /\ s.tokens \in [Token -> User \cup {NoUser}]
    /\ \A t \in Token : s.tokens[t] # NoUser => s.users[s.tokens[t]] \in Password
    /\ DOMAIN s.script = Conn
    /\ \A c \in Conn : Sendable(s.script[c])

Init ==
  /\ \E s \in Scenarios : script = s.script /\ users = s.users /\ holder = s.tokens
  /\ RedisInit /\ AccountInit
  /\ asked = [c \in Conn |-> <<>>]
  /\ wire = [c \in Conn |-> <<>>]
  /\ raw = [c \in Conn |-> <<>>]
  /\ gone = {} /\ ws = {} /\ known = Token \ fresh /\ astray = {}
  /\ got = [c \in Conn |-> 0]
  /\ taken = [c \in Conn |-> 0]

\* What has been read and sent makes the item i of c, or something else.
Garbled == [kind |-> "garbled"]
Decode(c, i, bytes) == IF bytes = Bytes(asked[c][i], i) THEN asked[c][i] ELSE Garbled

-----------------------------------------------------------------------------
(* The clients. *)

\* A client sends the next item of its script.  It may do so before the answers
\* have come, but a token and the 101 of an upgrade it has to wait for.
Ask(c) ==
  /\ c \notin gone /\ Len(asked[c]) < Len(script[c])
  /\ LET i == Len(asked[c]) + 1
         x == script[c][i] IN
     /\ x.kind \in Frames => c \in ws
     /\ x.kind \in {"check", "upgrade"} => got[c] = Len(asked[c])
     /\ \E t \in IF x.kind \notin {"check", "upgrade"} \/ known = {} THEN {NoToken} ELSE known :
          /\ asked' = [asked EXCEPT ![c] = Append(@, [x EXCEPT !.tok = t])]
          /\ wire' = [wire EXCEPT ![c] = @ \o Bytes(x, i)]
  /\ UNCHANGED <<redisVars, accountVars, script, raw, gone, ws, got, known, taken, astray>>

HangUp(c) ==
  /\ c \notin gone
  /\ gone' = gone \cup {c}
  /\ UNCHANGED <<redisVars, accountVars, script, asked, wire, raw, ws, got, known, taken, astray>>

-----------------------------------------------------------------------------
(* Reading requests. *)

Ends(r) == {k \in DOMAIN r : r[k].part = "end"}

\* raw.find("\r\n\r\n") and the Content-Length of the header it closes.
RequestLength(c, r) == Min(Ends(r)) + ContentLength(asked[c][r[1].item])

Bad(c, r) == Ends(r) # {} /\ asked[c][r[1].item].kind = "bad"

Complete(c, r) == Ends(r) # {} /\ Len(r) >= RequestLength(c, r)

\* n bytes go from the socket into raw.
Receive(c, n) ==
  /\ raw' = [raw EXCEPT ![c] = @ \o SubSeq(wire[c], 1, n)]
  /\ wire' = [wire EXCEPT ![c] = SubSeq(@, n + 1, Len(@))]

\* AsyncRead in one of the two read loops; EAGAIN is tried again.
ReadRequest(c) ==
  /\ at[c] = "read" /\ ~Bad(c, raw[c]) /\ ~Complete(c, raw[c])
  /\ \/ /\ \E n \in 1..Len(wire[c]) : Receive(c, n)
        /\ UNCHANGED at
     \/ /\ c \in gone /\ wire[c] = <<>>
        /\ Go(c, "cleanup")
        /\ UNCHANGED <<raw, wire>>
  /\ UNCHANGED <<redisVars, cur, tok, users, fresh, given, created, answer,
                 script, asked, gone, ws, got, known, taken, astray>>

\* parse() says no.
BadRequest(c) ==
  /\ at[c] = "read" /\ Bad(c, raw[c])
  /\ Go(c, "cleanup")
  /\ UNCHANGED <<redisVars, cur, tok, users, fresh, given, created, answer, streamVars>>

\* The route of the request x: what it awaits first, or its response.
Dispatch(c, x) ==
  \/ /\ x.kind = "register" /\ Go(c, "insert")
     /\ answer' = [answer EXCEPT ![c] = NoAnswer]
     /\ UNCHANGED redisVars
  \/ /\ x.kind = "login" /\ Go(c, "select")
     /\ answer' = [answer EXCEPT ![c] = NoAnswer]
     /\ UNCHANGED redisVars
  \/ /\ x.kind \in {"check", "upgrade"} /\ Go(c, "getWait")
     /\ answer' = [answer EXCEPT ![c] = NoAnswer]
     /\ Submit(c, "GET", x.tok, NoUser)
  \/ /\ x.kind = "page" /\ Respond(c, 200, NoUser)
     /\ UNCHANGED redisVars
  \/ /\ x.kind = "garbled" /\ Respond(c, 404, NoUser)
     /\ UNCHANGED redisVars

\* Mutant: leftover is not kept when there is no body.
TakeRequestAll(c) ==
  /\ at[c] = "read" /\ ~Bad(c, raw[c]) /\ Complete(c, raw[c])
  /\ LET i == raw[c][1].item
         n == RequestLength(c, raw[c])
         x == Decode(c, i, SubSeq(raw[c], 1, n)) IN
     /\ raw' = [raw EXCEPT ![c] = IF n > 2 THEN SubSeq(@, n + 1, Len(@)) ELSE <<>>]
     /\ cur' = [cur EXCEPT ![c] = x]
     /\ taken' = [taken EXCEPT ![c] = @ + 1]
     /\ Dispatch(c, x)
  /\ UNCHANGED <<tok, users, fresh, given, created,
                 script, asked, wire, gone, ws, got, known, astray>>

\* The request is whole: what follows it is kept for the next one.
TakeRequest(c) ==
  /\ at[c] = "read" /\ ~Bad(c, raw[c]) /\ Complete(c, raw[c])
  /\ LET i == raw[c][1].item
         n == RequestLength(c, raw[c])
         x == Decode(c, i, SubSeq(raw[c], 1, n)) IN
     /\ raw' = [raw EXCEPT ![c] = SubSeq(@, n + 1, Len(@))]
     /\ cur' = [cur EXCEPT ![c] = x]
     /\ taken' = [taken EXCEPT ![c] = @ + 1]
     /\ Dispatch(c, x)
  /\ UNCHANGED <<tok, users, fresh, given, created,
                 script, asked, wire, gone, ws, got, known, astray>>

\* Keep-Alive; an upgrade that is refused ends the connection.
Kept(x) == x.kind = "garbled" \/ (x.kind # "upgrade" /\ x.keep)

\* Mutant: off is not advanced, and the response is written again.
WriteResponseAgain(c) ==
  /\ at[c] = "respond"
  /\ cur' = [cur EXCEPT ![c] = NoItem]
  /\ \/ got' = [got EXCEPT ![c] = @ + 1] /\ UNCHANGED at
     \/ c \in gone /\ Go(c, "cleanup") /\ UNCHANGED got
  /\ UNCHANGED <<redisVars, tok, users, fresh, given, created, answer,
                 script, asked, wire, raw, gone, ws, known, taken, astray>>

\* The response is written; the connection is kept, or not.
WriteResponse(c) ==
  /\ at[c] = "respond"
  /\ cur' = [cur EXCEPT ![c] = NoItem]
  /\ \/ /\ got' = [got EXCEPT ![c] = @ + 1]
        /\ known' = IF cur[c].kind = "login" /\ answer[c].status = 200
                    THEN known \cup {tok[c]} ELSE known
        /\ Go(c, IF Kept(cur[c]) THEN "read" ELSE "cleanup")
     \/ /\ c \in gone
        /\ Go(c, "cleanup")
        /\ UNCHANGED <<got, known>>
  /\ UNCHANGED <<redisVars, tok, users, fresh, given, created, answer,
                 script, asked, wire, raw, gone, ws, taken, astray>>

\* 101: from here on the bytes are frames; leftover is not looked at any more.
Handshake(c) ==
  /\ at[c] = "handshake"
  /\ cur' = [cur EXCEPT ![c] = NoItem]
  /\ \/ /\ got' = [got EXCEPT ![c] = @ + 1]
        /\ ws' = ws \cup {c}
        /\ raw' = [raw EXCEPT ![c] = <<>>]
        /\ Go(c, "header")
     \/ /\ c \in gone
        /\ Go(c, "cleanup")
        /\ UNCHANGED <<got, ws, raw>>
  /\ UNCHANGED <<redisVars, tok, users, fresh, given, created, answer,
                 script, asked, wire, gone, known, taken, astray>>

-----------------------------------------------------------------------------
(* Reading frames. *)

Fields == {"header", "ext", "mask", "payload"}

FrameOf(c) == asked[c][raw'[c][1].item]

\* What the field being read has still to get.
Missing(c) ==
  CASE at[c] = "header"  -> 2 - Len(raw[c])
    [] at[c] = "ext"     -> 2
    [] at[c] = "mask"    -> 2
    [] at[c] = "payload" -> Len(Parts(asked[c][raw[c][1].item])) - Len(raw[c])

\* The field after this one.
NextField(c) ==
  CASE at[c] = "header" /\ FrameOf(c).long             -> "ext"
    [] at[c] = "header" /\ ~FrameOf(c).long            -> "mask"
    [] at[c] = "ext"                                   -> "mask"
    [] at[c] = "mask" /\ FrameOf(c).size > 0           -> "payload"
    [] at[c] = "mask" /\ FrameOf(c).size = 0           -> "act"
    [] at[c] = "payload"                               -> "act"

\* AsyncRead of some bytes of a field.  The header and the payload are read in
\* loops; the extended length and the mask key in one go, and when that comes
\* short the reader is out of step with the frames.
ReadField(c) ==
  /\ at[c] \in Fields
  /\ \E n \in 1..Min({Missing(c), Len(wire[c])}) :
       /\ Receive(c, n)
       /\ IF n = Missing(c)
          THEN Go(c, NextField(c)) /\ UNCHANGED astray
          ELSE IF at[c] \in {"header", "payload"}
          THEN UNCHANGED <<at, astray>>
          ELSE Go(c, "garbled") /\ astray' = astray \cup {c}
  /\ UNCHANGED <<redisVars, cur, tok, users, fresh, given, created, answer,
                 script, asked, gone, ws, got, known, taken>>

\* The client is gone; or an event left from earlier has resumed the reader and
\* there is nothing to read: behind the header -1 is taken for the end.
ReadFieldEnd(c) ==
  /\ \/ at[c] \in Fields /\ c \in gone /\ wire[c] = <<>> /\ UNCHANGED astray
     \/ at[c] \in Fields \ {"header"} /\ astray' = astray \cup {c}
  /\ Go(c, "cleanup")
  /\ UNCHANGED <<redisVars, cur, tok, users, fresh, given, created, answer,
                 script, asked, wire, raw, gone, ws, got, known, taken>>

\* Out of step, the reader takes anything for the length of the next frame.
ReadGarbled(c) ==
  /\ at[c] = "garbled"
  /\ \/ \E n \in 1..Len(wire[c]) : Receive(c, n) /\ UNCHANGED at
     \/ Go(c, "cleanup") /\ UNCHANGED <<raw, wire>>
  /\ UNCHANGED <<redisVars, cur, tok, users, fresh, given, created, answer,
                 script, asked, gone, ws, got, known, taken, astray>>

\* The frame is whole: an empty text is skipped, a text stored.
Act(c) ==
  /\ at[c] = "act"
  /\ LET x == Decode(c, raw[c][1].item, raw[c]) IN
     /\ taken' = [taken EXCEPT ![c] = @ + 1]
     /\ raw' = [raw EXCEPT ![c] = <<>>]
     /\ \/ /\ x.kind = "close" /\ Go(c, "cleanup")
           /\ UNCHANGED <<redisVars, cur>>
        \/ /\ x.kind = "ping" /\ Go(c, "pong")
           /\ cur' = [cur EXCEPT ![c] = x]
           /\ UNCHANGED redisVars
        \/ /\ x.kind = "text" /\ x.size > 0 /\ Go(c, "rpushWait")
           /\ cur' = [cur EXCEPT ![c] = x]
           /\ Submit(c, "RPUSH", NoToken, NoUser)
        \/ /\ \/ x.kind = "garbled"
              \/ x.kind = "text" /\ x.size = 0
           /\ Go(c, "acted")
           /\ cur' = [cur EXCEPT ![c] = x]
           /\ UNCHANGED redisVars
  /\ UNCHANGED <<tok, users, fresh, given, created, answer,
                 script, asked, wire, gone, ws, got, known, astray>>

\* RPUSH has been answered, whatever the answer: LTRIM.
Pushed(c) ==
  /\ at[c] = "rpushWait" /\ reply[c] # Pending
  /\ Submit(c, "LTRIM", NoToken, NoUser)
  /\ Go(c, "ltrimWait")
  /\ UNCHANGED <<cur, tok, users, fresh, given, created, answer, streamVars>>

\* The message is broadcast, or the pong written; an EAGAIN ends the connection.
FrameDone(c) ==
  /\ \/ at[c] = "ltrimWait" /\ reply[c] # Pending /\ Go(c, "header") /\ UNCHANGED astray
     \/ at[c] \in {"pong", "acted"} /\ Go(c, "header") /\ UNCHANGED astray
     \/ at[c] = "pong" /\ Go(c, "cleanup") /\ astray' = astray \cup {c}
  /\ cur' = [cur EXCEPT ![c] = NoItem]
  /\ UNCHANGED <<redisVars, tok, users, fresh, given, created, answer,
                 script, asked, wire, raw, gone, ws, got, known, taken>>

Close(c) ==
  /\ at[c] = "cleanup"
  /\ Go(c, "closed")
  /\ raw' = [raw EXCEPT ![c] = <<>>]
  /\ wire' = [wire EXCEPT ![c] = <<>>]
  /\ gone' = gone \cup {c}
  /\ UNCHANGED <<redisVars, cur, tok, users, fresh, given, created, answer,
                 script, asked, ws, got, known, taken, astray>>

-----------------------------------------------------------------------------
StreamStep(c) ==
  \/ ReadRequest(c) \/ BadRequest(c) \/ TakeRequest(c) \/ WriteResponse(c) \/ Handshake(c)
  \/ ReadField(c) \/ ReadFieldEnd(c) \/ ReadGarbled(c)
  \/ Act(c) \/ Pushed(c) \/ FrameDone(c) \/ Close(c)

\* A step of the coroutine c.
Step(c) == (AccountStep(c) /\ UNCHANGED streamVars) \/ StreamStep(c)

Redis == RedisStep \/ Lose \/ \E t \in Token : Expire(t)

Next ==
  \/ \E c \in Conn : Step(c) \/ Ask(c) \/ HangUp(c)
  \/ Redis /\ UNCHANGED <<accountVars, streamVars>>

Spec == Init /\ [][Next]_vars

\* The Worker resumes who can go on, bytes arrive, MySQL and Redis answer.
Fairness ==
  /\ \A c \in Conn : WF_vars(Step(c))
  /\ WF_vars(RedisStep /\ UNCHANGED <<accountVars, streamVars>>)

FairSpec == Spec /\ Fairness

-----------------------------------------------------------------------------
(* Properties. *)

TypeOK ==
  /\ RedisTypeOK
  /\ at \in [Conn -> {"read", "insert", "select", "setWait", "expireWait", "getWait",
                      "respond", "handshake", "act", "acted", "rpushWait", "ltrimWait",
                      "pong", "garbled", "cleanup", "closed"} \cup Fields]
  /\ tok \in [Conn -> Token \cup {NoToken}]
  /\ users \in [User -> Password \cup {NoPassword}]
  /\ fresh \subseteq Token /\ known \subseteq Token \ fresh
  /\ gone \subseteq Conn /\ ws \subseteq Conn /\ astray \subseteq ws
  /\ \A c \in Conn : got[c] \in 0..taken[c] /\ taken[c] \in 0..Len(asked[c])

\* The reader promises its items one by one, entire and in order.  It has ended
\* when it closes, and when a short read of a length or a mask key has put it
\* out of step (chat_app.h:401, 406, 414).
Stream == INSTANCE RequestStream WITH
  over <- {c \in Conn : at[c] \in {"garbled", "cleanup", "closed"}},
  cur <- [c \in Conn |-> IF at[c] \in {"garbled", "cleanup", "closed"} THEN NoItem ELSE cur[c]],
  todo <- [c \in Conn |-> IF at[c] \in {"garbled", "cleanup", "closed"} THEN <<>>
                          ELSE SubSeq(asked[c], taken[c] + 1, Len(asked[c]))]

ImplementsStream == Stream!Spec

\* An item before the i-th, or that one itself, ends the connection.
Ending(c, i) ==
  \E j \in 1..i : LET x == asked[c][j] IN
    \/ x.kind \in {"bad", "close"}
    \/ x.kind \in Requests /\ ~x.keep /\ j < i
    \/ x.kind = "upgrade" /\ c \notin ws /\ j < i

\* Every request is answered and every frame acted on, unless the client has hung
\* up or ended the connection, the link to Redis was lost or the frame reader
\* went astray: nobody waits for a byte, a leftover or a reply that is there.
\* (The scripts are finite, so it is enough that all are served in the end.)
Served ==
  <>[](\A c \in Conn : \A i \in DOMAIN asked[c] :
         \/ taken[c] > i \/ (taken[c] = i /\ cur[c] = NoItem)
         \/ Ending(c, i) \/ c \in gone \cup astray \/ link = "lost")
=============================================================================
