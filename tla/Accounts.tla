------------------------------- MODULE Accounts -------------------------------
(***************************************************************************)
(* The routes of handle_http_connection that know users: register, login    *)
(* and those that show a token, among them the WebSocket upgrade.  Each is  *)
(* a few queries with suspensions between them; MySQL may fail any query.   *)
(*                                                                         *)
(* A request is a record: its kind, its name and password, its token, and   *)
(* whether the connection is to be kept.                                    *)
(***************************************************************************)
EXTENDS RedisLink

CONSTANTS Password, NoPassword

ASSUME AccountAssumption == NoPassword \notin Password

VARIABLES
  at,        \* at[c]: where the coroutine is
  cur,       \* cur[c]: the request (or frame) it works on
  tok,       \* tok[c]: the token it has made
  users,     \* users[u]: the password whose hash the table has for u
  \* observers
  fresh,     \* tokens generate_token has not made yet
  given,     \* given[t]: for whom a login has handed out t, and with which password
  created,   \* created[u]: how often somebody was told that u is registered
  answer     \* answer[c]: status of the last response and the user it was made for

accountVars == <<at, cur, tok, users, fresh, given, created, answer>>

NoItem == [kind |-> "none"]
NoAnswer == [status |-> 0, user |-> NoUser]

AccountInit ==
  /\ at = [c \in Conn |-> "read"]
  /\ cur = [c \in Conn |-> NoItem]
  /\ tok = [c \in Conn |-> NoToken]
  /\ fresh = {t \in Token : holder[t] = NoUser}
  /\ given = [t \in Token |->
       IF t \in fresh THEN [user |-> NoUser, password |-> NoPassword]
       ELSE [user |-> holder[t], password |-> users[holder[t]]]]
  /\ created = [u \in User |-> 0]
  /\ answer = [c \in Conn |-> NoAnswer]

Go(c, p) == at' = [at EXCEPT ![c] = p]

\* The response is ready to be written.
Respond(c, status, u) ==
  /\ Go(c, "respond")
  /\ answer' = [answer EXCEPT ![c] = [status |-> status, user |-> u]]

-----------------------------------------------------------------------------
\* Mutant: a plain INSERT after a SELECT has said that the name is free.
InsertUnchecked(c) ==
  /\ at[c] = "insert"
  /\ \/ Respond(c, 500, NoUser) /\ UNCHANGED <<users, created>>
     \/ /\ users' = [users EXCEPT ![cur[c].user] = cur[c].password]
        /\ created' = [created EXCEPT ![cur[c].user] = @ + 1]
        /\ Respond(c, 200, cur[c].user)
  /\ UNCHANGED <<redisVars, cur, tok, fresh, given>>

\* POST /api/register: INSERT IGNORE INTO users, whose name is UNIQUE.
Insert(c) ==
  /\ at[c] = "insert"
  /\ LET u == cur[c].user IN
     \/ /\ Respond(c, 500, NoUser)
        /\ UNCHANGED <<users, created>>
     \/ /\ users[u] # NoPassword
        /\ Respond(c, 409, NoUser)
        /\ UNCHANGED <<users, created>>
     \/ /\ users[u] = NoPassword
        /\ users' = [users EXCEPT ![u] = cur[c].password]
        /\ created' = [created EXCEPT ![u] = @ + 1]
        /\ Respond(c, 200, u)
  /\ UNCHANGED <<redisVars, cur, tok, fresh, given>>

\* POST /api/login: the SELECT, and then SET of a new token.
Select(c) ==
  /\ at[c] = "select"
  /\ \/ /\ Respond(c, 401, NoUser)
        /\ UNCHANGED <<redisVars, tok, fresh>>
     \/ /\ users[cur[c].user] = cur[c].password
        /\ \E t \in fresh :
             /\ fresh' = fresh \ {t}
             /\ tok' = [tok EXCEPT ![c] = t]
             /\ Submit(c, "SET", t, cur[c].user)
        /\ Go(c, "setWait")
        /\ UNCHANGED answer
  /\ UNCHANGED <<cur, users, given, created>>

\* Mutant: the token goes out without its EXPIRE.
StoredOnly(c) ==
  /\ at[c] = "setWait" /\ reply[c] # Pending
  /\ given' = [given EXCEPT ![tok[c]] = [user |-> cur[c].user, password |-> cur[c].password]]
  /\ Respond(c, 200, cur[c].user)
  /\ UNCHANGED <<redisVars, cur, tok, users, fresh, created>>

\* SET has been answered, whatever the answer: EXPIRE.
Stored(c) ==
  /\ at[c] = "setWait" /\ reply[c] # Pending
  /\ Submit(c, "EXPIRE", tok[c], NoUser)
  /\ Go(c, "expireWait")
  /\ UNCHANGED <<cur, tok, users, fresh, given, created, answer>>

\* EXPIRE has been answered, whatever the answer: the client gets the token.
LoggedIn(c) ==
  /\ at[c] = "expireWait" /\ reply[c] # Pending
  /\ given' = [given EXCEPT ![tok[c]] = [user |-> cur[c].user, password |-> cur[c].password]]
  /\ Respond(c, 200, cur[c].user)
  /\ UNCHANGED <<redisVars, cur, tok, users, fresh, created>>

\* The reply to GET token:<t>: the name, or no such key, an error, no reply.
TokenChecked(c) ==
  /\ at[c] = "getWait" /\ reply[c] # Pending
  /\ \/ /\ reply[c].type # "string"
        /\ Respond(c, 401, NoUser)
     \/ /\ reply[c].type = "string"
        /\ IF cur[c].kind = "upgrade"
           THEN /\ Go(c, "handshake")
                /\ answer' = [answer EXCEPT ![c] = [status |-> 101, user |-> reply[c].str]]
           ELSE Respond(c, 200, reply[c].str)
  /\ UNCHANGED <<redisVars, cur, tok, users, fresh, given, created>>

AccountStep(c) ==
  Insert(c) \/ Select(c) \/ Stored(c) \/ LoggedIn(c) \/ TokenChecked(c)

-----------------------------------------------------------------------------
(* Properties. *)

\* However many register at once, a name is given to one of them, and whoever
\* logs in as u has the password of that registration: the UNIQUE key decides,
\* no earlier SELECT.
OneOwner ==
  \A u \in User : /\ created[u] <= 1
                  /\ \A t \in Token : given[t].user = u => given[t].password = users[u]

\* What is done in the name of u is done with a token that a login as u has made:
\* the replies of the shared connection reach the coroutines that asked, and no
\* key is overwritten (chat_app.h:288-301, async_redis.h:103).
ServedAsOwner ==
  \A c \in Conn : answer[c].status \in {101, 200} /\ cur[c].kind \in {"check", "upgrade"} =>
    /\ cur[c].tok \in Token \ fresh
    /\ given[cur[c].tok].user = answer[c].user

\* A token without an expiry is that of a login still between SET and EXPIRE,
\* unless the link to Redis was lost: nobody looks at the two replies
\* (chat_app.h:575-577).
TokensExpire ==
  link = "up" =>
    \A t \in eternal : \E c \in Conn : tok[c] = t /\ at[c] \in {"setWait", "expireWait"}
=============================================================================
