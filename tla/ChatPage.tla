------------------------------- MODULE ChatPage -------------------------------
(***************************************************************************)
(* The script of chat_page.h in one browser tab, against the server it      *)
(* talks to: login and logout, the WebSocket with its generations and its   *)
(* reconnection timer, switchRoom and the rooms that the server has it in,  *)
(* and the functions that await a fetch while the user goes on.             *)
(*                                                                         *)
(* A WebSocket is the value wsGeneration had when it was made.  Frames to   *)
(* the server wait in up, frames to the page in down.  The server side is   *)
(* as small as the page needs it; ChatRooms has the whole.                  *)
(***************************************************************************)
EXTENDS PageText, FiniteSets

CONSTANTS
  General,   \* the room "general"
  Rooms,     \* the other rooms
  MaxCall,   \* bound: async functions in flight
  MaxToken,  \* bound: successful logins; a token is its number, 0 is ''
  MaxSocket, \* bound: wsGeneration
  MaxAct,    \* bound: what the user does
  MaxMishap, \* bound: connections that break, rooms deleted, tokens that end
  Names,     \* bound: the name of the user
  Texts      \* bound: what the user types, trimmed

ASSUME PageAssumption ==
  /\ General \notin Rooms /\ MaxCall \in Nat /\ MaxToken \in Nat
  /\ MaxSocket \in Nat /\ MaxAct \in Nat /\ MaxMishap \in Nat
  /\ \A s \in Names \cup Texts : s \in Seq(Range(s))
  \* JSON.stringify of doRegister escapes them, and json_get leaves the escapes
  /\ \A s \in Names : Range(s) \cap Control = {}

Sockets == 1..MaxSocket
Calls == 1..MaxCall
AllRooms == Rooms \cup {General}

VARIABLES
  token, currentRoom, ws, wsGeneration,
  timers,     \* connectWebSocket calls that setTimeout has pending
  reconnTimer, \* whether it holds the timer that was set last
  bubbles,    \* what #messages shows
  call,       \* call[k]: an async function and where it is
  readyState, \* readyState[g]
  up, down,   \* frames on their way, by socket
  \* the server
  peer,       \* peer[g]: how far the server is with the socket
  url,        \* url[g]: token and room of the upgrade request
  joined,     \* joined[g]: joined_rooms
  tasks,      \* tasks[g]: coroutines about deleted rooms that wait on its Worker
  valid,      \* tokens Redis has
  member,     \* rooms that exist and have the user as a member
  log,        \* log[r]: the texts in the list of the room r
  name,       \* the name of the user
  \* observers and bounds
  issued, acts, mishaps,
  overlapped, \* two logins were in flight at once
  missed,     \* sockets that were connecting when the user switched rooms
  untold,     \* untold[g]: rooms the server takes the socket out of with no word, or
              \* with a room_missing, which the page does not understand
  stranded    \* loadRooms threw inside doLogin

timerVars == <<timers, reconnTimer>>
pageVars == <<token, currentRoom, ws, wsGeneration, timerVars, bubbles>>
netVars == <<readyState, up, down>>
serverVars == <<peer, url, joined, tasks, valid, member, log, name>>
boundVars == <<issued, acts, mishaps>>
seenVars == <<overlapped, missed, untold, stranded>>
vars == <<pageVars, call, netVars, serverVars, boundVars, seenVars>>

\* How a text of a user looks, live and from the history.
Views ==
  [user \in Names |-> [text \in Texts |->
    LET got == Received(text) IN
    [live |-> LiveView(user, got), history |-> HistoryView(Entry(user, got))]]]

Idle == [fn |-> "none", at |-> "idle", room |-> General, tok |-> 0]

Init ==
  /\ token = 0 /\ currentRoom = General /\ ws = 0 /\ wsGeneration = 0
  /\ timers = 0 /\ reconnTimer = FALSE
  /\ bubbles = {}
  /\ call = [k \in Calls |-> Idle]
  /\ readyState = [g \in Sockets |-> "none"]
  /\ up = [g \in Sockets |-> <<>>] /\ down = [g \in Sockets |-> <<>>]
  /\ peer = [g \in Sockets |-> "none"]
  /\ url = [g \in Sockets |-> [tok |-> 0, room |-> General]]
  /\ joined = [g \in Sockets |-> {}]
  /\ tasks = [g \in Sockets |-> <<>>]
  /\ valid = {} /\ member = Rooms
  /\ log = [r \in AllRooms |-> <<>>]
  /\ name \in Names
  /\ issued = 0 /\ acts = 0 /\ mishaps = 0
  /\ overlapped = FALSE /\ missed = {} /\ stranded = FALSE
  /\ untold = [g \in Sockets |-> {}]

Act == acts < MaxAct /\ acts' = acts + 1

Mishap == mishaps < MaxMishap /\ mishaps' = mishaps + 1

Free(k) == call[k] = Idle /\ \A j \in 1..(k - 1) : call[j] # Idle

-----------------------------------------------------------------------------
(* Functions of the page that others call. *)

\* connectWebSocket, with the token and the room of this moment.
ConnectWebSocket ==
  /\ wsGeneration < MaxSocket
  /\ LET g == wsGeneration + 1 IN
     /\ wsGeneration' = g
     /\ ws' = g
     /\ readyState' = [readyState EXCEPT ![g] = "connecting"]
     /\ peer' = [peer EXCEPT ![g] = "asked"]
     /\ url' = [url EXCEPT ![g] = [tok |-> token, room |-> currentRoom]]

\* Mutant: the server is told of the room that is joined, not of the one left.
SwitchRoomJoins(r) ==
  /\ currentRoom' = r
  /\ bubbles' = IF currentRoom = r THEN bubbles ELSE {}
  /\ up' = IF currentRoom # r /\ ws # 0 /\ readyState[ws] = "open"
           THEN [up EXCEPT ![ws] = Append(@, [type |-> "join", room |-> r])]
           ELSE up
  /\ missed' = IF currentRoom # r /\ ws # 0 /\ readyState[ws] = "connecting"
               THEN missed \cup {ws} ELSE missed

\* switchRoom; the server is told when the socket is open.
SwitchRoom(r) ==
  /\ currentRoom' = r
  /\ bubbles' = IF currentRoom = r THEN bubbles ELSE {}
  /\ up' = IF currentRoom # r /\ ws # 0 /\ readyState[ws] = "open"
           THEN [up EXCEPT ![ws] = @ \o <<[type |-> "leave", room |-> currentRoom],
                                          [type |-> "join", room |-> r]>>]
           ELSE up
  /\ missed' = IF currentRoom # r /\ ws # 0 /\ readyState[ws] = "connecting"
               THEN missed \cup {ws} ELSE missed

\* Mutant: the handle is not looked at.
ClearTimerBlind == timers' = timers - 1 /\ reconnTimer' = FALSE

\* if(reconnTimer){clearTimeout(reconnTimer);reconnTimer=null;}
ClearTimer ==
  /\ timers' = IF reconnTimer /\ timers > 0 THEN timers - 1 ELSE timers
  /\ reconnTimer' = FALSE

\* if(ws){wsGeneration++;ws.close();ws=null;}
CloseSocket ==
  /\ ws' = 0
  /\ readyState' = IF ws = 0 THEN readyState ELSE [readyState EXCEPT ![ws] = "closing"]

-----------------------------------------------------------------------------
(* What the user does. *)

\* The two panels: without a token there is only the login form.
Login(k) ==
  /\ Act /\ token = 0 /\ Free(k) /\ issued < MaxToken
  /\ call' = [call EXCEPT ![k] = [Idle EXCEPT !.fn = "login", !.at = "fetch"]]
  /\ overlapped' = (overlapped \/ \E j \in Calls : call[j].fn = "login")
  /\ UNCHANGED <<pageVars, netVars, serverVars, issued, mishaps, missed, untold, stranded>>

\* Mutant: the timer of a lost connection goes on.
LogoutTicking ==
  /\ Act /\ token # 0
  /\ wsGeneration < MaxSocket /\ wsGeneration' = wsGeneration + 1
  /\ token' = 0 /\ currentRoom' = General
  /\ CloseSocket
  /\ bubbles' = {}
  /\ UNCHANGED <<timerVars, call, up, down, serverVars, issued, mishaps, seenVars>>

\* doLogout.
Logout ==
  /\ Act /\ token # 0
  /\ wsGeneration < MaxSocket /\ wsGeneration' = wsGeneration + 1
  /\ token' = 0 /\ currentRoom' = General
  /\ ClearTimer
  /\ CloseSocket
  /\ bubbles' = {}
  /\ UNCHANGED <<call, up, down, serverVars, issued, mishaps, seenVars>>

\* A click on a room in the list, which may be out of date.
ClickRoom(r) ==
  /\ Act /\ token # 0 /\ r # currentRoom
  /\ SwitchRoom(r)
  /\ UNCHANGED <<token, ws, wsGeneration, timerVars, call, readyState, down, serverVars,
                 issued, mishaps, overlapped, untold, stranded>>

\* createRoom and joinFromDiscover ("enter"), leaveRoom and deleteRoom ("exit")
\* start with a fetch.
Start(k, fn, r) ==
  /\ Act /\ token # 0 /\ Free(k)
  /\ call' = [call EXCEPT ![k] = [fn |-> fn, at |-> "fetch", room |-> r, tok |-> token]]
  /\ UNCHANGED <<pageVars, netVars, serverVars, issued, mishaps, seenVars>>

\* doSend.
Send(t) ==
  /\ Act /\ ws # 0 /\ readyState[ws] = "open"
  /\ up' = [up EXCEPT ![ws] = Append(@, [type |-> "send", room |-> currentRoom, text |-> t])]
  /\ UNCHANGED <<pageVars, call, readyState, down, serverVars, issued, mishaps, seenVars>>

-----------------------------------------------------------------------------
(* The rest of the async functions, one await after the other. *)

\* The response to the login has come: the old socket is closed first.
LoginReturns(k) ==
  /\ call[k].fn = "login" /\ call[k].at = "ok"
  /\ ClearTimer
  /\ wsGeneration' = IF ws = 0 THEN wsGeneration ELSE wsGeneration + 1
  /\ wsGeneration' <= MaxSocket
  /\ CloseSocket
  /\ token' = call[k].tok /\ currentRoom' = General
  /\ call' = [call EXCEPT ![k].at = "rooms"]
  /\ UNCHANGED <<bubbles, up, down, serverVars, boundVars, seenVars>>

\* createRoom and joinFromDiscover go on to loadRooms, leaveRoom and deleteRoom
\* switch to general first.
CallReturns(k) ==
  /\ call[k].fn # "login" /\ call[k].at = "ok"
  /\ call' = [call EXCEPT ![k].at = "rooms"]
  /\ IF call[k].fn = "exit" /\ currentRoom = call[k].room
     THEN SwitchRoom(General)
     ELSE UNCHANGED <<currentRoom, bubbles, up, missed>>
  /\ UNCHANGED <<token, ws, wsGeneration, timerVars, readyState, down, serverVars,
                 boundVars, overlapped, untold, stranded>>

\* loadRooms has the list (or no token to ask with).
LoginConnects(k) ==
  /\ call[k].fn = "login" /\ call[k].at = "rooms"
  /\ ConnectWebSocket
  /\ call' = [call EXCEPT ![k] = Idle]
  /\ UNCHANGED <<token, currentRoom, timerVars, bubbles, up, down,
                 joined, tasks, valid, member, log, name, boundVars, seenVars>>

CallEnds(k) ==
  /\ call[k].fn # "login" /\ call[k].at = "rooms"
  /\ call' = [call EXCEPT ![k] = Idle]
  /\ IF call[k].fn = "enter"
     THEN SwitchRoom(call[k].room)
     ELSE UNCHANGED <<currentRoom, bubbles, up, missed>>
  /\ UNCHANGED <<token, ws, wsGeneration, timerVars, readyState, down, serverVars,
                 boundVars, overlapped, untold, stranded>>

\* A fetch fails or is refused, or loadRooms throws: nothing after it is done.
\* Without a token loadRooms fetches nothing; joinFromDiscover still does.
CallFails(k) ==
  /\ call[k].at \in {"fetch", "rooms"}
  /\ call[k].at = "rooms" => token # 0 \/ call[k].fn = "enter"
  /\ call' = [call EXCEPT ![k] = Idle]
  /\ stranded' = (stranded \/ (call[k].fn = "login" /\ call[k].at = "rooms"))
  /\ UNCHANGED <<pageVars, netVars, serverVars, boundVars, overlapped, missed, untold>>

-----------------------------------------------------------------------------
(* Events of a socket. *)

Stale(g) == g # wsGeneration \/ g # ws

\* Mutant: onmessage shows what comes, whatever its room.
ShowAny(m) ==
  bubbles' = IF m.type = "message"
             THEN bubbles \cup {[room |-> m.room, from |-> m.from, view |-> m.view, sent |-> m.sent]}
             ELSE bubbles

\* addBubble of a message of the current room; a room_missing has no user, and
\* addBubble throws.
Show(m) ==
  bubbles' = IF m.type = "message" /\ m.room = currentRoom
             THEN bubbles \cup {[room |-> m.room, from |-> m.from, view |-> m.view, sent |-> m.sent]}
             ELSE bubbles

\* onopen and onmessage.
Receive(g) ==
  /\ readyState[g] \in {"connecting", "open"} /\ down[g] # <<>>
  /\ down' = [down EXCEPT ![g] = Tail(@)]
  /\ LET m == Head(down[g]) IN
     \/ /\ m.type = "open"
        /\ readyState' = [readyState EXCEPT ![g] = "open"]
        /\ UNCHANGED <<currentRoom, bubbles, up, missed>>
     \/ /\ m.type \notin {"open", "deleted"}
        /\ IF Stale(g) THEN UNCHANGED bubbles ELSE Show(m)
        /\ UNCHANGED <<readyState, currentRoom, up, missed>>
     \/ /\ m.type = "deleted"
        /\ IF ~Stale(g) /\ currentRoom = m.room
           THEN SwitchRoom(General)
           ELSE UNCHANGED <<currentRoom, bubbles, up, missed>>
        /\ UNCHANGED readyState
  /\ UNCHANGED <<token, ws, wsGeneration, timerVars, call, serverVars, boundVars,
                 overlapped, untold, stranded>>

\* Mutant: only a socket that has been open is connected again.
OnCloseOnce(g) ==
  /\ readyState[g] \in {"connecting", "open", "closing"} /\ peer[g] = "gone" /\ down[g] = <<>>
  /\ readyState' = [readyState EXCEPT ![g] = "closed"]
  /\ IF Stale(g)
     THEN UNCHANGED <<ws, timerVars>>
     ELSE /\ ws' = 0
          /\ timers' = (IF token # 0 /\ readyState[g] = "open" THEN timers + 1 ELSE timers)
          /\ reconnTimer' = (reconnTimer \/ timers' > timers)
  /\ UNCHANGED <<token, currentRoom, wsGeneration, bubbles, call, up, down, serverVars,
                 boundVars, seenVars>>

\* onclose: try again in two seconds.
OnClose(g) ==
  /\ readyState[g] \in {"connecting", "open", "closing"} /\ peer[g] = "gone" /\ down[g] = <<>>
  /\ readyState' = [readyState EXCEPT ![g] = "closed"]
  /\ IF Stale(g)
     THEN UNCHANGED <<ws, timerVars>>
     ELSE /\ ws' = 0
          /\ timers' = (IF token # 0 THEN timers + 1 ELSE timers)
          /\ reconnTimer' = (reconnTimer \/ token # 0)
  /\ UNCHANGED <<token, currentRoom, wsGeneration, bubbles, call, up, down, serverVars,
                 boundVars, seenVars>>

\* The timer of onclose; reconnTimer keeps its number.
TimerFires ==
  /\ timers > 0
  /\ timers' = timers - 1
  /\ ConnectWebSocket
  /\ UNCHANGED <<reconnTimer, token, currentRoom, bubbles, call, up, down,
                 joined, tasks, valid, member, log, name, boundVars, seenVars>>

-----------------------------------------------------------------------------
(* The server. *)

Frame(r, text, from) ==
  [type |-> "message", room |-> r, from |-> from, view |-> Views[name][text][from],
   sent |-> [user |-> name, text |-> text]]

\* The frames of the history of r.
History(r) == [i \in DOMAIN log[r] |-> Frame(r, log[r][i], "history")]

MayEnter(r) == r = General \/ r \in member

\* The upgrade looks for the token and the membership, or answers 401 or 403.
Admit(g) ==
  /\ peer[g] = "asked"
  /\ \/ url[g].tok \in valid /\ MayEnter(url[g].room) /\ peer' = [peer EXCEPT ![g] = "admitted"]
     \/ (url[g].tok \notin valid \/ ~MayEnter(url[g].room)) /\ peer' = [peer EXCEPT ![g] = "gone"]
  /\ UNCHANGED <<pageVars, call, netVars, url, joined, tasks, valid, member, log, name,
                 boundVars, seenVars>>

\* Of the tasks q about the room r, the eviction is first: the notice has gone to
\* those who were in r then.
Evicting(q, r) ==
  \E i \in DOMAIN q : /\ q[i].type = "evict" /\ q[i].room = r
                     /\ \A j \in 1..(i - 1) : q[j].room # r

\* join_room.
JoinRoom(g, r) ==
  /\ joined' = [joined EXCEPT ![g] = @ \cup {r}]
  /\ untold' = IF Evicting(tasks[g], r) THEN [untold EXCEPT ![g] = @ \cup {r}] ELSE untold

\* 101, join_room and send_history.
Upgrade(g) ==
  /\ peer[g] = "admitted" /\ readyState[g] = "connecting"
  /\ peer' = [peer EXCEPT ![g] = "serving"]
  /\ JoinRoom(g, url[g].room)
  /\ down' = [down EXCEPT ![g] = <<[type |-> "open"]>> \o History(url[g].room)]
  /\ UNCHANGED <<pageVars, call, readyState, up, url, tasks, valid, member, log, name,
                 boundVars, overlapped, missed, stranded>>

\* The message loop, for the oldest frame.
Serve(g) ==
  /\ peer[g] = "serving" /\ up[g] # <<>>
  /\ up' = [up EXCEPT ![g] = Tail(@)]
  /\ LET m == Head(up[g]) IN
     \/ /\ m.type = "leave"
        /\ joined' = [joined EXCEPT ![g] = @ \ {m.room}]
        /\ untold' = [untold EXCEPT ![g] = @ \ {m.room}]
        /\ UNCHANGED <<down, log>>
     \/ /\ m.type = "join"
        /\ JoinRoom(g, m.room)
        /\ down' = [down EXCEPT ![g] = @ \o History(m.room)]
        /\ UNCHANGED log
     \/ /\ m.type = "send" /\ MayEnter(m.room)
        /\ log' = [log EXCEPT ![m.room] = Append(@, m.text)]
        /\ down' = [h \in Sockets |-> IF m.room \in joined[h]
                      THEN Append(down[h], Frame(m.room, m.text, "live")) ELSE down[h]]
        /\ UNCHANGED <<joined, untold>>
     \/ /\ m.type = "send" /\ ~MayEnter(m.room)
        /\ joined' = [joined EXCEPT ![g] = @ \ {m.room}]
        /\ untold' = [untold EXCEPT ![g] = @ \cup {m.room}]
        /\ down' = [down EXCEPT ![g] = Append(@, [type |-> "missing", room |-> m.room])]
        /\ UNCHANGED log
  /\ UNCHANGED <<pageVars, call, readyState, peer, url, tasks, valid, member, name, boundVars,
                 overlapped, missed, stranded>>

Served == {g \in Sockets : peer[g] \in {"admitted", "serving"}}

\* The rows of r are gone.  Clients on the Worker of the request, own, are told and
\* evicted; to the others' Workers go two coroutines, one that tells and one that
\* evicts.  The answer to a membership query that is still to be made comes behind them.
DeleteRoom(r, own) ==
  /\ member' = member \ {r}
  /\ log' = [log EXCEPT ![r] = <<>>]
  /\ down' = [h \in Sockets |-> IF h \in own /\ r \in joined[h]
                THEN Append(down[h], [type |-> "deleted", room |-> r]) ELSE down[h]]
  /\ joined' = [h \in Sockets |-> IF h \in own THEN joined[h] \ {r} ELSE joined[h]]
  /\ tasks' = [h \in Sockets |-> IF h \in Served \ own
                 THEN tasks[h] \o <<[type |-> "deleted", room |-> r], [type |-> "evict", room |-> r]>>
                 ELSE tasks[h]]

\* A Worker resumes local_broadcast_room or local_evict_room.
Resume(g) ==
  /\ tasks[g] # <<>>
  /\ tasks' = [tasks EXCEPT ![g] = Tail(@)]
  /\ LET t == Head(tasks[g]) IN
     \/ /\ t.type = "deleted"
        /\ down' = IF t.room \in joined[g] THEN [down EXCEPT ![g] = Append(@, t)] ELSE down
        /\ UNCHANGED joined
     \/ /\ t.type = "evict"
        /\ joined' = [joined EXCEPT ![g] = @ \ {t.room}]
        /\ UNCHANGED down
  /\ UNCHANGED <<pageVars, call, readyState, up, peer, url, valid, member, log, name,
                 boundVars, seenVars>>

\* The route of a fetch, with the token of the moment it was made.
Answer(k) ==
  /\ call[k].at = "fetch"
  /\ \/ /\ call[k].fn = "login"
        /\ issued < MaxToken
        /\ issued' = issued + 1 /\ valid' = valid \cup {issued + 1}
        /\ call' = [call EXCEPT ![k].at = "ok", ![k].tok = issued + 1]
        /\ UNCHANGED <<down, joined, tasks, member, log, mishaps>>
     \/ /\ call[k].fn # "login" /\ call[k].tok \in valid
        /\ call' = [call EXCEPT ![k].at = "ok"]
        /\ \/ call[k].fn = "enter" /\ member' = member \cup {call[k].room}
              /\ UNCHANGED <<down, joined, tasks, log, mishaps>>
           \/ call[k].fn = "exit" /\ member' = member \ {call[k].room}
              /\ UNCHANGED <<down, joined, tasks, log, mishaps>>
           \/ call[k].fn = "exit" /\ Mishap
              /\ \E own \in SUBSET Served : DeleteRoom(call[k].room, own)
        /\ UNCHANGED <<issued, valid>>
  /\ UNCHANGED <<pageVars, readyState, up, peer, url, name, acts, seenVars>>

\* Its owner deletes a room.
OwnerDeletes(r) ==
  /\ Mishap /\ r \in member
  /\ \E own \in SUBSET Served : DeleteRoom(r, own)
  /\ UNCHANGED <<pageVars, call, readyState, up, peer, url, valid, name, issued, acts, seenVars>>

\* The hour of a token is over.
TokenEnds(t) ==
  /\ Mishap /\ t \in valid
  /\ valid' = valid \ {t}
  /\ UNCHANGED <<pageVars, call, netVars, peer, url, joined, tasks, member, log, name,
                 issued, acts, seenVars>>

\* What still waits on the Worker finds no client.
Gone(g) ==
  /\ peer' = [peer EXCEPT ![g] = "gone"]
  /\ joined' = [joined EXCEPT ![g] = {}]
  /\ up' = [up EXCEPT ![g] = <<>>]
  /\ down' = [down EXCEPT ![g] = <<>>]
  /\ tasks' = [tasks EXCEPT ![g] = <<>>]
  /\ UNCHANGED <<pageVars, call, readyState, url, valid, member, log, name,
                 issued, acts, seenVars>>

\* The page has closed the socket; or the connection breaks.
ServerEnds(g) == g \in Served /\ readyState[g] = "closing" /\ Gone(g) /\ UNCHANGED mishaps
Lose(g) ==
  /\ Mishap /\ (peer[g] = "asked" \/ g \in Served)
  /\ Gone(g)

-----------------------------------------------------------------------------
User ==
  \/ \E k \in Calls : Login(k)
  \/ Logout
  \/ \E r \in AllRooms : ClickRoom(r)
  \/ \E k \in Calls, fn \in {"enter", "exit"}, r \in Rooms : Start(k, fn, r)
  \/ \E t \in Texts : Send(t)

Page ==
  \/ \E k \in Calls : LoginReturns(k) \/ CallReturns(k) \/ LoginConnects(k) \/ CallEnds(k)
  \/ \E g \in Sockets : Receive(g) \/ OnClose(g)
  \/ TimerFires

Server ==
  \/ \E g \in Sockets : Admit(g) \/ Upgrade(g) \/ Serve(g) \/ Resume(g) \/ ServerEnds(g)
  \/ \E k \in Calls : Answer(k)

World ==
  \/ \E g \in Sockets : Lose(g)
  \/ \E r \in Rooms : OwnerDeletes(r)
  \/ \E t \in 1..MaxToken : TokenEnds(t)
  \/ \E k \in Calls : CallFails(k)

Next == User \/ Page \/ Server \/ World

Spec == Init /\ [][Next]_vars

\* The browser runs what is due and the server answers.
FairSpec == Spec /\ WF_vars(Page) /\ WF_vars(Server)

-----------------------------------------------------------------------------
(* Properties. *)

TypeOK ==
  /\ token \in 0..MaxToken /\ currentRoom \in AllRooms
  /\ ws \in 0..wsGeneration /\ wsGeneration \in 0..MaxSocket
  /\ timers \in Nat /\ reconnTimer \in BOOLEAN
  /\ valid \subseteq 1..issued /\ member \subseteq Rooms
  /\ \A g \in Sockets :
       /\ readyState[g] \in {"none", "connecting", "open", "closing", "closed"}
       /\ peer[g] \in {"none", "asked", "admitted", "serving", "gone"}
       /\ joined[g] \subseteq AllRooms
       /\ g > wsGeneration => readyState[g] = "none"

Live == {g \in Sockets : readyState[g] \in {"connecting", "open"}}

\* Unless two logins were in flight at once, the page has one socket at most, the
\* one in ws; while a reconnection is due it has none, and without a token none
\* is due (chat_page.h:319-322, 347-348, 366-369).
OneSocket ==
  ~overlapped => /\ Live \subseteq {ws}
                 /\ timers > 0 => timers = 1 /\ Live = {} /\ token # 0

\* When all frames to the server have been served and no notice that the room shown
\* is gone is on its way, the open socket is in that room and in no other, unless the
\* user switched while it was still connecting (chat_page.h:437).  It may be in none
\* only where the server has it leave with no word: its join was served between the
\* notice and the eviction of a deleted room, two coroutines on its Worker
\* (chat_app.h:718-719), or all it got was a room_missing (chat_page.h:314).
RoomAgrees ==
  (/\ ws # 0 /\ ws \notin missed
   /\ readyState[ws] = "open" /\ peer[ws] = "serving" /\ up[ws] = <<>>
   /\ \A i \in DOMAIN down[ws] :
        down[ws][i].type = "deleted" => down[ws][i].room # currentRoom)
  => \/ joined[ws] = {currentRoom}
     \/ joined[ws] = {} /\ currentRoom \in untold[ws]

\* The messages shown are those of the room the page is in, and without a login
\* none are, whatever was in flight when the room or the user changed.
ShowsRoom ==
  ~overlapped => /\ \A b \in bubbles : b.room = currentRoom
                 /\ token = 0 => bubbles = {}

\* A message looks as it was typed, live or from the history, unless a control
\* character was typed or pasted, of which extract_json_field keeps the letter behind
\* the backslash (chat_app.h:185-186); from the history also unless the name has a
\* bar (chat_app.h:355-360).
ShownAsTyped ==
  \A b \in bubbles :
    (/\ Range(b.sent.text) \cap Control = {}
     /\ b.from = "history" => "bar" \notin Range(b.sent.user))
    => b.view = b.sent

\* As long as the user stays logged in, the page comes to have an open socket,
\* unless the token has run out, the room may not be entered any more, or
\* loadRooms threw in doLogin and connectWebSocket was never reached.
Reconnects ==
  []<>(\/ token = 0 \/ token \notin valid \/ ~MayEnter(currentRoom) \/ stranded
       \/ wsGeneration = MaxSocket
       \/ ws # 0 /\ readyState[ws] = "open")
=============================================================================
