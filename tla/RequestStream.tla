---------------------------- MODULE RequestStream ----------------------------
(***************************************************************************)
(* What the reader of a connection promises: what the client sends, HTTP    *)
(* requests and then WebSocket frames, is taken one at a time, in order,    *)
(* none skipped, repeated or mixed with its neighbours, however the bytes   *)
(* are cut into segments, until the connection ends.                        *)
(***************************************************************************)
EXTENDS Sequences, Naturals

CONSTANTS Conn, NoItem

VARIABLES
  todo,  \* todo[c]: sent and not yet taken
  cur,   \* cur[c]: what is being worked on
  over   \* the connections that have ended

vars == <<todo, cur, over>>

Init ==
  /\ todo = [c \in Conn |-> <<>>]
  /\ cur = [c \in Conn |-> NoItem]
  /\ over = {}

Ask(c) ==
  /\ c \notin over
  /\ Len(todo'[c]) = Len(todo[c]) + 1
  /\ todo' = [todo EXCEPT ![c] = Append(@, todo'[c][Len(todo'[c])])]
  /\ UNCHANGED <<cur, over>>

Take(c) ==
  /\ c \notin over /\ cur[c] = NoItem /\ todo[c] # <<>>
  /\ cur' = [cur EXCEPT ![c] = Head(todo[c])]
  /\ todo' = [todo EXCEPT ![c] = Tail(@)]
  /\ UNCHANGED over

Done(c) ==
  /\ cur[c] # NoItem
  /\ cur' = [cur EXCEPT ![c] = NoItem]
  /\ UNCHANGED <<todo, over>>

End(c) ==
  /\ over' = over \cup {c}
  /\ cur' = [cur EXCEPT ![c] = NoItem]
  /\ todo' = [todo EXCEPT ![c] = <<>>]

Next == \E c \in Conn : Ask(c) \/ Take(c) \/ Done(c) \/ End(c)

Spec == Init /\ [][Next]_vars
=============================================================================
