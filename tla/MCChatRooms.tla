----------------------------- MODULE MCChatRooms -----------------------------
(* Small instances of ChatRooms: two Workers, two users. *)
EXTENDS ChatRooms

CONSTANTS w1, w2, c1, c2, q1, q2, q3, u1, u2, team, general, rest, none

Home == [a \in Actors |-> IF a \in {c1, q1} THEN w1 ELSE w2]
Moves == [c \in Conns |-> IF c = c2 THEN 1 ELSE 0]
Sends == [a \in Actors |-> IF a = c1 THEN 2 ELSE IF a = q1 THEN 1 ELSE 0]
OneSend == [a \in Actors |-> IF a = c1 THEN 1 ELSE 0]
NoMove == [c \in Conns |-> 0]
NoSend == [a \in Actors |-> 0]
User == [a \in Actors |-> IF a = q2 THEN u2 ELSE u1]

=============================================================================
