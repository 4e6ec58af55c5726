---------------------------- MODULE MCConnection ----------------------------
(* Two connections on one Worker, and a few things their clients may send.    *)
EXTENDS Connection, TLC

CONSTANTS c1, c2, t1, t2, u1, u2, p1, p2

Post(k, u, p) ==
  [kind |-> k, user |-> u, password |-> p, tok |-> NoToken, keep |-> TRUE]
Get(k) ==
  [kind |-> k, user |-> NoUser, password |-> NoPassword, tok |-> NoToken, keep |-> TRUE]
Last(x) == [x EXCEPT !.keep = FALSE]
Frame(k, long, size) ==
  [kind |-> k, long |-> long, size |-> size, tok |-> NoToken]

Scenario(table, tokens, s, t) ==
  [users |-> table, tokens |-> tokens, script |-> (c1 :> s) @@ (c2 :> t)]

Nobody == [u \in User |-> NoPassword]
Two == (u1 :> p1) @@ (u2 :> p2)

NoTokens == [t \in Token |-> NoUser]
Hers == [t \in Token |-> IF t = t2 THEN u2 ELSE NoUser]

MCScenarios == {
  \* two people want one name
  Scenario(Nobody, NoTokens, <<Post("register", u1, p1)>>,
                             <<Post("register", u1, p2), Post("login", u1, p2)>>),
  \* a login, and two users with their tokens
  Scenario(Two, Hers, <<Post("login", u1, p1), Get("check")>>, <<Get("check")>>),
  \* pipelining, a request that is none, and one after the last
  Scenario(Two, NoTokens, <<Post("login", u1, p2), Last(Get("page")), Get("page")>>,
                          <<Get("page"), Post("register", u1, p2), Get("bad")>>),
  \* WebSocket
  Scenario(Two, Hers, <<Get("upgrade"), Frame("text", TRUE, 2), Frame("text", FALSE, 0),
                        Frame("ping", FALSE, 0), Frame("close", FALSE, 0)>>,
                      <<>>)}
=============================================================================
