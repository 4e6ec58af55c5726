CONSTANTS
    w1 = w1  w2 = w2  c1 = c1  c2 = c2  q1 = q1  q2 = q2  q3 = q3  u1 = u1  u2 = u2
    Workers = {w1, w2}
    Conns = {c1, c2}
    Requests = {q1}
    Users = {u1}
    team = team  general = general  rest = rest  none = none
    Groups = {team}
    General = general
    Rest = rest
    None = none
    HomeOf <- Home
    UserOf <- User
    Keep = 1
    Recent = 1
    MaxSend <- Sends
    MaxMove <- Moves
    Frail = {c2, q1}
SPECIFICATION Spec
INVARIANTS TypeOK RegistryAgrees NoGap SenderOrder ListBounded ToldBeforeEvicted
CHECK_DEADLOCK FALSE
