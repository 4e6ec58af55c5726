CONSTANTS
    w1 = w1  w2 = w2  c1 = c1  c2 = c2  q1 = q1  q2 = q2  q3 = q3  u1 = u1  u2 = u2
    Workers = {w1, w2}
    Conns = {}
    Requests = {q1, q2, q3}
    Users = {u1, u2}
    team = team  general = general  rest = rest  none = none
    Groups = {team}
    General = general
    Rest = rest
    None = none
    HomeOf <- Home
    UserOf <- User
    Keep = 1
    Recent = 1
    MaxSend <- NoSend
    MaxMove <- NoMove
    Frail = {}
SPECIFICATION Spec
PROPERTY OwnerDeletes
CHECK_DEADLOCK FALSE
