SPECIFICATION MCSpec
CONSTANTS
    Parts = {"statistics"}
    a = a  b = b  x = x
    Reqs = {r1, r2}
    Asked <- MCAsked
    MaxReqs = 5
    MaxId = 3
    Names = {a, b}
    Pics = {x}
    MaxRank = 3
    DefaultRank = 1
    Privilege <- MCPrivilege
    k1 = k1  k2 = k2  guest = guest
    Holders = {1, 2}
    Uuids = {k1, k2}
    MaxAsks = 2
    MaxDraw = 3
    p = p  t = t  s = s  u = u  v = v
    MaxChanges = 0
    Resets = TRUE
    None = None
\* Requests need not come, and a behaviour has no more than its bound of them.
CHECK_DEADLOCK FALSE
INVARIANT StatisticsReset
