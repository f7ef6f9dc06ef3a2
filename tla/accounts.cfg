SPECIFICATION MCSpec
CONSTANTS
    Parts = {"users", "credentials", "statistics", "search"}
    a = a  b = b  x = x  guest = guest
    Reqs = {r1, r2}
    Asked <- MCAsked
    MaxReqs = 5
    MaxId = 3
    Names = {a, b}
    Pics = {x}
    MaxRank = 3
    DefaultRank = 1
    Privilege <- MCPrivilege
    k1 = k1  k2 = k2
    Holders = {1, 2}
    Uuids = {k1, k2}
    MaxAsks = 2
    MaxDraw = 3
    p = p  t = t  s = s  u = u  v = v
    MaxChanges = 2
    Resets = TRUE
    None = None
SYMMETRY ReqSymmetry
\* Requests need not come, and a behaviour has no more than its bound of them.
CHECK_DEADLOCK FALSE
INVARIANTS TypesOK AvatarFollowsUser StatisticsExact ListsExact NeighborsAdjacent
PROPERTIES FirstUserAlone RanksRespected RevocationHolds
