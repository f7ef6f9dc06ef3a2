SPECIFICATION MCSpec
CONSTANTS
    Reqs = {r1, r2}
    MaxId = 3
    Tasks = {t1, t2, t3}
    Locks = {"tag", "delete"}
    Workers = 1
    Nobody = Nobody
\* Once MaxId snapshots are inserted and every client is silent, nothing happens.
CHECK_DEADLOCK FALSE
INVARIANTS TypesOK GetsServed OneAtATime
PROPERTIES FeedSpec NothingLeftBehind EveryRequestEnds Served
