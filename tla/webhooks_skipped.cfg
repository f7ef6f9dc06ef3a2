SPECIFICATION Spec
CONSTANTS
    Reqs = {r1, r2}
    MaxId = 3
\* Once MaxId snapshots are inserted and every client is silent, nothing happens.
CHECK_DEADLOCK FALSE
PROPERTIES EveryEventAnnounced
