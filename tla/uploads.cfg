\* Two requests on two tokens, one of which (t1) is for content worth transcoding.
SPECIFICATION Spec
CONSTANTS
    Tokens = {t1, t2}
    Shrinking = {t1}
    Reqs = {r1, r2}
    MaxSize = 1
    CacheSize = 1
    MaxCrashes = 1
    None = None
INVARIANTS TypeOK OwnFileSurvives KeptTokenUsable
PROPERTY LeftoversSwept
