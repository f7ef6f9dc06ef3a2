\* One client searches with the token of an upload, then creates with it.
SPECIFICATION Spec
CONSTANTS
    Tokens = {t1, t2}
    Shrinking = {t1}
    Reqs = {r1}
    MaxSize = 1
    CacheSize = 1
    MaxCrashes = 0
    None = None
INVARIANT TokenUsable
