SPECIFICATION MCSpec
CONSTANTS
    p1 = p1  p2 = p2  p3 = p3
    cat = cat  dog = dog  png = png  jxl = jxl
    upload = upload
    Posts = {p1, p2}
    Existing = {p1, p2}
    Pics <- MCPics
    Mimes <- MCMimes
    Jxl = jxl
    Tokens <- MCTokens
    TokenFile <- MCTokenFile
    StartRow <- MCStartRow
    Reqs = {r1, r2}
    Ops = {"convert"}
    Parts = {"requests"}
    RequestOps = {"convert"}
    UploadOps = {}
    CleanerOps = {}
    MaxRequests = 0
    DeleteSourceFiles = TRUE
    NoRow = NoRow  NoFile = NoFile  Unset = Unset
SYMMETRY ReqSymmetry
\* Requests and uploads need not come: nothing obliges a client to act.
CHECK_DEADLOCK FALSE
INVARIANTS ServedWhenIdle
