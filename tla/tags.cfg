SPECIFICATION MCSpec
CONSTANTS
    sky = sky  blue = blue  sea = sea  p = p  q = q
    Names = {sky, blue, sea}
    NameLists <- MCNameLists
    NameSets <- MCNameSets
    MaxTag = 3
    MaxReqs = 3
    Posts = {p, q}
    Reqs = {r1, r2}
    Ops = {"create", "rename", "update", "tag", "merge", "delete"}
    StartRows <- MCStart
    main = main  other = other  more = more  tag = tag
    CategoryNames = {main, other, more}
    NewNames = {more}
    CategoryTags = {tag}
    MaxId = 2
    a = a  b = b  c = c  k1 = k1  k2 = k2  user = user  text1 = text1  text2 = text2
    Calls = {r1, r2}
    MaxCalls = 3
    PostIds = {a, b, c}  PoolIds = {k1, k2}  Owners = {user}  Texts = {text1, text2}
    PostLists <- MCPostLists
    PostSets <- MCPostSets
    Unseen = {c}
    FirstLinks <- MCLinks
    CallKinds = {"upload", "relate", "merge posts", "delete", "mark", "remark", "create pool",
                 "edit pool", "merge pools"}
    PoolKinds = {"delete", "edit pool", "merge pools"}
    LinkKinds = {"upload", "relate", "merge posts", "delete", "mark", "remark", "create pool"}
    None = None  Empty = Empty
SYMMETRY ReqSymmetry
\* Requests need not come, and a behaviour has no more than MaxReqs.
CHECK_DEADLOCK FALSE
INVARIANTS TypesOK CheckedAcyclic TagsHavePrimaryName RowsRegular
PROPERTIES EditsComplete MergeKeepsUsages CategoriesByName ListsKept PostMergeKeepsLinks
