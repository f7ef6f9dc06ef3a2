SPECIFICATION MCSpec
CONSTANTS
    a = a  b = b  n = n  x = x
    png = png  gif = gif  jpg = jpg  jxl = jxl
    cat = cat  sky = sky  dog = dog  h = h  g = g
    Parts = {"tasks", "merges", "signatures", "responses"}
    Posts = {1, 2}
    Contents <- MCContents
    Mimes <- MCMimes
    MimeOf <- MCMimeOf
    Inspected = {gif}
    Broken = {x}
    Formats = {jpg, jxl}
    Configured = jpg
    Starts <- MCStarts
    Uploads = {n}
    Tasks = {"check_integrity", "recompute_checksums", "recompute_signatures", "recompute_index", "recompute_post_types", "calculate_phash", "recalculate_phash_total", "regenerate_thumbnails", "regenerate_thumbnails_force", "reset_filenames", "reset_thumbnail_sizes"}
    Ops = {"edit", "replace", "delete"}
    Workers = {w1, w2}
    Chunk = 1
    MaxPasses = 2
    MaxRequests = 1
    Crashes = TRUE
    MaxTasks = 2
    MaxChanges = 1
    MaxEdits = 2
    Panic = Panic
    Old = Old
    None = None
SYMMETRY WorkerSymmetry
\* Every task ends, requests are bounded, an image is compared and a response answered once.
CHECK_DEADLOCK FALSE
INVARIANTS TypesOK ColumnsCurrent BestKept SignaturesSound ResponsesOwn
PROPERTIES PassRepairs
