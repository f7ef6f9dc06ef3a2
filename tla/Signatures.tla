----------------------------- MODULE Signatures -----------------------------
(***************************************************************************)
(* The signature that reverse search compares images by                    *)
(* (content/signature.rs), with the intervals, rectangles and products it  *)
(* is computed with (math/).  One action per stage: an image is cropped    *)
(* and a grid laid over it, the mean intensity around every grid point is  *)
(* measured, neighbors are compared, the differences become symbols, which *)
(* are compressed for the database and indexed by words; then the image is *)
(* compared with another one.                                              *)
(*                                                                         *)
(* An image has intensities at <<x, y>>.  Floating-point numbers are kept  *)
(* as fractions; a subtraction of unsigned numbers that would go below     *)
(* zero is a panic, as the conversion after it is where they wrap.         *)
(***************************************************************************)
EXTENDS Integers, SequencesExt

CONSTANTS
    Uploaded,     \* [w, h, at]: what is uploaded
    Others,       \* what it is compared with
    CropPercentile, GridSize, GridDivisor, Tolerance, LuminanceLevels,
    NumWords, NumLetters, SignatureDigits,
    None

NumSymbols   == 2 * LuminanceLevels + 1
SignatureLen == 8 * (GridSize - 2) * (GridSize - 2) + 20 * (GridSize - 2) + 12

Sum(s) == FoldSeq(+, 0, s)
Square(n) == n * n
AbsDiff(a, b) == IF a < b THEN b - a ELSE a - b

-----------------------------------------------------------------------------
(* Intervals and rectangles. *)

Interval(min, max) == [start |-> min, end |-> max + 1]
is_empty_set(i) == i.start >= i.end
length(i) == IF is_empty_set(i) THEN 0 ELSE i.end - i.start
midpoint(i) == i.start + (i.end - i.start) \div 2
contains(i, n) == i.start <= n /\ n < i.end

Later(a, b) == IF a < b THEN b ELSE a
Sooner(a, b) == IF a < b THEN a ELSE b
Meet(a, b) == [start |-> Later(a.start, b.start), end |-> Sooner(a.end, b.end)]

\* n points evenly spaced, each rounded, halves up.
linspace(i, n) ==
    IF n = 1 THEN <<midpoint(i)>>
    ELSE LET gaps == n - 1
             span == i.end - 1 - i.start
         IN  [k \in 1..n |-> (2 * (i.start * gaps + (k - 1) * span) + gaps) \div (2 * gaps)]

\* The upper end is moved, as if the lower one were the border.
ShrinkUpper(i, n) ==
    LET s == [start |-> i.start, end |-> Later(i.end - n, 0)]
    IN  IF is_empty_set(s) THEN Interval(i.start, i.start) ELSE s

\* Both ends are moved, the upper not below zero; what is left is a point at least.
shrink(i, n) ==
    LET s == [start |-> i.start + n, end |-> Later(i.end - n, 0)]
        middle == s.end + (s.start - s.end) \div 2
    IN  IF is_empty_set(s) THEN Interval(middle, middle) ELSE s

Rect(i, j) == [i |-> i, j |-> j]
ZeroBased(i, j) == Rect(Interval(0, i), Interval(0, j))
Around(p, radius) == Rect(Interval(p[1] - radius, p[1] + radius), Interval(p[2] - radius, p[2] + radius))
Intersection(a, b) == Rect(Meet(a.i, b.i), Meet(a.j, b.j))
total_points(r) == length(r.i) * length(r.j)
Within(r, p) == contains(r.i, p[1]) /\ contains(r.j, p[2])

\* Points are ordered by the first coordinate.
Past(p, q) == p[1] > q[1] \/ (p[1] = q[1] /\ p[2] > q[2])

\* The points of a rectangle, as the iterator comes by them.
iter(r) ==
    LET corner == <<r.i.end - 1, r.j.end - 1>>
        next(p) == IF p[2] < corner[2] THEN <<p[1], p[2] + 1>> ELSE <<p[1] + 1, r.j.start>>
        step(walk, k) == IF Past(walk.at, corner) THEN walk
                         ELSE [seen |-> Append(walk.seen, walk.at), at |-> next(walk.at)]
        steps == length(r.i) * Later(length(r.j), 1)
    IN  FoldLeft(step, [seen |-> << >>, at |-> <<r.i.start, r.j.start>>],
                 [k \in 1..steps |-> k]).seen

Grid == ZeroBased(GridSize - 1, GridSize - 1)

\* The product of two sequences, in the order of its indices.
Product(left, right) ==
    LET indices == iter(ZeroBased(Len(left) - 1, Len(right) - 1))
    IN  [k \in DOMAIN indices |-> <<left[indices[k][1] + 1], right[indices[k][2] + 1]>>]

-----------------------------------------------------------------------------
(* From the image to differences. *)

column_deltas(m) ==
    [x \in 1..m.w - 1 |-> Sum([y \in 1..m.h |-> AbsDiff(m.at[<<x - 1, y - 1>>], m.at[<<x, y - 1>>])])]
row_deltas(m) ==
    [y \in 1..m.h - 1 |-> Sum([x \in 1..m.w |-> AbsDiff(m.at[<<x - 1, y - 1>>], m.at[<<x - 1, y>>])])]

\* How many deltas make up the percentile.
crop_position(deltas, total) ==
    LET reached == {p \in 0..Len(deltas) :
                      Sum(SubSeq(deltas, 1, p)) >= (CropPercentile * total) \div 100}
    IN  CHOOSE p \in reached : \A q \in reached : p <= q

\* The upper position is subtracted from the last index of a delta, and there are as many positions
\* as deltas and one more.
crop(deltas) ==
    LET lower == crop_position(deltas, Sum(deltas))
        upper == Later(Len(deltas) - 1, 0) - crop_position(Reverse(deltas), Sum(deltas))
    IN  IF upper < 0 THEN None ELSE Interval(lower, upper)

\* (0.5 + length / 20) / 2, without its fraction.
grid_radius(x, y) == (GridDivisor \div 2 + Sooner(length(x), length(y))) \div (2 * GridDivisor)

compute_grid_points(m) ==
    LET across == crop(column_deltas(m))
        down   == crop(row_deltas(m))
        radius == grid_radius(across, down)
    IN  IF None \in {across, down} THEN None
        ELSE [radius |-> radius,
              points |-> Product(linspace(shrink(across, radius), GridSize),
                                 linspace(shrink(down, radius), GridSize))]

ImageBounds(m) == ZeroBased(m.w - 1, m.h - 1)

\* The sum is over the part of the square that is in the image, the average over all of it.
intensity(m, center, radius) ==
    LET pixels == iter(Intersection(Around(center, radius), ImageBounds(m)))
    IN  Sum([k \in DOMAIN pixels |-> m.at[pixels[k]]]) \div total_points(Around(center, radius))

compute_intensity_matrix(m, g) ==
    LET indices == iter(Grid)
    IN  [p \in {indices[k] : k \in DOMAIN indices} |->
            intensity(m, g.points[CHOOSE k \in DOMAIN indices : indices[k] = p], g.radius)]

compute_differences(matrix) ==
    LET indices == iter(Grid)
        neighbors(p) == SelectSeq(iter(Around(p, 1)), LAMBDA q : q # p /\ Within(Grid, q))
    IN  FlattenSeq([k \in DOMAIN indices |->
            LET p == indices[k]
            IN  [n \in DOMAIN neighbors(p) |-> matrix[neighbors(p)[n]] - matrix[p]]])

-----------------------------------------------------------------------------
(* From differences to symbols, and what is stored. *)

Piece(s, size, k) == SubSeq(s, (k - 1) * size + 1, Sooner(k * size, Len(s)))
Chunks(s, size) == [k \in 1..(Len(s) + size - 1) \div size |-> Piece(s, size, k)]

\* The greatest values of equal shares, after the missing ones if there are too few.
compute_cutoffs(kept) ==
    LET sorted == SortSeq(kept, <)
        share  == Later((Len(sorted) + LuminanceLevels - 1) \div LuminanceLevels, 1)
        chunks == Chunks(sorted, share)
        padded == [k \in 1..Later(LuminanceLevels - Len(sorted), 0) |-> None]
                  \o [k \in DOMAIN chunks |-> Last(chunks[k])]
    IN  [k \in 1..LuminanceLevels |-> IF k \in DOMAIN padded THEN padded[k] ELSE None]

cutoffs(differences) ==
    compute_cutoffs(SelectSeq(differences, LAMBDA d : d < -Tolerance))
    \o <<Tolerance>> \o compute_cutoffs(SelectSeq(differences, LAMBDA d : d > Tolerance))

\* None if no cutoff is above the difference: a panic.
symbol(cut, d) ==
    LET above == {k \in DOMAIN cut : cut[k] # None /\ d <= cut[k]}
    IN  IF above = {} THEN None ELSE (CHOOSE k \in above : \A l \in above : k <= l) - 1

normalize(differences) ==
    LET cut == cutoffs(differences)
    IN  [k \in DOMAIN differences |-> symbol(cut, differences[k])]

\* The digits of a number, the lowest first.
Digits(s, base) == Sum([k \in DOMAIN s |-> s[k] * base ^ (k - 1)])

compress(signature) ==
    LET chunks == Chunks(signature, SignatureDigits)
    IN  [k \in DOMAIN chunks |-> Digits(chunks[k], NumSymbols)]

uncompress(compressed) ==
    LET all == FlattenSeq([c \in DOMAIN compressed |->
                   [k \in 1..SignatureDigits |-> (compressed[c] \div NumSymbols ^ (k - 1)) % NumSymbols]])
    IN  SubSeq(all, 1, SignatureLen)

\* How many base-3 digits the number of a word takes.
NumWordDigits == CHOOSE n \in 1..NumWords : 3 ^ n > NumWords /\ 3 ^ (n - 1) <= NumWords

Clamped(symb) == Later(0, Sooner(symb - LuminanceLevels + 1, 2))

\* Words may overlap; each has its number in the lowest digits.
generate_indexes(compressed) ==
    LET signature == uncompress(compressed)
        positions == linspace(Interval(0, Len(signature) - NumLetters), NumWords)
        letters(w) == [k \in 1..NumLetters |-> Clamped(signature[positions[w] + k])]
    IN  [w \in 1..NumWords |-> w - 1 + 3 ^ NumWordDigits * Digits(letters(w), 3)]

norm2(signature) == Sum([k \in DOMAIN signature |-> Square(signature[k] - LuminanceLevels)])

\* Squares of what the distance is a quotient of.
distance2(a, b) ==
    [apart |-> Sum([k \in DOMAIN a |-> Square(a[k] - b[k])]), left |-> norm2(a), right |-> norm2(b)]

\* The signature of another image that was stored before, if it has one.
SignatureOf(m) ==
    LET laid == compute_grid_points(m)
    IN  IF laid = None THEN None
        ELSE normalize(compute_differences(compute_intensity_matrix(m, laid)))

-----------------------------------------------------------------------------
VARIABLES
    image,        \* what was uploaded
    stage,        \* how far it has come
    grid,         \* grid points and their radius
    matrix,       \* mean intensities
    differences,  \* of neighbors
    signature,    \* symbols
    stored,       \* as it is stored
    other,        \* the signature it is compared with
    distance      \* from that

signVars == <<image, stage, grid, matrix, differences, signature, stored, other, distance>>

SignInit ==
    /\ image \in Uploaded /\ stage = "decoded"
    /\ grid = None /\ matrix = None /\ differences = << >> /\ signature = << >>
    /\ stored = << >> /\ other = << >> /\ distance = None

Stage(from, to) == stage = from /\ stage' = to

Crop ==
    /\ stage = "decoded"
    /\ grid' = compute_grid_points(image)
    /\ stage' = IF grid' = None THEN "panicked" ELSE "cropped"
    /\ UNCHANGED <<image, matrix, differences, signature, stored, other, distance>>

Measure ==
    /\ Stage("cropped", "measured")
    /\ matrix' = compute_intensity_matrix(image, grid)
    /\ UNCHANGED <<image, grid, differences, signature, stored, other, distance>>

Compare ==
    /\ Stage("measured", "compared")
    /\ differences' = compute_differences(matrix)
    /\ UNCHANGED <<image, grid, matrix, signature, stored, other, distance>>

Normalize ==
    /\ Stage("compared", "normalized")
    /\ signature' = normalize(differences)
    /\ UNCHANGED <<image, grid, matrix, differences, stored, other, distance>>

Store ==
    /\ Stage("normalized", "stored")
    /\ stored' = compress(signature)
    /\ UNCHANGED <<image, grid, matrix, differences, signature, other, distance>>

\* A reverse search for another image comes by this one.
Search ==
    /\ Stage("stored", "found")
    /\ \E m \in Others \cup {image} :
        /\ SignatureOf(m) # None
        /\ other' = uncompress(compress(SignatureOf(m)))
        /\ distance' = distance2(other', uncompress(stored))
    /\ UNCHANGED <<image, grid, matrix, differences, signature, stored>>

SignNext == Crop \/ Measure \/ Compare \/ Normalize \/ Store \/ Search

SignSpec == SignInit /\ [][SignNext]_signVars

-----------------------------------------------------------------------------
(* Properties.                                                              *)

Reached(s) ==
    LET stages == <<"decoded", "cropped", "measured", "compared", "normalized", "stored", "found">>
    IN  stage \in {stages[k] : k \in {n \in DOMAIN stages : \E l \in 1..n : stages[l] = s}}

\* "Adjust cropped bounds so that grid squares won't protrude into image borders"
\* (compute_grid_points), however little of the image is left by cropping.
SquaresInside ==
    Reached("cropped") => \A k \in DOMAIN grid.points :
        LET square == Around(grid.points[k], grid.radius)
        IN  Intersection(square, ImageBounds(image)) = square

\* Every pair of neighbors has a symbol: it tells darker, alike and lighter apart,
\* and a greater difference never has a lower one.
SymbolsInOrder ==
    Reached("normalized") =>
        /\ Len(differences) = SignatureLen
        /\ \A k \in 1..SignatureLen :
              LET d == differences[k]
                  s == signature[k]
              IN  /\ s \in 0..NumSymbols - 1
                  /\ d < -Tolerance <=> s < LuminanceLevels
                  /\ d > Tolerance <=> s > LuminanceLevels
                  /\ \A l \in 1..SignatureLen : d <= differences[l] => s <= signature[l]

\* What is stored is the signature, and words are the same only if their number is and
\* their letters are, as far as clamping leaves them.
NothingLost ==
    Reached("stored") =>
        /\ uncompress(stored) = signature
        /\ LET words == generate_indexes(stored)
               positions == linspace(Interval(0, SignatureLen - NumLetters), NumWords)
           IN  \A w \in 1..NumWords :
                 /\ positions[w] + NumLetters <= SignatureLen
                 /\ \A v \in 1..NumWords : words[v] = words[w] => v = w
                 /\ \A k \in 1..NumLetters :
                      (words[w] \div 3 ^ (NumWordDigits + k - 1)) % 3 = Clamped(signature[positions[w] + k])

\* "Result is a number in the interval [0, 1]" (distance), and an image that is
\* in the database already is found with distance 0.
DistanceInUnit ==
    Reached("found") =>
        LET excess == distance.apart - distance.left - distance.right
        IN  /\ excess <= 0 \/ Square(excess) <= 4 * distance.left * distance.right
            /\ distance.apart = 0 <=> other = signature

SignaturesSound == SquaresInside /\ SymbolsInOrder /\ NothingLost /\ DistanceInUnit

-----------------------------------------------------------------------------
(* What the code says of itself and does not do. *)

\* "Crop upper bound is less than image width/height" (crop): every image has a signature.
EveryImageCropped == stage # "panicked"
=============================================================================
