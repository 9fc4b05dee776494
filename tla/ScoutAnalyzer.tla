---------------------------- MODULE ScoutAnalyzer ----------------------------
(***************************************************************************)
(* The measurement of one frame (services/vision/src/ScoutAnalyzer.cpp):   *)
(* uneven light, threshold, connected components, holes, and which blobs   *)
(* are the reference square and the subject.                               *)
(*                                                                         *)
(* A pixel is its index in the row-major frame, from 0.  Lengths in pixels *)
(* are in fifths, those in millimetres in hundredths.  The sweep for the   *)
(* smallest width goes through the directions whose sine and cosine are    *)
(* fifths; the code takes 180.  What surface the least squares give is     *)
(* left open (LeastSquares): levels in hundredths, one for every pixel, or *)
(* none when the equations are degenerate.                                 *)
(***************************************************************************)
EXTENDS Observation

CONSTANTS
  MinBlobArea,   \* kMinBlobAreaPx (64)
  MinSubject,    \* kMinSubjectAreaMm2 (10), in hundredths of hundredths of a mm^2
  MinSide,       \* the width and height below which a frame is not flattened (16)
  SampleStep,    \* the least distance of two samples of the light (4)
  Terms,         \* kTerms (10)
  PaperLevel,    \* kPaperLevel (235)
  LeastSquares(_, _)   \* of a grid and [sample -> level]: {} or {the surface}

ASSUME AnalyzerAssumption == MinBlobArea \in Nat \ {0} /\ MinSubject \in Nat

ASSUME LightAssumption == /\ {SampleStep, Terms, PaperLevel} \subseteq Nat \ {0}
                          /\ MinSide \in Nat

\* The luma of a pixel: of its only byte, of the byte before the chroma, or weighted.
Luma(px) == IF Len(px) = 3 THEN (77 * px[1] + 150 * px[2] + 29 * px[3]) \div 256 ELSE px[1]

ToGray(frame) == [i \in 0 .. Len(frame.pixels) - 1 |-> Luma(frame.pixels[i + 1])]

-----------------------------------------------------------------------------
(* Uneven light.  A grid is [w, h].                                         *)

At(g, i)     == [x |-> i % g.w, y |-> i \div g.w]

\* The samples: about sixty across the short side.
LightSamples(g, gray) ==
  LET step == Max({SampleStep, Min({g.w, g.h}) \div 60})
  IN  {i \in DOMAIN gray : At(g, i).x % step = 0 /\ At(g, i).y % step = 0}

\* The brighter 80 percent: those no darker than the one a fifth up in their order.
Brighter(gray, samples) ==
  {i \in samples : Cardinality({j \in samples : gray[j] <= gray[i]})
                      > Cardinality(samples) \div 5}

\* The surface through what is kept, when that is enough.
Fit(g, gray, kept) ==
  IF Cardinality(kept) < 4 * Terms THEN {}
  ELSE {s \in LeastSquares(g, [i \in kept |-> gray[i]]) : s \in [DOMAIN gray -> Int]}

\* The samples that are not well below a surface, by 2.5 standard deviations of what was
\* kept and a level more: the others are the parts.
Paper(gray, samples, kept, surface) ==
  LET off   == [i \in samples |-> 100 * gray[i] - surface[i]]
      sumSq == SumFunctionOnSet([i \in kept |-> off[i] * off[i]], kept)
  IN  {i \in samples : \/ off[i] + 100 > 0
                       \/ 4 * Cardinality(kept) * (off[i] + 100) * (off[i] + 100) < 25 * sumSq}

\* Five fits; one that fails leaves nothing for the next, and the frame as it is.
PaperSurface(g, gray) ==
  LET samples == LightSamples(g, gray)
      kept[n \in 0 .. 4] ==
        IF n = 0 THEN Brighter(gray, samples)
        ELSE UNION {Paper(gray, samples, kept[n - 1], s) : s \in Fit(g, gray, kept[n - 1])}
  IN  Fit(g, gray, kept[4])

\* A level where the paper has level p, in hundredths: rounded, and a byte.
Flattened(v, p) == Min({255, (200 * v * PaperLevel + p) \div (2 * p)})

\* flattenIllumination(): the paper is divided out.
FlattenIllumination(g, gray) ==
  LET light == IF Min({g.w, g.h}) < MinSide THEN {} ELSE PaperSurface(g, gray)
      paper == CHOOSE s \in light : TRUE
  IN  IF light = {} THEN gray
      ELSE [i \in DOMAIN gray |-> Flattened(gray[i], Max({100, paper[i]}))]

-----------------------------------------------------------------------------
(* The threshold                                                            *)

\* a / b > c / d, without a product that overflows.
MoreThan(a, b, c, d) == \/ a \div b > c \div d
                        \/ a \div b = c \div d /\ (a % b) * d > (c % d) * b

\* The pixels at or below a level, and the sum of the levels of some.
Below(gray, t)    == {i \in DOMAIN gray : gray[i] <= t}
LevelSum(gray, S) == SumFunctionOnSet(gray, S)

\* The variance between the classes below and above a level, times the number of
\* pixels squared, as a fraction.
Between(gray, t) ==
  LET low  == Below(gray, t)
      high == DOMAIN gray \ low
      w    == Cardinality(low) * Cardinality(high)
      d    == LevelSum(gray, low) * Cardinality(high) - LevelSum(gray, high) * Cardinality(low)
  IN  <<d * d, w>>

\* A level of the loop, which ends at the last one.  Dark is strictly below the best.
Sharper(gray, s, t) ==
  LET v == Between(gray, t)
  IN  IF Below(gray, t) = DOMAIN gray THEN s
      ELSE IF MoreThan(v[1], v[2], s.variance[1], s.variance[2])
      THEN [variance |-> v, best |-> t + 1] ELSE s

\* otsuThreshold(): the first level with the largest variance.  A level no pixel has
\* changes nothing.
OtsuThreshold(gray) ==
  LET levels == {gray[i] : i \in DOMAIN gray}
      after[t \in levels] ==
        LET lower == {u \in levels : u < t}
        IN  Sharper(gray, IF lower = {} THEN [variance |-> <<-1, 1>>, best |-> 0]
                          ELSE after[Max(lower)], t)
  IN  IF levels = {} THEN 0 ELSE after[Max(levels)].best

-----------------------------------------------------------------------------
(* Components and holes                                                     *)

Index(g, c)  == c.y * g.w + c.x
OnGrid(g, c) == c.x >= 0 /\ c.y >= 0 /\ c.x < g.w /\ c.y < g.h

\* Left, right, above, below.
Four(c) == << [x |-> c.x - 1, y |-> c.y], [x |-> c.x + 1, y |-> c.y],
              [x |-> c.x, y |-> c.y - 1], [x |-> c.x, y |-> c.y + 1] >>

\* (EightWay: pixels that touch at a corner are neighbours as well.)
EightWay(g, i) ==
  LET c == At(g, i)
      all == {j \in 0 .. g.w * g.h - 1 : j # i /\ At(g, j).x \in c.x - 1 .. c.x + 1
                                              /\ At(g, j).y \in c.y - 1 .. c.y + 1}
  IN  all

\* The neighbours that are on the grid, as the flood fill takes them.
Linked(g, i) == {Index(g, c) : c \in {n \in ToSet(Four(At(g, i))) : OnGrid(g, n)}}

\* The flood fill: what of a region is connected to the pixels reached.
Flood(g, region, reached) ==
  LET fill[r \in SUBSET region] ==
        LET next == {j \in region \ r : Linked(g, j) \cap r # {}}
        IN  IF next = {} THEN r ELSE fill[r \cup next]
  IN  fill[reached]

\* A pixel as a seed: it is skipped when it is light or has a label.
Seed(g, dark, found, i) ==
  IF i \notin dark \/ \E k \in DOMAIN found : i \in found[k] THEN found
  ELSE Append(found, Flood(g, dark, {i}))

\* labelComponents(): the components in the order of their labels, 0 being the first.
LabelComponents(g, dark) ==
  LET found[n \in 0 .. g.w * g.h] == IF n = 0 THEN <<>> ELSE Seed(g, dark, found[n - 1], n - 1)
  IN  found[g.w * g.h]

\* drain() at a neighbour: the first dark one that it meets tells the owner; a light one
\* that was not visited goes on the stack.
Look(g, dark, s, c) ==
  LET j == Index(g, c)
  IN  IF ~ OnGrid(g, c) THEN s
      ELSE IF j \in dark THEN [s EXCEPT !.owner = IF @ = -1 THEN j ELSE @]
      ELSE IF j \in s.visited THEN s
      ELSE [s EXCEPT !.visited = @ \cup {j}, !.stack = Append(@, j)]

\* A round of its loop, which ends when the stack is empty.
Pop(g, dark, s) ==
  LET four   == Four(At(g, Last(s.stack)))
      popped == [s EXCEPT !.stack = Front(@)]
      side   == Look(g, dark, Look(g, dark, popped, four[1]), four[2])
  IN  IF s.stack = <<>> THEN s
      ELSE Look(g, dark, Look(g, dark, side, four[3]), four[4])

Background(g, dark) == (0 .. g.w * g.h - 1) \ dark

\* drain(): there is a round for each pixel that was not visited.
Drain(g, dark, start, known) ==
  LET left == Cardinality(Background(g, dark) \ known)
      drain[n \in 0 .. left] ==
        IF n = 0 THEN [stack |-> <<start>>, visited |-> known \cup {start}, owner |-> -1]
        ELSE Pop(g, dark, drain[n - 1])
  IN  drain[left]

Edge(g) == {i \in 0 .. g.w * g.h - 1 : At(g, i).x \in {0, g.w - 1} \/ At(g, i).y \in {0, g.h - 1}}

\* A pixel as the start of a hole: it is skipped when it is dark or was visited.
Hole(g, dark, s, i) ==
  IF i \in dark \cup s.visited THEN s
  ELSE LET d == Drain(g, dark, i, s.visited)
       IN  [visited |-> d.visited,
            owners  |-> IF d.owner = -1 THEN s.owners ELSE Append(s.owners, d.owner)]

\* What of the background reaches the edge.
Outside(g, dark) == Flood(g, Background(g, dark), Background(g, dark) \cap Edge(g))

\* countHoles(): for each region of background that does not reach the edge, a pixel
\* of its owner.
CountHoles(g, dark) ==
  LET holes[n \in 0 .. g.w * g.h] ==
        IF n = 0 THEN [visited |-> Outside(g, dark), owners |-> <<>>]
        ELSE Hole(g, dark, holes[n - 1], n - 1)
  IN  holes[g.w * g.h].owners

HolesOf(owners, px) == Cardinality({k \in DOMAIN owners : owners[k] \in px})

-----------------------------------------------------------------------------
(* Blobs                                                                   *)

BlobStats(g, px, label, holeCount) ==
  LET xs == {At(g, i).x : i \in px}
      ys == {At(g, i).y : i \in px}
  IN  [label |-> label, px |-> px, areaPx |-> Cardinality(px), holeCount |-> holeCount,
       boxW |-> Max(xs) - Min(xs) + 1, boxH |-> Max(ys) - Min(ys) + 1,
       touchesBorder |-> px \cap Edge(g) # {}]

\* Normals of the sweep, in fifths and in the order of the angle.
Sweep == << <<0, 5>>, <<-3, 4>>, <<-4, 3>>, <<-5, 0>>, <<-4, -3>>, <<-3, -4>> >>

\* The projected extent along a direction, each end pixel counted as a half.
Extent(g, px, n) ==
  LET along == {At(g, i).x * n[1] + At(g, i).y * n[2] : i \in px}
  IN  Max(along) - Min(along) + 5

\* measureSupportExtents(): the first direction of least width; its normal is the length.
SupportExtents(g, px) ==
  LET best[k \in DOMAIN Sweep] ==
        IF k > 1 /\ Extent(g, px, Sweep[k]) >= Extent(g, px, best[k - 1]) THEN best[k - 1]
        ELSE Sweep[k]
      n == best[Len(Sweep)]
  IN  [widthPx |-> Extent(g, px, n), lengthPx |-> Extent(g, px, <<n[2], - n[1]>>),
       axis |-> CHOOSE k \in DOMAIN Sweep : Sweep[k] = n]

IsSquareCandidate(b) ==
  /\ 10 * Min({b.boxW, b.boxH}) >= 9 * Max({b.boxW, b.boxH})
  /\ 100 * b.areaPx >= 85 * b.boxW * b.boxH

\* The square root, in hundredths.
Root(a) == CHOOSE n \in 0 .. 100 * a : n * n <= 10000 * a /\ (n + 1) * (n + 1) > 10000 * a

Error(e) == [error |-> e, analysis |-> {}]

\* (KeepClipped: blobs that run off the frame are kept.)
KeepClipped(b) == b.areaPx >= MinBlobArea

Measurable(b) == b.areaPx >= MinBlobArea /\ ~ b.touchesBorder

\* The first of the largest blobs, in the order of their labels.
Largest(blobs) ==
  CHOOSE b \in blobs : \A c \in blobs : \/ b.areaPx > c.areaPx
                                        \/ b.areaPx = c.areaPx /\ b.label <= c.label

BytesPerPixel(format) == CASE format = "rgb888" -> 3 [] format = "yuyv" -> 2 [] OTHER -> 1

\* The scene was found: scale and extents.
Measure(g, threshold, reference, subject, side) ==
  LET r == SupportExtents(g, subject.px)
      scale == (side * 100) \div Root(reference.areaPx)
  IN  [threshold |-> threshold, reference |-> reference, subject |-> subject,
       lengthPx |-> r.lengthPx, widthPx |-> r.widthPx, axis |-> r.axis, mmPerPixel |-> scale,
       lengthMm |-> (r.lengthPx * scale) \div 5, widthMm |-> (r.widthPx * scale) \div 5]

\* Every blob, whatever it is.
FindBlobs(g, dark) ==
  LET found  == LabelComponents(g, dark)
      owners == CountHoles(g, dark)
  IN  {BlobStats(g, found[k], k - 1, HolesOf(owners, found[k])) : k \in DOMAIN found}

\* Whether another square is at least half as large as the reference.
Ambiguous(squares, reference) ==
  \E b \in squares \ {reference} : 2 * b.areaPx >= reference.areaPx

TooSmall(others, reference, side) ==
  (Largest(others).areaPx * side * side) \div reference.areaPx < MinSubject

\* The reference and the subject among the blobs.
Locate(g, threshold, blobs, side) ==
  LET squares   == {b \in blobs : IsSquareCandidate(b)}
      reference == Largest(squares)
      others    == blobs \ {reference}
  IN  IF squares = {} THEN Error("NoReferenceTarget")
      ELSE IF Ambiguous(squares, reference) THEN Error("ReferenceAmbiguous")
      ELSE IF others = {} \/ TooSmall(others, reference, side) THEN Error("NoSubject")
      ELSE [error |-> "None",
            analysis |-> {Measure(g, threshold, reference, Largest(others), side)}]

Dark(gray, threshold) == {i \in DOMAIN gray : gray[i] < threshold}

Binarize(g, gray, threshold, side) ==
  Locate(g, threshold, {b \in FindBlobs(g, Dark(gray, threshold)) : Measurable(b)}, side)

\* analyzeFrame(): side is the reference's side in hundredths of a millimetre.
AnalyzeGray(g, gray, side) ==
  LET flat == FlattenIllumination(g, gray)
  IN  Binarize(g, flat, OtsuThreshold(flat), side)

Grid(frame) == [w |-> frame.width, h |-> frame.height]

Damaged(frame) == \/ Len(frame.pixels) # frame.width * frame.height
                  \/ \E i \in DOMAIN frame.pixels :
                       Len(frame.pixels[i]) # BytesPerPixel(frame.format)

AnalyzeFrame(frame, side) ==
  IF frame.pixels = <<>> \/ frame.width = 0 \/ frame.height = 0 \/ side <= 0
  THEN Error("InvalidFrame")
  ELSE IF frame.format \notin {"rgb888", "gray8", "yuyv"} THEN Error("UnsupportedFormat")
  ELSE IF Damaged(frame) THEN Error("InvalidFrame")
  ELSE AnalyzeGray(Grid(frame), ToGray(frame), side)

-----------------------------------------------------------------------------
(* appendEvidence()                                                        *)

Method == "vision.scout_analyzer.v3"

Observed(id, name, n, unit, source) == Claim(id, name, Num(n), unit, {}, <<source>>, Method)
Derived(id, name, n, unit, from)    == Claim(id, name, Num(n), {unit}, {}, from, Method)

AppendEvidence(record, a, source) ==
  [record EXCEPT
    !.observed = @ \o <<
      Observed("sa-threshold", "binarization_threshold", a.threshold, {}, source),
      Observed("sa-ref-area-px", "reference_area", a.reference.areaPx, {"px^2"}, source),
      Observed("sa-subj-area-px", "subject_area", a.subject.areaPx, {"px^2"}, source),
      Observed("sa-subj-length-px", "subject_length", a.lengthPx, {"px"}, source),
      Observed("sa-subj-width-px", "subject_width", a.widthPx, {"px"}, source),
      Observed("sa-subj-axis-rad", "subject_major_axis_angle", a.axis, {"rad"}, source),
      Observed("sa-subj-holes", "subject_hole_count", a.subject.holeCount, {}, source) >>,
    !.derived = @ \o <<
      Derived("sa-mm-per-px", "mm_per_pixel", a.mmPerPixel, "mm/px", <<"sa-ref-area-px">>),
      Derived("sa-subj-length-mm", "subject_length", a.lengthMm, "mm",
              <<"sa-mm-per-px", "sa-subj-length-px">>),
      Derived("sa-subj-width-mm", "subject_width", a.widthMm, "mm",
              <<"sa-mm-per-px", "sa-subj-width-px">>) >>,
    !.unresolved = @ \o <<
      [name |-> "fastener_class", reason |-> "not attempted"],
      [name |-> "nominal_size", reason |-> "not attempted"],
      [name |-> "thread_pitch", reason |-> "one silhouette"] >>,
    !.recommended = @ \o <<[action |-> "side-on view", resolves |-> <<"thread_pitch">>]>>]

-----------------------------------------------------------------------------
(* What the algorithms are for                                             *)

\* Two cells side by side, and the pixels of S beside a pixel.
Beside(c, d) == \/ c.y = d.y /\ (d.x = c.x - 1 \/ d.x = c.x + 1)
                \/ c.x = d.x /\ (d.y = c.y - 1 \/ d.y = c.y + 1)

Around(g, S, i) == {j \in S : Beside(At(g, i), At(g, j))}

\* What is reached from a pixel of S in as many steps as S has pixels.
Grow(g, S, R) == R \cup UNION {Around(g, S, i) : i \in R}
Region(g, S, i) ==
  LET grown[n \in 0 .. Cardinality(S)] ==
        IF n = 0 THEN {i} ELSE Grow(g, S, grown[n - 1])
  IN  grown[Cardinality(S)]

Regions(g, S) == {Region(g, S, i) : i \in S}

\* Each connected region of dark pixels has one label, in the order of the regions'
\* first pixels; each enclosed region of background is a hole of one blob beside it.
LabelsRight(g, dark) ==
  LET found == LabelComponents(g, dark)
      blobs == DOMAIN found
      holes == [k \in blobs |-> HolesOf(CountHoles(g, dark), found[k])]
      bores == {R \in Regions(g, Background(g, dark)) : R \cap Edge(g) = {}}
      Near(R) == {k \in blobs : \E i \in R : Around(g, found[k], i) # {}}
  IN  /\ ToSet(found) = Regions(g, dark) /\ Cardinality(ToSet(found)) = Len(found)
      /\ \A k \in blobs : k > 1 => Min(found[k - 1]) < Min(found[k])
      /\ SumFunctionOnSet(holes, blobs) = Cardinality(bores)
      /\ \A k \in blobs : holes[k] \in Cardinality({R \in bores : Near(R) = {k}}) ..
                                        Cardinality({R \in bores : k \in Near(R)})

\* The comment of countHoles() gives a hole to "the first adjacent foreground label in scan
\* order": to the first blob beside it.  The code does not do so: it takes the one on the
\* left of the hole's first pixel.
FirstBeside(g, dark) ==
  LET found   == LabelComponents(g, dark)
      holes   == CountHoles(g, dark)
      bores   == {R \in Regions(g, Background(g, dark)) : R \cap Edge(g) = {}}
      Near(R) == {k \in DOMAIN found : \E i \in R : Around(g, found[k], i) # {}}
  IN  \A k \in DOMAIN found :
        HolesOf(holes, found[k]) = Cardinality({R \in bores : k = Min(Near(R))})

\* The squared differences between the levels of pixels, and those within two classes.
Spread(gray, S) ==
  SumFunctionOnSet([i \in S |-> SumFunctionOnSet(
    [j \in S |-> (gray[i] - gray[j]) * (gray[i] - gray[j])], S)], S)

Mixed(gray, S, T) == Spread(gray, S) * Cardinality(T) + Spread(gray, T) * Cardinality(S)

\* The threshold separates the levels so that they differ least within the two
\* classes; a uniform frame has no dark pixel.
OtsuRight(gray) ==
  LET t == OtsuThreshold(gray)
      low(u)  == {i \in DOMAIN gray : gray[i] < u}
      high(u) == DOMAIN gray \ low(u)
      size(u) == Cardinality(low(u)) * Cardinality(high(u))
  IN  IF \A i, j \in DOMAIN gray : gray[i] = gray[j] THEN t = 0
      ELSE /\ size(t) # 0
           /\ \A u \in 0 .. 255 :
                size(u) # 0 => Mixed(gray, low(t), high(t)) * size(u)
                                 <= Mixed(gray, low(u), high(u)) * size(t)
=============================================================================
