----------------------------- MODULE Scout_proofs -----------------------------
(***************************************************************************)
(* Proofs about Scout, for any scenes, any last id and any number of       *)
(* captures and faults: what a capture writes is what the app reads, the   *)
(* card is that of the newest capture, what is claimed in a record is what *)
(* the contract and the tables allow, and what is measured is what lies on *)
(* the paper.                                                              *)
(*                                                                         *)
(* The records are well formed whatever the numbers in them (Sound); a     *)
(* directory holds the record of its capture (DraftsOK); with one process  *)
(* the order of the ids is that of the captures (IdsInOrder); so the       *)
(* highest id that the app lists is the last capture (AppOK).              *)
(*                                                                         *)
(* That every draft is well built (DraftsWell) needs no more of the scenes *)
(* than that lengths are numbers: the loop over a table finds the nearest  *)
(* entry (NearestIs), and a record has one of three shapes (Shapes).       *)
(* SubjectSound needs legible scenes: of such a scene the blobs that are   *)
(* kept are the objects that lie wholly in the frame.  AlgorithmsRight is  *)
(* a case of what holds for every grid, frame and text (LabelsAreRight,    *)
(* ThresholdIsRight, LinesOfText).                                         *)
(***************************************************************************)
EXTENDS Scout, ObservationStore_proofs, Observation_proofs

-----------------------------------------------------------------------------
(* The records a capture builds                                            *)

\* The analyses, the frames and the nominal sizes of the setups.
Analyses == UNION {Outcomes[k].analysis : k \in DOMAIN Setups}
Frames   == {Setups[k].scene.frame : k \in DOMAIN Setups}
Sizes    == UNION {Classify(a).nominal : a \in Analyses}

\* The texts and the numbers that occur in them.
Literals == {
  "app", "scout_kiosk", "camera", "video0", "camera_identity", "webcam", "frame_width",
  "frame_height", "pixel_format", "source-image", "source", "sa-threshold",
  "binarization_threshold", "sa-ref-area-px", "reference_area", "px^2",
  "sa-subj-area-px", "subject_area", "sa-subj-length-px", "subject_length", "px",
  "sa-subj-width-px", "subject_width", "sa-subj-axis-rad", "subject_major_axis_angle",
  "rad", "sa-subj-holes", "subject_hole_count", "vision.scout_analyzer.v3",
  "sa-mm-per-px", "mm_per_pixel", "mm/px", "sa-subj-length-mm", "mm",
  "sa-subj-width-mm", "fastener_class", "nominal_size", "thread_pitch",
  "not attempted", "one silhouette", "side-on view", "bolt_vs_screw", "nut_vs_washer",
  "no size within tolerance", "no fastener family", "no fastener class", "fc-class",
  "fc-nominal", "not visible from above", "head from the side", "side profile",
  "ai.fastener_classifier.v2"}

\* The texts of a record.
Words == UNION {Literals, {ToString(i) : i \in Ids}, {ToString(n) : n \in 0 .. MaxCaptures},
                {ToString(f.width) : f \in Frames}, {ToString(f.height) : f \in Frames},
                {f.format : f \in Frames}, {ImageKind(f.format) : f \in Frames},
                {Classify(a).class : a \in Analyses}, {n.designation : n \in Sizes}}

\* The numbers of a record.
Numbers == UNION {
  UNION {{a.threshold, a.reference.areaPx, a.subject.areaPx, a.lengthPx, a.widthPx, a.axis,
          a.subject.holeCount, a.mmPerPixel, a.lengthMm, a.widthMm, Classify(a).confidence} :
         a \in Analyses},
  {n.confidence : n \in Sizes}}

\* A well-formed record over them, with a key once in its source and one artifact.
Sound(r) == r \in Records(Words, Numbers) /\ OneEach(r.source) /\ Len(r.artifacts) = 1

\* The literals are words.
LEMMA LiteralWords == Literals \subseteq Words
  BY DEF Words

\* The record before the analysis.
LEMMA BaseSound ==
  ASSUME NEW p \in Procs, TypeOK, NEW f \in Frames
  PROVE  Sound(BaseRecord(p, f))
<1> DEFINE r == BaseRecord(p, f)
           a == [id |-> "source-image", kind |-> ImageKind(f.format), path |-> "source"]
           s == << <<"app", "scout_kiosk">>, <<"camera", "video0">>,
                   <<"camera_identity", "webcam">>, <<"frame_width", ToString(f.width)>>,
                   <<"frame_height", ToString(f.height)>>, <<"pixel_format", f.format>> >>
<1>1. id[p] \in Ids /\ num[p] \in 0 .. MaxCaptures
  BY DEF TypeOK
<1>2. /\ ToString(id[p]) \in Words /\ ToString(num[p]) \in Words
      /\ ToString(f.width) \in Words /\ ToString(f.height) \in Words
      /\ f.format \in Words /\ ImageKind(f.format) \in Words
  BY <1>1 DEF Words
<1>3. r = [observationId |-> ToString(id[p]), timestampUtc |-> ToString(num[p]), source |-> s,
           artifacts |-> <<a>>, observed |-> <<>>, derived |-> <<>>, inferred |-> <<>>,
           unresolved |-> <<>>, recommended |-> <<>>, review |-> "pending", notes |-> {}]
  BY DEF BaseRecord
<1>4. a \in ArtifactsOf(Words)
  <2>1. "source-image" \in Words /\ "source" \in Words
    BY LiteralWords DEF Literals
  <2> QED
    BY <1>2, <2>1 DEF ArtifactsOf
<1>5. <<a>> \in Seq(ArtifactsOf(Words)) /\ Len(<<a>>) = 1
  BY <1>4
<1>6. s \in Seq(Words \X Words) /\ OneEach(s)
  <2>1. /\ <<"app", "scout_kiosk">> \in Words \X Words
        /\ <<"camera", "video0">> \in Words \X Words
        /\ <<"camera_identity", "webcam">> \in Words \X Words
        /\ <<"frame_width", ToString(f.width)>> \in Words \X Words
        /\ <<"frame_height", ToString(f.height)>> \in Words \X Words
        /\ <<"pixel_format", f.format>> \in Words \X Words
    <3>1. /\ "app" \in Words /\ "scout_kiosk" \in Words /\ "camera" \in Words
          /\ "video0" \in Words /\ "camera_identity" \in Words /\ "webcam" \in Words
          /\ "frame_width" \in Words /\ "frame_height" \in Words /\ "pixel_format" \in Words
      BY LiteralWords DEF Literals
    <3> QED
      BY <1>2, <3>1
  <2>2. s \in Seq(Words \X Words)
    BY <2>1
  <2>3. /\ DOMAIN s = 1 .. 6
        /\ s[1][1] = "app" /\ s[2][1] = "camera" /\ s[3][1] = "camera_identity"
        /\ s[4][1] = "frame_width" /\ s[5][1] = "frame_height" /\ s[6][1] = "pixel_format"
    OBVIOUS
  <2> HIDE DEF s
  <2>4. \A i \in DOMAIN s : i = 1 \/ i = 2 \/ i = 3 \/ i = 4 \/ i = 5 \/ i = 6
    BY <2>3
  <2>5. OneEach(s)
    BY <2>3, <2>4 DEF OneEach
  <2> QED
    BY <2>2, <2>5
<1> HIDE DEF s, a
<1>7. /\ <<>> \in Seq(ClaimsOf(Words, Numbers)) /\ <<>> \in Seq(UnresolvedOf(Words))
      /\ <<>> \in Seq(RecommendedOf(Words)) /\ "pending" \in ReviewStates /\ {} \in Maybe(Words)
  BY DEF ReviewStates, Maybe
<1>8. r \in Records(Words, Numbers)
  BY <1>2, <1>3, <1>5, <1>6, <1>7 DEF Records
<1>9. r.source = s /\ r.artifacts = <<a>>
  BY <1>3
<1> QED
  BY <1>5, <1>6, <1>8, <1>9 DEF Sound

\* A claim of the analysis.
LEMMA ClaimType ==
  ASSUME NEW i \in Words, NEW n \in Words, NEW v \in Scalars(Words, Numbers),
         NEW u \in Maybe(Words), NEW c \in Maybe(Numbers), NEW from \in Seq(Words), NEW m \in Words
  PROVE  Claim(i, n, v, u, c, from, m) \in ClaimsOf(Words, Numbers)
  BY DEF Claim, ClaimsOf

\* An observed claim of the analysis is one.
LEMMA ObservedType ==
  ASSUME NEW i \in Words, NEW n \in Words, NEW x \in Numbers, NEW u \in Maybe(Words), NEW s \in Words
  PROVE  Observed(i, n, x, u, s) \in ClaimsOf(Words, Numbers)
<1>1. Num(x) \in Scalars(Words, Numbers)
  BY DEF Num, Scalars
<1>2. {} \in Maybe(Numbers) /\ <<s>> \in Seq(Words)
  BY DEF Maybe
<1>3. Method \in Words
  BY LiteralWords DEF Method, Literals
<1> QED
  BY <1>1, <1>2, <1>3, ClaimType DEF Observed

\* So is a derived one.
LEMMA DerivedType ==
  ASSUME NEW i \in Words, NEW n \in Words, NEW x \in Numbers, NEW u \in Words, NEW s \in Seq(Words)
  PROVE  Derived(i, n, x, u, s) \in ClaimsOf(Words, Numbers)
<1>1. Num(x) \in Scalars(Words, Numbers)
  BY DEF Num, Scalars
<1>2. {} \in Maybe(Numbers) /\ {u} \in Maybe(Words)
  BY DEF Maybe
<1>3. Method \in Words
  BY LiteralWords DEF Method, Literals
<1> QED
  BY <1>1, <1>2, <1>3, ClaimType DEF Derived

\* A tuple is a sequence.
LEMMA Lists ==
  ASSUME NEW T, NEW x \in T
  PROVE  /\ <<x>> \in Seq(T)
         /\ \A y \in T : <<x, y>> \in Seq(T)
         /\ \A y, z \in T : <<x, y, z>> \in Seq(T)
  OBVIOUS

\* So are two sequences after one another.
LEMMA Extended ==
  ASSUME NEW T, NEW s \in Seq(T), NEW t \in Seq(T)
  PROVE  s \o t \in Seq(T)
  BY ConcatProperties

\* What the analysis adds.
LEMMA EvidenceSound ==
  ASSUME NEW r, Sound(r), NEW a \in Analyses
  PROVE  Sound(AppendEvidence(r, a, "source-image"))
<1> DEFINE C == ClaimsOf(Words, Numbers)
           obs == <<
      Observed("sa-threshold", "binarization_threshold", a.threshold, {}, "source-image"),
      Observed("sa-ref-area-px", "reference_area", a.reference.areaPx, {"px^2"}, "source-image"),
      Observed("sa-subj-area-px", "subject_area", a.subject.areaPx, {"px^2"}, "source-image"),
      Observed("sa-subj-length-px", "subject_length", a.lengthPx, {"px"}, "source-image"),
      Observed("sa-subj-width-px", "subject_width", a.widthPx, {"px"}, "source-image"),
      Observed("sa-subj-axis-rad", "subject_major_axis_angle", a.axis, {"rad"}, "source-image"),
      Observed("sa-subj-holes", "subject_hole_count", a.subject.holeCount, {}, "source-image") >>
           drv == <<
      Derived("sa-mm-per-px", "mm_per_pixel", a.mmPerPixel, "mm/px", <<"sa-ref-area-px">>),
      Derived("sa-subj-length-mm", "subject_length", a.lengthMm, "mm",
              <<"sa-mm-per-px", "sa-subj-length-px">>),
      Derived("sa-subj-width-mm", "subject_width", a.widthMm, "mm",
              <<"sa-mm-per-px", "sa-subj-width-px">>) >>
           unr == <<
      [name |-> "fastener_class", reason |-> "not attempted"],
      [name |-> "nominal_size", reason |-> "not attempted"],
      [name |-> "thread_pitch", reason |-> "one silhouette"] >>
           rec == <<[action |-> "side-on view", resolves |-> <<"thread_pitch">>]>>
<1>1. /\ a.threshold \in Numbers /\ a.reference.areaPx \in Numbers /\ a.subject.areaPx \in Numbers
      /\ a.lengthPx \in Numbers /\ a.widthPx \in Numbers /\ a.axis \in Numbers
      /\ a.subject.holeCount \in Numbers /\ a.mmPerPixel \in Numbers
      /\ a.lengthMm \in Numbers /\ a.widthMm \in Numbers
  BY DEF Numbers
<1>2. obs \in Seq(C)
  <2>1. {} \in Maybe(Words) /\ {"px^2"} \in Maybe(Words) /\ {"px"} \in Maybe(Words)
        /\ {"rad"} \in Maybe(Words)
    BY LiteralWords DEF Literals, Maybe
  <2>2. obs[1] \in C
    BY <1>1, <2>1, ObservedType, LiteralWords DEF Literals
  <2>3. obs[2] \in C
    BY <1>1, <2>1, ObservedType, LiteralWords DEF Literals
  <2>4. obs[3] \in C
    BY <1>1, <2>1, ObservedType, LiteralWords DEF Literals
  <2>5. obs[4] \in C
    BY <1>1, <2>1, ObservedType, LiteralWords DEF Literals
  <2>6. obs[5] \in C
    BY <1>1, <2>1, ObservedType, LiteralWords DEF Literals
  <2>7. obs[6] \in C
    BY <1>1, <2>1, ObservedType, LiteralWords DEF Literals
  <2>8. obs[7] \in C
    BY <1>1, <2>1, ObservedType, LiteralWords DEF Literals
  <2> HIDE DEF C
  <2> QED
    BY <2>2, <2>3, <2>4, <2>5, <2>6, <2>7, <2>8
<1>3. drv \in Seq(C)
  <2>1. /\ <<"sa-ref-area-px">> \in Seq(Words)
        /\ <<"sa-mm-per-px", "sa-subj-length-px">> \in Seq(Words)
        /\ <<"sa-mm-per-px", "sa-subj-width-px">> \in Seq(Words)
    <3>1. /\ "sa-ref-area-px" \in Words /\ "sa-mm-per-px" \in Words
          /\ "sa-subj-length-px" \in Words /\ "sa-subj-width-px" \in Words
      BY LiteralWords DEF Literals
    <3> QED
      BY <3>1
  <2>2. drv[1] \in C
    BY <1>1, <2>1, DerivedType, LiteralWords DEF Literals
  <2>3. drv[2] \in C
    BY <1>1, <2>1, DerivedType, LiteralWords DEF Literals
  <2>4. drv[3] \in C
    BY <1>1, <2>1, DerivedType, LiteralWords DEF Literals
  <2> HIDE DEF C
  <2> QED
    BY <2>2, <2>3, <2>4
<1>4. unr \in Seq(UnresolvedOf(Words))
  <2>1. /\ "fastener_class" \in Words /\ "not attempted" \in Words /\ "nominal_size" \in Words
        /\ "thread_pitch" \in Words /\ "one silhouette" \in Words
    BY LiteralWords DEF Literals
  <2> DEFINE U == UnresolvedOf(Words)
  <2>2. /\ [name |-> "fastener_class", reason |-> "not attempted"] \in U
        /\ [name |-> "nominal_size", reason |-> "not attempted"] \in U
        /\ [name |-> "thread_pitch", reason |-> "one silhouette"] \in U
    BY <2>1 DEF UnresolvedOf
  <2> HIDE DEF U
  <2>3. unr \in Seq(U)
    BY <2>2, Lists
  <2> QED
    BY <2>3 DEF U
<1>5. rec \in Seq(RecommendedOf(Words))
  <2>1. "side-on view" \in Words /\ "thread_pitch" \in Words
    BY LiteralWords DEF Literals
  <2>2. [action |-> "side-on view", resolves |-> <<"thread_pitch">>] \in RecommendedOf(Words)
    <3>1. <<"thread_pitch">> \in Seq(Words)
      BY <2>1, Lists
    <3> QED
      BY <2>1, <3>1 DEF RecommendedOf
  <2> QED
    BY <2>2, Lists
<1>6. AppendEvidence(r, a, "source-image") =
        [r EXCEPT !.observed = @ \o obs, !.derived = @ \o drv,
                  !.unresolved = @ \o unr, !.recommended = @ \o rec]
  BY DEF AppendEvidence
<1> HIDE DEF C, obs, drv, unr, rec
<1>7. /\ r.observed \o obs \in Seq(C) /\ r.derived \o drv \in Seq(C)
      /\ r.unresolved \o unr \in Seq(UnresolvedOf(Words))
      /\ r.recommended \o rec \in Seq(RecommendedOf(Words))
  <2>1. /\ r.observed \in Seq(C) /\ r.derived \in Seq(C)
        /\ r.unresolved \in Seq(UnresolvedOf(Words))
        /\ r.recommended \in Seq(RecommendedOf(Words))
    BY DEF Sound, Records, C
  <2>2. r.observed \o obs \in Seq(C)
    BY <1>2, <2>1, Extended
  <2>3. r.derived \o drv \in Seq(C)
    BY <1>3, <2>1, Extended
  <2>4. r.unresolved \o unr \in Seq(UnresolvedOf(Words))
    BY <1>4, <2>1, Extended
  <2>5. r.recommended \o rec \in Seq(RecommendedOf(Words))
    BY <1>5, <2>1, Extended
  <2> QED
    BY <2>2, <2>3, <2>4, <2>5
<1> QED
  BY <1>6, <1>7 DEF Sound, Records, C

\* A size is found or not.
LEMMA OneSize == ASSUME NEW a PROVE AtMostOne(Classify(a).nominal)
<1>1. ASSUME NEW w, NEW t PROVE AtMostOne(BestMatch(w, t))
  <2> DEFINE best == Nearest(w, t)
             off  == Off(w, best)
             size == [designation |-> best.designation, referenceMm |-> best.mm,
                      confidence |-> Min({90, 100 - (2000 * off) \div (3 * best.mm)})]
  <2>1. BestMatch(w, t) = IF w <= 0 \/ 100 * off > 15 * best.mm THEN {} ELSE {size}
    BY Zenon DEF BestMatch
  <2> HIDE DEF size, off, best
  <2> QED
    BY <2>1 DEF AtMostOne
<1> QED
  BY <1>1 DEF Classify, Unknown, AtMostOne

\* The members of a set with at most one are a sequence.
LEMMA AsSequence ==
  ASSUME NEW T, NEW S \in SUBSET T, AtMostOne(S)
  PROVE  SetToSeq(S) \in Seq(T)
<1>1. \E f \in [1 .. Cardinality(S) -> S] : IsInjective(f)
  <2>1. CASE S = {}
    <3>1. Cardinality(S) = 0
      BY <2>1, FS_EmptySet
    <3>2. <<>> \in [1 .. Cardinality(S) -> S] /\ DOMAIN <<>> = {}
      BY <3>1
    <3> QED
      BY <3>2 DEF IsInjective
  <2>2. ASSUME NEW x, S = {x} PROVE \E f \in [1 .. Cardinality(S) -> S] : IsInjective(f)
    <3>1. Cardinality(S) = 1
      BY <2>2, FS_Singleton
    <3>2. [i \in 1 .. 1 |-> x] \in [1 .. Cardinality(S) -> S]
      BY <2>2, <3>1
    <3>3. IsInjective([i \in 1 .. 1 |-> x])
      BY DEF IsInjective
    <3> QED
      BY <3>2, <3>3
  <2> QED
    BY <2>1, <2>2 DEF AtMostOne
<1>2. SetToSeq(S) \in [1 .. Cardinality(S) -> S]
  BY <1>1 DEF SetToSeq
<1>3. Cardinality(S) \in Nat
  <2>1. S = {} => Cardinality(S) = 0
    BY FS_EmptySet
  <2>2. \A x : S = {x} => Cardinality(S) = 1
    BY FS_Singleton
  <2> QED
    BY <2>1, <2>2 DEF AtMostOne
<1>4. SetToSeq(S) \in [1 .. Cardinality(S) -> T]
  BY <1>2
<1> QED
  BY <1>3, <1>4, SeqDef

\* What the classifier adds.
LEMMA ClassificationSound ==
  ASSUME NEW r, Sound(r), NEW a \in Analyses
  PROVE  Sound(AppendClassification(r, Classify(a)))
<1> DEFINE c        == Classify(a)
           left     == r.unresolved
           open     == Pick(left, {i \in DOMAIN left :
                              left[i].name \notin {"fastener_class", "nominal_size"}})
           rod      == c.class = "bolt_or_screw"
           sibling  == IF rod THEN "bolt_vs_screw" ELSE "nut_vs_washer"
           noSize   == [name |-> "nominal_size", reason |-> "no size within tolerance"]
           noClass  == << [name |-> "fastener_class", reason |-> "no fastener family"],
                          [name |-> "nominal_size", reason |-> "no fastener class"] >>
           class    == Claim("fc-class", "fastener_class", Str(c.class), {}, {c.confidence},
                             <<"sa-subj-length-mm", "sa-subj-width-mm", "sa-subj-holes">>, Model)
           Sized(n) == Claim("fc-nominal", "nominal_size", Str(n.designation), {}, {n.confidence},
                             <<"fc-class", "sa-subj-width-mm">>, Model)
           sizes    == SetToSeq({Sized(n) : n \in c.nominal})
           unseen   == <<[name |-> sibling, reason |-> "not visible from above"]>>
           rest     == IF c.nominal = {} THEN <<noSize>> ELSE <<>>
           advice   == <<[action   |-> IF rod THEN "head from the side" ELSE "side profile",
                          resolves |-> <<sibling>>]>>
           C == ClaimsOf(Words, Numbers)
           U == UnresolvedOf(Words)
           A == RecommendedOf(Words)
<1>1. AppendClassification(r, c) =
        IF c.class = "unknown" THEN [r EXCEPT !.unresolved = open \o noClass]
        ELSE [r EXCEPT !.inferred = @ \o <<class>> \o sizes,
                       !.unresolved = open \o rest \o unseen,
                       !.recommended = @ \o advice]
  BY DEF AppendClassification
<1>2. /\ r.unresolved \in Seq(U) /\ r.inferred \in Seq(C) /\ r.recommended \in Seq(A)
  BY DEF Sound, Records
<1>3. open \in Seq(U)
  BY <1>2, Picked
<1>4. /\ "fc-class" \in Words /\ "fastener_class" \in Words /\ "sa-subj-length-mm" \in Words
      /\ "sa-subj-width-mm" \in Words /\ "sa-subj-holes" \in Words /\ Model \in Words
      /\ "fc-nominal" \in Words /\ "nominal_size" \in Words
      /\ "no size within tolerance" \in Words /\ "no fastener family" \in Words
      /\ "no fastener class" \in Words /\ "not visible from above" \in Words
      /\ "head from the side" \in Words /\ "side profile" \in Words
      /\ "bolt_vs_screw" \in Words /\ "nut_vs_washer" \in Words
  BY LiteralWords DEF Literals, Model
<1>5. /\ c.class \in Words /\ c.confidence \in Numbers
      /\ \A n \in c.nominal : n.designation \in Words /\ n.confidence \in Numbers
  <2>1. c.class \in Words
    BY DEF Words
  <2>2. c.confidence \in Numbers
    BY DEF Numbers
  <2>3. \A n \in c.nominal : n \in Sizes
    BY DEF Sizes
  <2>4. \A n \in Sizes : n.designation \in Words
    BY DEF Words
  <2>5. \A n \in Sizes : n.confidence \in Numbers
    BY DEF Numbers
  <2> HIDE DEF c
  <2> QED
    BY <2>1, <2>2, <2>3, <2>4, <2>5
<1>6. class \in C
  <2>1. /\ Str(c.class) \in Scalars(Words, Numbers)
        /\ {} \in Maybe(Words) /\ {c.confidence} \in Maybe(Numbers)
    BY <1>5 DEF Str, Scalars, Maybe
  <2>2. <<"sa-subj-length-mm", "sa-subj-width-mm", "sa-subj-holes">> \in Seq(Words)
    BY <1>4, Lists
  <2> HIDE DEF c
  <2> QED
    BY <1>4, <2>1, <2>2, ClaimType
<1>7. sizes \in Seq(C)
  <2>1. ASSUME NEW n \in c.nominal PROVE Sized(n) \in C
    <3>1. Str(n.designation) \in Scalars(Words, Numbers) /\ {} \in Maybe(Words)
          /\ {n.confidence} \in Maybe(Numbers)
      BY <1>5 DEF Str, Scalars, Maybe
    <3>2. <<"fc-class", "sa-subj-width-mm">> \in Seq(Words)
      BY <1>4, Lists
    <3> QED
      BY <1>4, <3>1, <3>2, ClaimType
  <2> DEFINE S == {Sized(n) : n \in c.nominal}
  <2>2. AtMostOne(c.nominal)
    BY OneSize
  <2> HIDE DEF Sized
  <2>3. AtMostOne(S)
    <3>1. CASE c.nominal = {}
      BY <3>1 DEF AtMostOne
    <3>2. ASSUME NEW x, c.nominal = {x} PROVE S = {Sized(x)}
      BY <3>2
    <3> QED
      BY <2>2, <3>1, <3>2 DEF AtMostOne
  <2>4. S \in SUBSET C
    BY <2>1
  <2> HIDE DEF S, C
  <2>5. SetToSeq(S) \in Seq(C)
    BY <2>3, <2>4, AsSequence
  <2> QED
    BY <2>5 DEF S
<1>8. noClass \in Seq(U) /\ rest \in Seq(U) /\ unseen \in Seq(U)
  <2>1. ASSUME NEW x \in Words, NEW y \in Words PROVE [name |-> x, reason |-> y] \in U
    BY DEF UnresolvedOf
  <2>2. sibling \in Words
    BY <1>4
  <2>3. /\ [name |-> "fastener_class", reason |-> "no fastener family"] \in U
        /\ [name |-> "nominal_size", reason |-> "no fastener class"] \in U
        /\ noSize \in U
        /\ [name |-> sibling, reason |-> "not visible from above"] \in U
    BY <1>4, <2>1, <2>2
  <2> HIDE DEF U, sibling, c, noSize
  <2>4. noClass \in Seq(U)
    BY <2>3, Lists
  <2>5. rest \in Seq(U)
    <3>1. <<noSize>> \in Seq(U)
      BY <2>3, Lists
    <3>2. <<>> \in Seq(U)
      OBVIOUS
    <3> QED
      BY <3>1, <3>2
  <2>6. unseen \in Seq(U)
    BY <2>3, Lists
  <2> QED
    BY <2>4, <2>5, <2>6
<1>9. advice \in Seq(A)
  <2>1. sibling \in Words /\ (IF rod THEN "head from the side" ELSE "side profile") \in Words
    BY <1>4
  <2> HIDE DEF sibling, rod
  <2>2. <<sibling>> \in Seq(Words)
    BY <2>1, Lists
  <2>3. [action |-> IF rod THEN "head from the side" ELSE "side profile", resolves |-> <<sibling>>] \in A
    BY <2>1, <2>2 DEF RecommendedOf
  <2> HIDE DEF A
  <2> QED
    BY <2>3, Lists
<1> HIDE DEF c, open, noClass, class, sizes, rest, unseen, advice, C, U, A
<1>10. /\ open \o noClass \in Seq(U) /\ open \o rest \o unseen \in Seq(U)
       /\ r.recommended \o advice \in Seq(A)
  <2>1. open \o noClass \in Seq(U)
    BY <1>3, <1>8, Extended
  <2>2. open \o rest \in Seq(U)
    BY <1>3, <1>8, Extended
  <2>3. (open \o rest) \o unseen \in Seq(U)
    BY <1>8, <2>2, Extended
  <2>4. r.recommended \o advice \in Seq(A)
    BY <1>2, <1>9, Extended
  <2> QED
    BY <2>1, <2>3, <2>4
<1>11. r.inferred \o <<class>> \o sizes \in Seq(C)
  <2>1. <<class>> \in Seq(C)
    BY <1>6, Lists
  <2>2. r.inferred \o <<class>> \in Seq(C)
    BY <1>2, <2>1, Extended
  <2>3. (r.inferred \o <<class>>) \o sizes \in Seq(C)
    BY <1>7, <2>2, Extended
  <2> QED
    BY <2>3
<1>12. Sound([r EXCEPT !.unresolved = open \o noClass])
  BY <1>10 DEF Sound, Records, U
<1>13. Sound([r EXCEPT !.inferred = @ \o <<class>> \o sizes,
                       !.unresolved = open \o rest \o unseen,
                       !.recommended = @ \o advice])
  BY <1>10, <1>11 DEF Sound, Records, U, A, C
<1> QED
  BY <1>1, <1>12, <1>13 DEF c

\* A record is well formed whether or not the scene could be measured.
LEMMA EnrichSound ==
  ASSUME NEW r, Sound(r), NEW k \in DOMAIN Setups
  PROVE  Sound(Enrich(r, k))
<1>1. CASE Outcomes[k].analysis = {}
  BY <1>1 DEF Enrich
<1>2. CASE Outcomes[k].analysis # {}
  <2> DEFINE a == CHOOSE a \in Outcomes[k].analysis : TRUE
  <2>1. a \in Outcomes[k].analysis
    BY <1>2
  <2>2. a \in Analyses
    BY <2>1 DEF Analyses
  <2>3. Enrich(r, k) = AppendClassification(AppendEvidence(r, a, "source-image"), Classify(a))
    BY <1>2 DEF Enrich
  <2> HIDE DEF a
  <2>4. Sound(AppendEvidence(r, a, "source-image"))
    BY <2>2, EvidenceSound
  <2> QED
    BY <2>2, <2>3, <2>4, ClassificationSound
<1> QED
  BY <1>1, <1>2

-----------------------------------------------------------------------------
(* The invariants                                                          *)

\* A capture that has not made its directory.
Before == {"scan", "check", "frame", "mkdir"}
Failed == [Nothing EXCEPT !.detail = "failed to parse"]

\* A drafted record is well formed; a capture has one when it begins to write, and not
\* before; a directory holds that of its capture.
DraftsOK ==
  /\ drafts = [n \in 1 .. MaxCaptures |-> drafts[n]]
  /\ \A n \in 1 .. MaxCaptures : drafts[n] # {} =>
       /\ n <= caps
       /\ \E k \in DOMAIN Setups : \E r : drafts[n] = {[setup |-> k, record |-> r]} /\ Sound(r)
  /\ \A p \in Procs : pc[p] \in {"scan", "check", "frame"} => drafts[num[p]] = {}
  /\ \A p \in Procs : pc[p] = "mkdir" \/ Writing(p) => drafts[num[p]] # {}
  /\ \A i \in Ids : entry[i].dir => entry[i].by # 0 /\ drafts[entry[i].by] # {}

\* The directories have the first ids, in the order of their captures; a capture
\* looks beyond them, and writes the last.
IdsInOrder ==
  /\ \A p \in Procs : pc[p] # "idle" => num[p] = caps
  /\ \A p \in Procs : pc[p] \in Before =>
       /\ \A i \in Ids : entry[i].dir => entry[i].by < caps
       /\ \A i \in Ids : i < id[p] => entry[i].dir
  /\ \A p \in Procs : Writing(p) => \A i \in Ids : entry[i].dir => i <= id[p]
  /\ \A i, j \in Ids : i < j /\ entry[j].dir => entry[i].dir /\ entry[i].by < entry[j].by
  /\ \A i \in Ids : entry[i].by <= caps

\* What the app holds after reading the record of a capture, and what it draws of it.
CardData(n) == [record |-> {RecordOf(n)}, thumbnail |-> IsPnm(RecordOf(n).artifacts[1]), detail |-> ""]
CardFor(l)  == IF l.record = {} THEN NoObservationCard(l.detail)
               ELSE ObservationCard(CHOOSE r \in l.record : TRUE, l.thumbnail)

\* The app has read the record of a capture, and the newest as long as nothing changes.
LoadedOK ==
  /\ \/ loaded \in {Nothing, Failed}
     \/ \E n \in 1 .. MaxCaptures : drafts[n] # {} /\ loaded = CardData(n)
  /\ fresh => loaded = IF Recorded = {} THEN Nothing
                       ELSE IF entry[Newest(Recorded)].record = "whole"
                       THEN CardData(entry[Newest(Recorded)].by) ELSE Failed

\* Where the app is, what it listed and what it shows of it.
AppOK ==
  /\ app \in {"stopped", "reading", "loaded", "shown"}
  /\ app = "reading" => listed \in Ids
  /\ fresh => listed = Newest(Recorded)
  /\ app \in {"loaded", "shown"} => LoadedOK
  /\ app = "shown" => card = CardFor(loaded)

\* The invariant.
ScoutInv == StoreInv /\ DraftsOK /\ IdsInOrder /\ AppOK

-----------------------------------------------------------------------------
(* Steps                                                                   *)

\* A capture of the process is a step of the store.
LEMMA CaptureSteps ==
  ASSUME NEW p \in Procs, Capture(p)
  PROVE  Step(p)
  BY DEF Capture, MeasureFrame, Step

\* The process is alone.
LEMMA Alone == ASSUME NEW p \in Procs, NEW q \in Procs PROVE p = q
  BY OneProcess

\* What a capture changes beside the store.
LEMMA Aside ==
  ASSUME NEW p \in Procs, Capture(p), DraftsOK, TypeOK
  PROVE  /\ UNCHANGED appVars
         /\ fresh' => fresh /\ entry' = entry
         /\ \A n \in 1 .. MaxCaptures : drafts[n] # {} => drafts'[n] = drafts[n]
         /\ \/ UNCHANGED drafts
            \/ /\ pc[p] = "frame" /\ entry' = entry /\ num' = num /\ caps' = caps
               /\ \E k \in DOMAIN Setups : \E r :
                    /\ drafts' = [drafts EXCEPT ![num[p]] = {[setup |-> k, record |-> r]}]
                    /\ Sound(r)
<1>1. CASE MeasureFrame(p)
  <2>1. pc[p] = "frame" /\ UNCHANGED <<num, entry, caps, appVars, fresh>>
    BY <1>1 DEF MeasureFrame, AcquireFrame
  <2>2. CASE UNCHANGED drafts
    BY <2>1, <2>2
  <2>3. ASSUME NEW k \in DOMAIN Setups, NEW r, r = Enrich(BaseRecord(p, Setups[k].scene.frame), k),
               drafts' = [drafts EXCEPT ![num[p]] = {[setup |-> k, record |-> r]}]
        PROVE  /\ \A n \in 1 .. MaxCaptures : drafts[n] # {} => drafts'[n] = drafts[n]
               /\ Sound(r)
    <3>1. drafts[num[p]] = {}
      BY <2>1 DEF DraftsOK
    <3>2. Setups[k].scene.frame \in Frames
      BY DEF Frames
    <3>3. Sound(r)
      BY <2>3, <3>2, BaseSound, EnrichSound
    <3>4. \A n \in 1 .. MaxCaptures : n \in DOMAIN drafts
      BY DEF DraftsOK
    <3> QED
      BY <2>3, <3>1, <3>3, <3>4
  <2>4. \/ UNCHANGED drafts
        \/ \E k \in DOMAIN Setups : \E r :
             /\ r = Enrich(BaseRecord(p, Setups[k].scene.frame), k)
             /\ drafts' = [drafts EXCEPT ![num[p]] = {[setup |-> k, record |-> r]}]
    BY <1>1, Zenon DEF MeasureFrame
  <2> QED
    BY <2>1, <2>2, <2>3, <2>4
<1>2. CASE Unseen /\ (Begin(p) \/ TryNextId(p) \/ CheckConfig(p))
  BY <1>2 DEF Unseen, Begin, TryNextId, CheckConfig
<1>3. CASE Stores
  BY <1>3 DEF Stores
<1> QED
  BY <1>1, <1>2, <1>3 DEF Capture

\* A directory comes to be as that of its capture, which it stays; only its writer
\* removes it.
LEMMA DirectoryStep ==
  ASSUME NEW p \in Procs, Step(p), TypeOK
  PROVE  /\ \A i \in Ids : i # id[p] => entry'[i] = entry[i]
         /\ entry'[id[p]].dir =>
              \/ entry[id[p]].dir /\ entry'[id[p]].by = entry[id[p]].by
              \/ /\ pc[p] = "mkdir" /\ pc'[p] = "image" /\ ~entry[id[p]].dir
                 /\ entry'[id[p]].by = num[p]
         /\ entry[id[p]].dir /\ ~entry'[id[p]].dir => pc[p] = "abort" /\ pc'[p] = "idle"
<1>1. /\ id[p] \in Ids /\ entry[id[p]] \in Entry /\ entry \in [Ids -> Entry]
      /\ pc \in [Procs -> {"idle", "scan", "check", "frame", "mkdir",
                            "image", "record", "text", "abort"}]
      /\ ~entry[id[p]].dir => entry[id[p]] = Absent
  BY DEF TypeOK
<1> DEFINE Now == entry[id[p]]
<1>2. CASE UNCHANGED entry
  BY <1>2
<1>3. ASSUME NEW e, Put(p, e)
      PROVE  (\A i \in Ids : i # id[p] => entry'[i] = entry[i]) /\ entry'[id[p]] = e
  BY <1>1, <1>3 DEF Put
<1>4. CASE MakeDirectory(p)
  <2>1. CASE Created(p) /\ Goes(p, "image") /\ Put(p, Made(Now, num[p]))
    BY <1>1, <1>3, <1>4, <2>1 DEF Made, Goes, MakeDirectory, Created
  <2> QED
    BY <1>2, <1>4, <2>1 DEF MakeDirectory
<1>5. ASSUME NEW f \in File, Put(p, [Now EXCEPT !.image = f]) \/ Put(p, [Now EXCEPT !.record = f])
      PROVE  (\A i \in Ids : i # id[p] => entry'[i] = entry[i])
             /\ entry'[id[p]].dir = Now.dir /\ entry'[id[p]].by = Now.by
  BY <1>1, <1>3, <1>5 DEF Entry
<1>6. CASE WriteImage(p)
  <2>1. \E f \in File : Put(p, [Now EXCEPT !.image = f])
    BY <1>6 DEF WriteImage, File
  <2> QED
    BY <1>1, <1>5, <2>1 DEF Entry
<1>7. CASE OpenRecord(p) \/ WriteRecord(p)
  <2>1. UNCHANGED entry \/ \E f \in File : Put(p, [Now EXCEPT !.record = f])
    BY <1>7 DEF OpenRecord, WriteRecord, File
  <2> QED
    BY <1>1, <1>2, <1>5, <2>1 DEF Entry
<1>8. CASE Abort(p)
  <2>1. pc[p] = "abort"
    BY <1>8 DEF Abort
  <2>2. CASE Put(p, Absent) /\ Returns(p, "failed")
    BY <1>1, <1>3, <2>1, <2>2 DEF Absent, Returns
  <2>3. CASE \E e \in Unlink(Now) : Put(p, e)
    <3>1. \E f \in File : Put(p, [Now EXCEPT !.image = f]) \/ Put(p, [Now EXCEPT !.record = f])
      BY <2>3 DEF Unlink, File
    <3> QED
      BY <1>1, <1>5, <3>1 DEF Entry
  <2> QED
    BY <1>2, <1>8, <2>2, <2>3 DEF Abort
<1>9. CASE Killed(p)
  <2>1. \/ UNCHANGED entry
        \/ \E f \in File : Put(p, [Now EXCEPT !.image = f])
    BY <1>9 DEF Killed, File
  <2> QED
    BY <1>1, <1>2, <1>5, <2>1 DEF Entry
<1> QED
  BY <1>2, <1>4, <1>6, <1>7, <1>8, <1>9
     DEF Step, Begin, TryNextId, CheckConfig, AcquireFrame

\* Where the process is, and its number.
LEMMA PlaceStep ==
  ASSUME NEW p \in Procs, Step(p), TypeOK
  PROVE  \/ pc[p] = "idle" /\ pc'[p] \in {"scan", "check"} /\ num'[p] = caps + 1 /\ caps' = caps + 1
            /\ entry' = entry
         \/ /\ pc[p] # "idle" /\ num' = num /\ caps' = caps
            /\ \/ pc'[p] = "idle"
               \/ pc'[p] \in {"scan", "check"} /\ pc[p] = "scan"
               \/ pc'[p] = "frame" /\ pc[p] = "check"
               \/ pc'[p] = "mkdir" /\ pc[p] = "frame"
               \/ pc'[p] = "image" /\ pc[p] = "mkdir"
               \/ pc'[p] \in {"record", "text", "abort"} /\ Writing(p)
<1>1. /\ pc \in [Procs -> {"idle", "scan", "check", "frame", "mkdir",
                            "image", "record", "text", "abort"}]
      /\ num \in [Procs -> 0 .. MaxCaptures]
  BY DEF TypeOK
<1>2. CASE Begin(p)
  BY <1>1, <1>2 DEF Begin, Goes
<1>3. CASE TryNextId(p)
  BY <1>1, <1>3 DEF TryNextId, Goes
<1>4. CASE CheckConfig(p)
  BY <1>1, <1>4 DEF CheckConfig, Goes, Returns
<1>5. CASE AcquireFrame(p)
  BY <1>1, <1>5 DEF AcquireFrame, Goes, Returns
<1>6. CASE MakeDirectory(p)
  BY <1>1, <1>6 DEF MakeDirectory, Goes, Returns
<1>7. CASE WriteImage(p)
  BY <1>1, <1>7 DEF WriteImage, Goes, AfterImage, CleansUp, Writing
<1>8. CASE OpenRecord(p) \/ WriteRecord(p)
  BY <1>1, <1>8 DEF OpenRecord, WriteRecord, Goes, Returns, CleansUp, Writing
<1>9. CASE Abort(p)
  BY <1>1, <1>9 DEF Abort, Returns, Writing
<1>10. CASE Killed(p)
  BY <1>1, <1>10 DEF Killed
<1> QED
  BY <1>2, <1>3, <1>4, <1>5, <1>6, <1>7, <1>8, <1>9, <1>10 DEF Step

\* A capture drafts its record before it makes its directory.
LEMMA DraftsStep ==
  ASSUME NEW p \in Procs, Capture(p), StoreInv, DraftsOK, IdsInOrder
  PROVE  DraftsOK'
<1>1. TypeOK /\ OwnNumber /\ OwnEntry /\ Step(p)
  BY CaptureSteps DEF StoreInv
<1>2. /\ caps \in Nat /\ num[p] \in 0 .. MaxCaptures /\ id[p] \in Ids /\ entry \in [Ids -> Entry]
      /\ pc[p] # "idle" => num[p] # 0 /\ num[p] \in 1 .. MaxCaptures
      /\ pc[p] # "idle" => num[p] = caps
      /\ caps' \in Nat /\ caps <= caps' /\ num'[p] \in 0 .. MaxCaptures
  <2>1. /\ caps \in Nat /\ num[p] \in 0 .. MaxCaptures /\ id[p] \in Ids /\ entry \in [Ids -> Entry]
    BY <1>1, StoreAssumption DEF TypeOK
  <2>2. pc[p] # "idle" => num[p] # 0
    BY <1>1 DEF OwnNumber
  <2>3. pc[p] # "idle" => num[p] = caps
    BY DEF IdsInOrder
  <2>4. caps' \in Nat /\ caps <= caps'
    BY <1>1, <2>1, PlaceStep
  <2>5. num'[p] \in 0 .. MaxCaptures
    BY <1>1, RestType
  <2> QED
    BY <2>1, <2>2, <2>3, <2>4, <2>5, StoreAssumption
<1>3. \A n \in 1 .. MaxCaptures : drafts[n] # {} => drafts'[n] = drafts[n]
  BY <1>1, Aside
<1>4. drafts' = [n \in 1 .. MaxCaptures |-> drafts'[n]]
  <2>1. UNCHANGED drafts \/ \E d : drafts' = [drafts EXCEPT ![num[p]] = d]
    BY <1>1, Aside
  <2> QED
    BY <2>1 DEF DraftsOK
<1>5. ASSUME NEW n \in 1 .. MaxCaptures, drafts'[n] # {}
      PROVE  /\ n <= caps'
             /\ \E k \in DOMAIN Setups : \E r : drafts'[n] = {[setup |-> k, record |-> r]} /\ Sound(r)
  <2>1. CASE drafts[n] # {}
    BY <1>2, <1>3, <2>1 DEF DraftsOK
  <2>2. CASE drafts[n] = {}
    <3>1. PICK k, r :
            /\ k \in DOMAIN Setups
            /\ pc[p] = "frame" /\ caps' = caps
            /\ drafts' = [drafts EXCEPT ![num[p]] = {[setup |-> k, record |-> r]}]
            /\ Sound(r)
      BY <1>1, <1>5, <2>2, Aside
    <3>2. n = num[p]
      BY <1>5, <2>2, <3>1
    <3>3. n \in DOMAIN drafts
      BY DEF DraftsOK
    <3> QED
      BY <1>2, <3>1, <3>2, <3>3
  <2> QED
    BY <2>1, <2>2
<1>6. ASSUME pc'[p] \in {"scan", "check", "frame"} PROVE drafts'[num'[p]] = {}
  <2>1. UNCHANGED drafts \/ (pc[p] = "frame" /\ UNCHANGED num)
    BY <1>1, Aside
  <2>2. CASE pc[p] = "idle"
    <3>1. num'[p] = caps + 1 /\ UNCHANGED drafts
      BY <1>1, <2>1, <2>2, PlaceStep
    <3>2. ~(caps + 1 <= caps) /\ caps + 1 # 0
      BY <1>2
    <3>3. num'[p] \in 1 .. MaxCaptures
      BY <1>2, <3>1, <3>2
    <3> QED
      BY <3>1, <3>2, <3>3 DEF DraftsOK
  <2>3. CASE pc[p] # "idle"
    <3>1. pc[p] \in {"scan", "check"} /\ num' = num
      BY <1>1, <1>6, <2>3, PlaceStep
    <3>2. UNCHANGED drafts
      BY <2>1, <3>1
    <3> QED
      BY <3>1, <3>2 DEF DraftsOK
  <2> QED
    BY <2>2, <2>3
<1>7. ASSUME pc'[p] = "mkdir" \/ Writing(p)' PROVE drafts'[num'[p]] # {}
  <2>1. pc'[p] \in {"mkdir", "image", "record", "text", "abort"}
    BY <1>7 DEF Writing
  <2>2. pc[p] # "idle" /\ num' = num
    BY <1>1, <2>1, PlaceStep
  <2>3. CASE pc[p] = "frame"
    <3>1. pc'[p] = "mkdir"
      BY <1>1, <2>1, <2>3, PlaceStep DEF Writing
    <3>2. MeasureFrame(p)
      <4>1. pc \in [Procs -> {"idle", "scan", "check", "frame", "mkdir",
                               "image", "record", "text", "abort"}]
        BY <1>1 DEF TypeOK
      <4>2. ~Killed(p)
        BY <3>1, <4>1 DEF Killed
      <4> QED
        BY <2>3, <4>2 DEF Capture, Begin, TryNextId, CheckConfig, MakeDirectory,
                          WriteImage, OpenRecord, WriteRecord, Abort
    <3>3. PICK d : drafts' = [drafts EXCEPT ![num[p]] = {d}]
      BY <3>1, <3>2, Zenon DEF MeasureFrame
    <3>4. num[p] \in DOMAIN drafts
      BY <1>2, <2>2 DEF DraftsOK
    <3> QED
      BY <2>2, <3>3, <3>4
  <2>4. CASE pc[p] # "frame"
    <3>1. pc[p] = "mkdir" \/ Writing(p)
      BY <1>1, <2>1, <2>2, <2>4, PlaceStep
    <3>2. drafts[num[p]] # {}
      BY <3>1 DEF DraftsOK
    <3> QED
      BY <1>2, <1>3, <2>2, <3>2
  <2> QED
    BY <2>3, <2>4
<1>8. ASSUME NEW i \in Ids, entry'[i].dir PROVE entry'[i].by # 0 /\ drafts'[entry'[i].by] # {}
  <2>1. CASE entry[i].dir /\ entry'[i].by = entry[i].by
    <3>1. entry[i].by # 0 /\ entry[i].by \in 0 .. MaxCaptures /\ drafts[entry[i].by] # {}
      BY <1>2, <2>1, EntryType DEF DraftsOK
    <3>2. entry[i].by \in 1 .. MaxCaptures
      BY <3>1, StoreAssumption
    <3> QED
      BY <1>3, <2>1, <3>1, <3>2
  <2>2. CASE pc[p] = "mkdir" /\ entry'[i].by = num[p]
    <3>1. drafts[num[p]] # {}
      BY <2>2 DEF DraftsOK
    <3> QED
      BY <1>2, <1>3, <2>2, <3>1
  <2> QED
    BY <1>1, <1>8, <2>1, <2>2, DirectoryStep
<1>9. \A q \in Procs : q = p
  BY Alone
<1> QED
  BY <1>4, <1>5, <1>6, <1>7, <1>8, <1>9 DEF DraftsOK

\* A capture that looks for its id.
LEMMA LookStep ==
  ASSUME NEW p \in Procs, Capture(p), TypeOK, pc'[p] \in Before
  PROVE  /\ entry' = entry
         /\ \/ pc[p] = "idle" /\ id'[p] = 1 /\ caps' = caps + 1
            \/ /\ pc[p] \in Before /\ caps' = caps
               /\ id'[p] = id[p] \/ (id'[p] = id[p] + 1 /\ entry[id[p]].dir)
<1>1. Step(p)
  BY CaptureSteps
<1>2. id \in [Procs -> Ids]
  BY DEF TypeOK
<1>3. CASE pc[p] = "idle"
  <2>1. Begin(p) /\ pc'[p] = "scan" /\ caps' = caps + 1 /\ entry' = entry
    BY <1>1, <1>3, PlaceStep DEF Capture, MeasureFrame, AcquireFrame, TryNextId,
       CheckConfig, MakeDirectory, WriteImage, OpenRecord, WriteRecord, Abort, Killed, Begin
  <2>2. id'[p] = 1
    BY <1>2, <2>1 DEF Begin, Goes, TypeOK
  <2> QED
    BY <1>3, <2>1, <2>2
<1>4. CASE pc[p] # "idle"
  <2>1. pc[p] \in {"scan", "check", "frame"} /\ caps' = caps
    BY <1>1, <1>4, PlaceStep DEF Before, Writing
  <2>2. ~Killed(p)
    BY <1>4 DEF Killed, Before, TypeOK
  <2>3. CASE TryNextId(p)
    BY <1>2, <2>1, <2>3 DEF TryNextId, Before
  <2>4. CASE CheckConfig(p) \/ AcquireFrame(p)
    BY <2>1, <2>4 DEF CheckConfig, AcquireFrame, Before
  <2> QED
    BY <1>1, <2>1, <2>2, <2>3, <2>4 DEF Step, Begin, MakeDirectory, WriteImage, OpenRecord, WriteRecord, Abort
<1> QED
  BY <1>3, <1>4

\* A capture keeps the order of the ids.
LEMMA IdsStep ==
  ASSUME NEW p \in Procs, Capture(p), StoreInv, IdsInOrder
  PROVE  IdsInOrder'
<1>1. TypeOK /\ OwnNumber /\ OwnEntry /\ Step(p)
  BY CaptureSteps DEF StoreInv
<1>2. /\ caps \in Nat /\ num[p] \in 0 .. MaxCaptures /\ id[p] \in Ids /\ entry \in [Ids -> Entry]
      /\ \A i \in Ids : entry[i].by \in Nat /\ (~entry[i].dir => entry[i].by = 0)
      /\ \A i \in Ids : i \in Int
  BY <1>1, StoreAssumption, EntryType DEF TypeOK, Absent, Ids
<1>3. caps' \in Nat /\ caps <= caps'
  BY <1>1, <1>2, PlaceStep
<1>4. ASSUME pc'[p] # "idle" PROVE num'[p] = caps'
  BY <1>1, <1>2, <1>4, PlaceStep DEF IdsInOrder
<1>5. \A i \in Ids : i # id[p] => entry'[i] = entry[i]
  BY <1>1, DirectoryStep
<1>6. ASSUME pc[p] = "mkdir", ~entry[id[p]].dir
      PROVE  \A i \in Ids : entry[i].dir => i < id[p]
  <2> SUFFICES ASSUME NEW i \in Ids, entry[i].dir PROVE i < id[p]
    OBVIOUS
  <2>1. ~(id[p] < i) /\ i # id[p]
    BY <1>2, <1>6 DEF IdsInOrder
  <2> QED
    BY <1>2, <2>1
<1>7. ASSUME pc'[p] \in Before
      PROVE  /\ \A i \in Ids : entry'[i].dir => entry'[i].by < caps'
             /\ \A i \in Ids : i < id'[p] => entry'[i].dir
  <2>1. entry' = entry
    BY <1>1, <1>7, LookStep
  <2>2. CASE pc[p] = "idle"
    <3>1. id'[p] = 1 /\ caps' = caps + 1
      BY <1>1, <1>7, <2>2, LookStep DEF Before
    <3> QED
      BY <1>2, <2>1, <3>1 DEF IdsInOrder, Ids
  <2>3. CASE pc[p] # "idle"
    <3>1. pc[p] \in Before /\ caps' = caps
      BY <1>1, <1>7, <2>3, LookStep
    <3>2. id'[p] = id[p] \/ (id'[p] = id[p] + 1 /\ entry[id[p]].dir)
      BY <1>1, <1>7, <2>3, LookStep
    <3>3. \A i \in Ids : i < id[p] + 1 => i < id[p] \/ i = id[p]
      BY <1>2 DEF Ids
    <3> QED
      BY <2>1, <3>1, <3>2, <3>3 DEF IdsInOrder
  <2> QED
    BY <2>2, <2>3
<1>8. ASSUME Writing(p)', NEW i \in Ids, entry'[i].dir PROVE i <= id'[p]
  <2>1. pc'[p] \in {"image", "record", "text", "abort"} /\ (pc[p] = "mkdir" \/ Writing(p))
    BY <1>1, <1>8, PlaceStep DEF Writing
  <2>2. id'[p] = id[p]
    BY <1>1, <2>1 DEF Step, Begin, TryNextId, CheckConfig, AcquireFrame, MakeDirectory,
                      WriteImage, OpenRecord, WriteRecord, Abort, Killed, Writing
  <2>3. CASE i = id[p]
    BY <1>2, <2>2, <2>3
  <2>4. CASE i # id[p]
    <3>1. entry[i].dir
      BY <1>5, <1>8, <2>4
    <3>2. CASE Writing(p)
      BY <2>2, <3>1, <3>2 DEF IdsInOrder
    <3>3. CASE pc[p] = "mkdir"
      <4>1. ~entry[id[p]].dir
        BY <1>1, <1>2, <2>1, <3>3 DEF Step, Begin, TryNextId, CheckConfig, AcquireFrame,
           MakeDirectory, Created, Returns, WriteImage, OpenRecord, WriteRecord, Abort, Killed, TypeOK
      <4> QED
        BY <1>2, <1>6, <2>2, <3>1, <3>3, <4>1
    <3> QED
      BY <2>1, <3>2, <3>3
  <2> QED
    BY <2>3, <2>4
<1>9. ASSUME NEW i \in Ids, NEW j \in Ids, i < j, entry'[j].dir
      PROVE  entry'[i].dir /\ entry'[i].by < entry'[j].by
  <2>1. CASE entry[j].dir /\ entry'[j].by = entry[j].by
    <3>1. entry[i].dir /\ entry[i].by < entry[j].by
      BY <1>9, <2>1 DEF IdsInOrder
    <3>2. CASE entry'[i].dir
      <4>1. entry'[i].by = entry[i].by
        BY <1>1, <1>5, <3>1, <3>2, DirectoryStep
      <4> QED
        BY <2>1, <3>1, <3>2, <4>1
    <3>3. CASE ~entry'[i].dir
      <4>1. i = id[p] /\ pc[p] = "abort"
        BY <1>1, <1>5, <3>1, <3>3, DirectoryStep
      <4>2. j <= i
        BY <2>1, <4>1 DEF IdsInOrder, Writing
      <4> QED
        BY <1>2, <1>9, <4>2
    <3> QED
      BY <3>2, <3>3
  <2>2. CASE ~(entry[j].dir /\ entry'[j].by = entry[j].by)
    <3>1. j = id[p] /\ pc[p] = "mkdir" /\ entry'[j].by = num[p]
      BY <1>1, <1>5, <1>9, <2>2, DirectoryStep
    <3>2. i # id[p] /\ entry'[i] = entry[i] /\ num[p] = caps
      BY <1>2, <1>5, <1>9, <3>1 DEF IdsInOrder
    <3>3. entry[i].dir /\ entry[i].by < caps
      BY <1>9, <3>1 DEF IdsInOrder, Before
    <3> QED
      BY <3>1, <3>2, <3>3
  <2> QED
    BY <2>1, <2>2
<1>10. ASSUME NEW i \in Ids PROVE entry'[i].by <= caps'
  <2>1. CASE ~entry'[i].dir
    <3>1. entry'[i].by = 0
      BY <1>1, <2>1, EntryStep DEF Absent
    <3> QED
      BY <1>3, <3>1
  <2>2. CASE entry'[i].dir
    <3>1. entry'[i].by = entry[i].by \/ (pc[p] = "mkdir" /\ entry'[i].by = num[p])
      BY <1>1, <1>5, <2>2, DirectoryStep
    <3>2. entry'[i].by <= caps
      BY <1>2, <3>1 DEF IdsInOrder
    <3> QED
      BY <1>2, <1>3, <3>1, <3>2
  <2> QED
    BY <2>1, <2>2
<1>11. \A q \in Procs : q = p
  BY Alone
<1> QED
  BY <1>4, <1>7, <1>8, <1>9, <1>10, <1>11 DEF IdsInOrder

-----------------------------------------------------------------------------
(* The app                                                                 *)

\* The newest of the recorded ids.
LEMMA NewestOf ==
  ASSUME TypeOK
  PROVE  /\ Recorded = {} => Newest(Recorded) = 0
         /\ Recorded # {} => /\ Newest(Recorded) \in Recorded
                             /\ \A i \in Recorded : i <= Newest(Recorded)
         /\ 0 \notin Ids
<1>1. MaxId + 1 \in Nat /\ Recorded \in SUBSET (0 .. MaxId + 1)
  BY StoreAssumption DEF Recorded, Ids
<1>2. ASSUME Recorded # {}
      PROVE  Max(Recorded) \in Recorded /\ \A i \in Recorded : i <= Max(Recorded)
  BY <1>1, <1>2, GreatestOf
<1> QED
  BY <1>2 DEF Newest, Ids

\* The record of a drafted capture.
LEMMA DraftOf ==
  ASSUME NEW n, NEW k, NEW r, drafts[n] = {[setup |-> k, record |-> r]}
  PROVE  RecordOf(n) = r
<1> DEFINE one == [setup |-> k, record |-> r]
<1>1. one.record = r
  OBVIOUS
<1> HIDE DEF one
<1>2. (CHOOSE d \in {one} : TRUE) = one
  OBVIOUS
<1>3. drafts[n] = {one}
  BY DEF one
<1>4. RecordOf(n) = one.record
  BY <1>2, <1>3 DEF RecordOf
<1> QED
  BY <1>1, <1>4

\* A recorded id is that of a capture with a sound record.
LEMMA RecordedSound ==
  ASSUME StoreInv, DraftsOK, NEW i \in Ids, entry[i].record # "none"
  PROVE  /\ entry[i].by \in 1 .. MaxCaptures /\ drafts[entry[i].by] # {}
         /\ entry[i].dir /\ (entry[i].record = "whole" => entry[i].image = "whole")
         /\ Sound(RecordOf(entry[i].by))
<1>1. entry[i].dir
  BY DEF StoreInv, TypeOK, Absent
<1>2. entry[i].by \in 0 .. MaxCaptures /\ entry[i].by # 0 /\ drafts[entry[i].by] # {}
  <2>1. TypeOK
    BY DEF StoreInv
  <2>2. entry[i].by \in 0 .. MaxCaptures
    BY <2>1, EntryType DEF TypeOK
  <2> QED
    BY <1>1, <2>2 DEF DraftsOK
<1>3. entry[i].by \in 1 .. MaxCaptures
  BY <1>2, StoreAssumption
<1>4. PICK k, r : k \in DOMAIN Setups /\ drafts[entry[i].by] = {[setup |-> k, record |-> r]} /\ Sound(r)
  BY <1>2, <1>3 DEF DraftsOK
<1>5. RecordOf(entry[i].by) = r
  BY <1>4, DraftOf
<1>6. entry[i].record = "whole" => entry[i].image = "whole"
  BY DEF StoreInv, RecordHasImage
<1> QED
  BY <1>1, <1>2, <1>3, <1>4, <1>5, <1>6

\* What the app reads of a whole record is what its capture drafted.
LEMMA ReadsDraft ==
  ASSUME StoreInv, DraftsOK, NEW i \in Ids, entry[i].record = "whole"
  PROVE  LET n == entry[i].by
             r == Read(Document(i))
         IN  /\ Accepts(Document(i)) /\ r = RecordOf(n)
             /\ [record |-> {r}, thumbnail |-> HasThumbnail(r, entry[i]), detail |-> ""] = CardData(n)
<1> DEFINE r == RecordOf(entry[i].by)
<1>1. Sound(r) /\ entry[i].image = "whole"
  BY RecordedSound
<1>2. r \in Records(Words, Numbers) /\ OneEach(r.source) /\ Len(r.artifacts) = 1
  BY <1>1 DEF Sound
<1>3. Accepts(Document(i)) /\ Read(Document(i)) = r
  <2> HIDE DEF r
  <2>1. Accepts(ToJson(r)) /\ Read(ToJson(r)) = r
    BY <1>2, WrittenIsAccepted, ReadAsWritten
  <2> QED
    BY <2>1 DEF Document, r
<1>4. HasThumbnail(r, entry[i]) = IsPnm(r.artifacts[1])
  <2>1. r.artifacts \in Seq(ArtifactsOf(Words))
    BY <1>2 DEF Records
  <2>2. ToSet(r.artifacts) = {r.artifacts[1]}
    BY <1>2, <2>1 DEF ToSet
  <2> HIDE DEF r
  <2>3. HasThumbnail(r, entry[i]) <=> IsPnm(r.artifacts[1])
    BY <1>1, <2>2, Zenon DEF HasThumbnail
  <2>4. HasThumbnail(r, entry[i]) \in BOOLEAN /\ IsPnm(r.artifacts[1]) \in BOOLEAN
    BY DEF HasThumbnail, IsPnm
  <2> QED
    BY <2>3, <2>4
<1> HIDE DEF r
<1>5. CardData(entry[i].by) = [record |-> {r}, thumbnail |-> IsPnm(r.artifacts[1]), detail |-> ""]
  BY DEF CardData, r
<1> QED
  BY <1>3, <1>4, <1>5 DEF r

\* A capture leaves the app as it is.
LEMMA CaptureKeepsApp ==
  ASSUME NEW p \in Procs, Capture(p), StoreInv, DraftsOK, AppOK
  PROVE  AppOK'
<1>1. TypeOK
  BY DEF StoreInv
<1>2. /\ UNCHANGED <<app, listed, loaded, card>>
      /\ fresh' => fresh /\ entry' = entry
      /\ \A n \in 1 .. MaxCaptures : drafts[n] # {} => drafts'[n] = drafts[n]
  BY <1>1, Aside DEF appVars
<1>3. ASSUME NEW n \in 1 .. MaxCaptures, drafts[n] # {}
      PROVE  drafts'[n] # {} /\ CardData(n)' = CardData(n)
  <2>1. drafts'[n] = drafts[n]
    BY <1>2, <1>3
  <2>2. RecordOf(n)' = RecordOf(n)
    BY <2>1 DEF RecordOf
  <2> QED
    BY <1>3, <2>1, <2>2 DEF CardData
<1>4. ASSUME LoadedOK PROVE LoadedOK'
  <2>1. ASSUME loaded \notin {Nothing, Failed}
        PROVE  \E n \in 1 .. MaxCaptures : drafts'[n] # {} /\ loaded = CardData(n)'
    <3>1. PICK n \in 1 .. MaxCaptures : drafts[n] # {} /\ loaded = CardData(n)
      BY <1>4, <2>1 DEF LoadedOK
    <3> QED
      BY <1>3, <3>1
  <2>2. ASSUME fresh'
        PROVE  /\ Recorded' = {} => loaded = Nothing
               /\ Recorded' # {} =>
                    loaded = IF entry'[Newest(Recorded)'].record = "whole"
                             THEN CardData(entry[Newest(Recorded)].by)' ELSE Failed
    <3>1. fresh /\ entry' = entry /\ Recorded' = Recorded /\ Newest(Recorded)' = Newest(Recorded)
      BY <1>2, <2>2 DEF Recorded
    <3>2. CASE Recorded = {}
      BY <1>4, <3>1, <3>2 DEF LoadedOK
    <3>3. CASE Recorded # {}
      <4> DEFINE j == Newest(Recorded)
      <4>1. j \in Ids /\ entry[j].record # "none"
        BY <1>1, <3>3, NewestOf DEF Recorded
      <4>2. CardData(entry[j].by)' = CardData(entry[j].by)
        <5> DEFINE n == entry[j].by
        <5>1. n \in 1 .. MaxCaptures /\ drafts[n] # {}
          BY <4>1, RecordedSound
        <5>2. drafts'[n] = drafts[n] /\ n' = n
          BY <1>2, <3>1, <5>1
        <5> QED
          BY <5>2 DEF CardData, RecordOf
      <4>3. loaded = IF entry[j].record = "whole" THEN CardData(entry[j].by) ELSE Failed
        BY <1>4, <3>1, <3>3 DEF LoadedOK
      <4> HIDE DEF j
      <4> QED
        BY <3>1, <3>3, <4>2, <4>3 DEF j
    <3> QED
      BY <3>2, <3>3
  <2> QED
    BY <1>2, <2>1, <2>2 DEF LoadedOK, Failed, Nothing
<1>5. fresh' => listed = Newest(Recorded)'
  BY <1>2 DEF AppOK, Recorded
<1>6. CardFor(loaded)' = CardFor(loaded)
  BY <1>2 DEF CardFor
<1> QED
  BY <1>2, <1>4, <1>5, <1>6 DEF AppOK

\* Neither does the app change what was recorded.
LEMMA AppStep ==
  ASSUME StoreInv, DraftsOK, AppOK, Start \/ Reload \/ ReadNewest \/ Draw \/ Leave
  PROVE  UNCHANGED <<vars, drafts>> /\ AppOK'
<1>1. TypeOK
  BY DEF StoreInv
<1>2. UNCHANGED <<vars, drafts>>
  BY DEF Start, Reload, ListRecords, ReadNewest, Draw, Leave
<1>3. /\ Recorded' = Recorded /\ Newest(Recorded)' = Newest(Recorded) /\ entry' = entry
      /\ \A n : CardData(n)' = CardData(n)
  BY <1>2 DEF vars, Recorded, CardData, RecordOf
<1>4. ASSUME UNCHANGED <<listed, fresh>> PROVE fresh' => listed' = Newest(Recorded)'
  <2>1. fresh => listed = Newest(Recorded)
    BY DEF AppOK
  <2>2. fresh' => fresh
    BY <1>4
  <2> QED
    BY <1>3, <1>4, <2>1, <2>2
<1>5. CASE ListRecords
  <2>1. Recorded # {} => Newest(Recorded) \in Ids
    BY <1>1, NewestOf DEF Recorded
  <2>2. listed' = Newest(Recorded) /\ loaded' = Nothing
        /\ app' = IF Recorded = {} THEN "loaded" ELSE "reading"
    BY <1>5 DEF ListRecords
  <2>3. app' \in {"loaded", "shown"} => LoadedOK'
    BY <1>3, <2>2 DEF LoadedOK
  <2> QED
    BY <1>2, <1>3, <2>1, <2>2, <2>3 DEF AppOK
<1>6. CASE ReadNewest
  <2>1. app = "reading" /\ app' = "loaded" /\ UNCHANGED <<listed, fresh>> /\ listed \in Ids
    BY <1>6 DEF ReadNewest, AppOK
  <2>2. CASE entry[listed].record = "whole"
    <3> DEFINE n == entry[listed].by
    <3>1. n \in 1 .. MaxCaptures /\ drafts[n] # {}
      BY <2>1, <2>2, RecordedSound
    <3>2. loaded' = CardData(n)
      BY <1>6, <2>1, <2>2, ReadsDraft, Zenon DEF ReadNewest
    <3>3. fresh' => Recorded # {} /\ Newest(Recorded) = listed
      BY <1>1, <2>1, NewestOf DEF AppOK
    <3>4. LoadedOK'
      <4>1. n' = n /\ drafts'[n] # {} /\ CardData(n)' = CardData(n)
        BY <1>2, <1>3, <2>1, <3>1
      <4>2. loaded' = CardData(n)'
        BY <3>2, <4>1
      <4> HIDE DEF n
      <4>3. \E m \in 1 .. MaxCaptures : drafts'[m] # {} /\ loaded' = CardData(m)'
        BY <3>1, <4>1, <4>2
      <4>4. fresh' => Recorded' # {} /\ entry'[Newest(Recorded)'].record = "whole"
                      /\ CardData(entry[Newest(Recorded)].by)' = loaded'
        BY <1>3, <2>2, <3>2, <3>3 DEF n
      <4> QED
        BY <4>3, <4>4 DEF LoadedOK
    <3> QED
      BY <1>2, <1>4, <2>1, <3>4 DEF AppOK
  <2>3. CASE entry[listed].record # "whole"
    <3>1. loaded' = Failed
      BY <1>6, <2>3 DEF ReadNewest, Failed
    <3>2. fresh' => Recorded # {} /\ Newest(Recorded) = listed
      BY <1>1, <2>1, NewestOf DEF AppOK
    <3>3. LoadedOK'
      <4>1. Failed' = Failed
        BY DEF Failed, Nothing
      <4>2. fresh' => Recorded' # {} /\ entry'[Newest(Recorded)'].record # "whole"
        BY <1>3, <2>3, <3>2
      <4> QED
        BY <3>1, <4>1, <4>2 DEF LoadedOK
    <3> QED
      BY <1>2, <1>4, <2>1, <3>3 DEF AppOK
  <2> QED
    BY <2>2, <2>3
<1>7. CASE Draw \/ Leave
  <2>1. UNCHANGED <<listed, loaded, fresh>> /\ app \in {"loaded", "shown"}
        /\ app' \in {"shown", "stopped"} /\ (app' = "shown" => card' = CardFor(loaded))
    BY <1>7 DEF Draw, Leave, CardFor
  <2>2. LoadedOK
    BY <2>1 DEF AppOK
  <2>3. LoadedOK'
    <3>1. Nothing' = Nothing /\ Failed' = Failed
      BY DEF Failed, Nothing
    <3>2. drafts' = drafts
      BY <1>2
    <3>3. CardData(entry[Newest(Recorded)].by)' = CardData(entry[Newest(Recorded)].by)
      BY <1>3, <3>2 DEF CardData, RecordOf
    <3> QED
      BY <1>3, <2>1, <2>2, <3>1, <3>2, <3>3 DEF LoadedOK
  <2>4. CardFor(loaded)' = CardFor(loaded)
    BY <2>1 DEF CardFor
  <2> QED
    BY <1>2, <1>4, <2>1, <2>3, <2>4 DEF AppOK
<1> QED
  BY <1>2, <1>5, <1>6, <1>7 DEF Start, Reload

-----------------------------------------------------------------------------
(* The invariant and the theorems                                          *)

\* The invariant holds in the beginning.
LEMMA ScoutInitInv == ScoutInit => ScoutInv
<1> SUFFICES ASSUME ScoutInit PROVE ScoutInv
  OBVIOUS
<1>1. Init /\ drafts = [n \in 1 .. MaxCaptures |-> {}] /\ app = "stopped" /\ fresh = FALSE
  BY DEF ScoutInit
<1>2. StoreInv
  BY <1>1, StoreInit
<1>3. \A p \in Procs : pc[p] = "idle"
  BY <1>1 DEF Init
<1>4. \A i \in Ids : ~entry[i].dir /\ entry[i].by = 0
  BY <1>1 DEF Init, Absent
<1>5. caps = 0
  BY <1>1 DEF Init
<1>6. DraftsOK
  BY <1>1, <1>3, <1>4 DEF DraftsOK, Writing
<1>7. IdsInOrder
  BY <1>3, <1>4, <1>5 DEF IdsInOrder, Writing, Before
<1>8. AppOK
  BY <1>1 DEF AppOK
<1> QED
  BY <1>2, <1>6, <1>7, <1>8 DEF ScoutInv

\* What the store and the drafts do not change keeps the invariants about them.
LEMMA Untouched ==
  ASSUME StoreInv, DraftsOK, IdsInOrder, UNCHANGED <<vars, drafts>>
  PROVE  StoreInv' /\ DraftsOK' /\ IdsInOrder'
<1>1. StoreInv'
  BY StoreStep
<1>2. /\ pc' = pc /\ id' = id /\ num' = num /\ entry' = entry /\ caps' = caps
      /\ drafts' = drafts
  BY DEF vars
<1>3. DraftsOK'
  BY <1>2 DEF DraftsOK, Writing
<1>4. IdsInOrder'
  BY <1>2 DEF IdsInOrder, Writing
<1> QED
  BY <1>1, <1>3, <1>4

\* Every step keeps the invariant.
LEMMA ScoutStep == ScoutInv /\ [ScoutNext]_scoutVars => ScoutInv'
<1> SUFFICES ASSUME ScoutInv, [ScoutNext]_scoutVars PROVE ScoutInv'
  OBVIOUS
<1>1. StoreInv /\ DraftsOK /\ IdsInOrder /\ AppOK
  BY DEF ScoutInv
<1>2. CASE UNCHANGED scoutVars
  <2>1. /\ UNCHANGED <<vars, drafts>>
        /\ app' = app /\ listed' = listed /\ loaded' = loaded /\ card' = card /\ fresh' = fresh
    BY <1>2 DEF scoutVars, appVars
  <2>2. Recorded' = Recorded /\ entry' = entry
    BY <2>1 DEF Recorded, vars
  <2>3. LoadedOK' = LoadedOK /\ CardFor(loaded)' = CardFor(loaded)
    BY <2>1, <2>2 DEF LoadedOK, Failed, CardFor, CardData, RecordOf
  <2>4. AppOK'
    BY <1>1, <2>1, <2>2, <2>3 DEF AppOK
  <2> QED
    BY <1>1, <2>1, <2>4, Untouched DEF ScoutInv
<1>3. ASSUME NEW p \in Procs, Capture(p) PROVE ScoutInv'
  <2>1. Next
    BY <1>3, CaptureSteps DEF Next
  <2> QED
    BY <1>1, <1>3, <2>1, StoreStep, DraftsStep, IdsStep, CaptureKeepsApp DEF ScoutInv
<1>4. CASE Start \/ Reload \/ ReadNewest \/ Draw \/ Leave
  BY <1>1, <1>4, AppStep, Untouched DEF ScoutInv
<1> QED
  BY <1>2, <1>3, <1>4 DEF ScoutNext

\* Every step of the captures and of the app keeps the invariant.
THEOREM ScoutInvariant == ScoutSpec => []ScoutInv
<1> QED
  BY ScoutInitInv, ScoutStep, PTL DEF ScoutSpec

\* The card of an observation is one of those of its capture.
LEMMA CardOfData ==
  ASSUME NEW n, NEW k, NEW r, drafts[n] = {[setup |-> k, record |-> r]}
  PROVE  CardFor(CardData(n)) \in
           {ObservationCard(d.record, IsPnm(d.record.artifacts[1])) : d \in drafts[n]}
<1> DEFINE one == [setup |-> k, record |-> r]
<1>1. RecordOf(n) = r
  BY DraftOf
<1>2. CardData(n).record = {r} /\ CardData(n).thumbnail = IsPnm(r.artifacts[1])
  BY <1>1 DEF CardData
<1>3. (CHOOSE x \in {r} : TRUE) = r
  OBVIOUS
<1>4. CardFor(CardData(n)) = ObservationCard(r, IsPnm(r.artifacts[1]))
  BY <1>2, <1>3 DEF CardFor
<1>5. one.record = r /\ one \in drafts[n]
  OBVIOUS
<1> HIDE DEF one
<1> QED
  BY <1>4, <1>5

\* The last capture with a record is that of the newest id.
LEMMA LastIsNewest ==
  ASSUME StoreInv, DraftsOK, IdsInOrder
  PROVE  /\ Recorded = {} => LastCapture = 0
         /\ Recorded # {} => LastCapture = entry[Newest(Recorded)].by /\ LastCapture # 0
         /\ \A i, j \in Recorded : entry[i].by = entry[j].by => i = j
<1>1. TypeOK
  BY DEF StoreInv
<1>2. \A i \in Recorded : i \in Ids /\ entry[i].record # "none"
  BY DEF Recorded
<1>3. \A i \in Recorded : entry[i].dir /\ entry[i].by \in 1 .. MaxCaptures
  BY <1>2, RecordedSound
<1> DEFINE S == {0} \cup {entry[i].by : i \in Recorded}
<1>4. MaxCaptures \in Nat /\ S \in SUBSET (0 .. MaxCaptures) /\ S # {}
  BY <1>3, StoreAssumption
<1>5. Max(S) \in S /\ \A y \in S : y <= Max(S)
  BY <1>4, GreatestOf
<1>6. LastCapture = Max(S)
  BY DEF LastCapture
<1>7. ASSUME NEW i \in Recorded, NEW j \in Recorded, i < j PROVE entry[i].by < entry[j].by
  BY <1>2, <1>3, <1>7 DEF IdsInOrder
<1>8. \A i \in Ids : i \in Int
  BY StoreAssumption DEF Ids
<1>9. ASSUME NEW i \in Recorded, NEW j \in Recorded, entry[i].by = entry[j].by PROVE i = j
  <2>1. ~(i < j) /\ ~(j < i)
    BY <1>3, <1>7, <1>9
  <2> QED
    BY <1>2, <1>8, <2>1
<1>10. CASE Recorded = {}
  BY <1>5, <1>6, <1>10
<1>11. CASE Recorded # {}
  <2> DEFINE j == Newest(Recorded)
  <2>1. j \in Recorded /\ \A i \in Recorded : i <= j
    BY <1>1, <1>11, NewestOf
  <2> HIDE DEF j
  <2>2. ASSUME NEW y \in S PROVE y <= entry[j].by
    <3>1. CASE y = 0
      BY <1>3, <2>1, <3>1
    <3>2. ASSUME NEW i \in Recorded, y = entry[i].by PROVE y <= entry[j].by
      <4>1. i = j \/ i < j
        BY <1>2, <1>8, <2>1
      <4> QED
        BY <1>3, <1>7, <2>1, <3>2, <4>1
    <3> QED
      BY <3>1, <3>2
  <2>3. entry[j].by \in S
    BY <2>1
  <2> HIDE DEF S
  <2>4. Max(S) = entry[j].by
    <3> DEFINE m == Max(S)
    <3>1. m \in S /\ \A y \in S : y <= m
      BY <1>5
    <3> HIDE DEF m
    <3>2. m \in Int /\ entry[j].by \in Int
      BY <1>3, <1>4, <2>1, <3>1
    <3>3. m <= entry[j].by /\ entry[j].by <= m
      BY <2>2, <2>3, <3>1
    <3>4. m = entry[j].by
      BY <3>2, <3>3
    <3> QED
      BY <3>4 DEF m
  <2> QED
    BY <1>3, <1>6, <1>9, <1>11, <2>1, <2>4 DEF j
<1> QED
  BY <1>9, <1>10, <1>11

\* The card follows from the invariant.
LEMMA CardNow == StoreInv /\ DraftsOK /\ IdsInOrder /\ AppOK => CardIsNewest
<1> SUFFICES ASSUME StoreInv, DraftsOK, IdsInOrder, AppOK, app = "shown" PROVE CardIsNewest
  BY DEF CardIsNewest
<1> DEFINE CardOf(n) == {ObservationCard(d.record, IsPnm(d.record.artifacts[1])) : d \in drafts[n]}
           whole(n)  == \E i \in Recorded : entry[i].by = n /\ entry[i].record = "whole"
           none      == NoObservationCard("capture one")
           damaged   == NoObservationCard("failed to parse")
<1>1. LoadedOK /\ card = CardFor(loaded)
  BY DEF AppOK
<1>2. CardFor(Nothing) = none /\ CardFor(Failed) = damaged
  BY DEF CardFor, Nothing, Failed
<1>3. ASSUME NEW n \in 1 .. MaxCaptures, drafts[n] # {} PROVE CardFor(CardData(n)) \in CardOf(n)
  <2>1. PICK k, r : k \in DOMAIN Setups /\ drafts[n] = {[setup |-> k, record |-> r]} /\ Sound(r)
    BY <1>3 DEF DraftsOK
  <2> QED
    BY <2>1, CardOfData DEF CardOf
<1> HIDE DEF CardOf, none, damaged
<1>4. card \in {none, damaged} \/ \E n \in 1 .. MaxCaptures : card \in CardOf(n)
  <2>1. CASE loaded \in {Nothing, Failed}
    BY <1>1, <1>2, <2>1
  <2>2. CASE \E n \in 1 .. MaxCaptures : drafts[n] # {} /\ loaded = CardData(n)
    BY <1>1, <1>3, <2>2
  <2> QED
    BY <1>1, <2>1, <2>2 DEF LoadedOK
<1>5. ASSUME fresh
      PROVE  card \in IF LastCapture = 0 THEN {none}
                      ELSE IF whole(LastCapture) THEN CardOf(LastCapture) ELSE {damaged}
  <2>1. CASE Recorded = {}
    <3>1. loaded = Nothing /\ LastCapture = 0
      BY <1>1, <1>5, <2>1, LastIsNewest DEF LoadedOK
    <3> QED
      BY <1>1, <1>2, <3>1
  <2>2. CASE Recorded # {}
    <3> DEFINE j == Newest(Recorded)
    <3>1. j \in Recorded /\ LastCapture = entry[j].by /\ LastCapture # 0
          /\ \A i \in Recorded : entry[i].by = entry[j].by => i = j
      BY <2>2, NewestOf, LastIsNewest DEF StoreInv
    <3>2. loaded = IF entry[j].record = "whole" THEN CardData(entry[j].by) ELSE Failed
      BY <1>1, <1>5, <2>2 DEF LoadedOK
    <3>3. entry[j].by \in 1 .. MaxCaptures /\ drafts[entry[j].by] # {}
      BY <3>1, RecordedSound DEF Recorded
    <3> HIDE DEF j
    <3>4. whole(LastCapture) <=> entry[j].record = "whole"
      BY <3>1
    <3>5. CASE entry[j].record = "whole"
      BY <1>1, <1>3, <3>1, <3>2, <3>3, <3>4, <3>5
    <3>6. CASE entry[j].record # "whole"
      BY <1>1, <1>2, <3>1, <3>2, <3>4, <3>6
    <3> QED
      BY <3>5, <3>6
  <2> QED
    BY <2>1, <2>2
<1> QED
  BY <1>4, <1>5 DEF CardIsNewest, CardOf, none, damaged

\* The card on the display is that of the last capture that left a record, read back
\* from what was written, or says that this record is damaged; and when something was
\* recorded since the app looked, it is still the card of one whole record
\* (EngineeringScoutApp::loadNewest() with nextObservationId() and capture()).
THEOREM CardShowsNewest == ScoutSpec => []CardIsNewest
<1>1. ScoutInv => CardIsNewest
  BY CardNow DEF ScoutInv
<1> QED
  BY <1>1, ScoutInvariant, PTL

\* Every record drafted so far is one that is read as it is written.
DraftsReadBack == \A d \in Drafted : RoundTrip(d.record)

\* Whatever a capture drafts of any scene, what it writes is accepted and read back as
\* the same record (toJson() and fromJson()).
THEOREM DraftsRoundTrip == ScoutSpec => []DraftsReadBack
<1>1. DraftsOK => DraftsReadBack
  <2> SUFFICES ASSUME DraftsOK, NEW n \in 1 .. MaxCaptures, drafts[n] # {}
               PROVE  RoundTrip((CHOOSE d \in drafts[n] : TRUE).record)
    BY DEF DraftsReadBack, Drafted
  <2>1. PICK k, r : k \in DOMAIN Setups /\ drafts[n] = {[setup |-> k, record |-> r]} /\ Sound(r)
    BY DEF DraftsOK
  <2>2. RecordOf(n) = r
    BY <2>1, DraftOf
  <2>3. RoundTrip(r)
    BY <2>1, WrittenIsAccepted, ReadAsWritten DEF Sound, RoundTrip
  <2> QED
    BY <2>2, <2>3 DEF RecordOf
<1>2. ScoutInv => DraftsReadBack
  BY <1>1 DEF ScoutInv
<1> QED
  BY <1>2, ScoutInvariant, PTL

-----------------------------------------------------------------------------
(* The classifier                                                          *)

\* A table of sizes.
Table(t) == t \in {ShaftDiameters, HexAcrossFlats}

\* Its entries.
LEMMA TableRows ==
  ASSUME NEW t, Table(t)
  PROVE  /\ DOMAIN t = 1 .. 7 /\ Len(t) = 7
         /\ \A k \in 1 .. 7 : t[k].mm \in Nat \ {0}
<1>1. \A k \in 1 .. 7 : k = 1 \/ k = 2 \/ k = 3 \/ k = 4 \/ k = 5 \/ k = 6 \/ k = 7
  OBVIOUS
<1>2. CASE t = ShaftDiameters
  <2>1. /\ DOMAIN t = 1 .. 7 /\ Len(t) = 7
        /\ t[1].mm = 300 /\ t[2].mm = 400 /\ t[3].mm = 500 /\ t[4].mm = 600
        /\ t[5].mm = 800 /\ t[6].mm = 1000 /\ t[7].mm = 1200
    BY <1>2 DEF ShaftDiameters, Row
  <2> QED
    BY <1>1, <2>1
<1>3. CASE t = HexAcrossFlats
  <2>1. /\ DOMAIN t = 1 .. 7 /\ Len(t) = 7
        /\ t[1].mm = 550 /\ t[2].mm = 700 /\ t[3].mm = 800 /\ t[4].mm = 1000
        /\ t[5].mm = 1300 /\ t[6].mm = 1600 /\ t[7].mm = 1800
    BY <1>3 DEF HexAcrossFlats, Row
  <2> QED
    BY <1>1, <2>1
<1> QED
  BY <1>2, <1>3 DEF Table

\* The loop of bestMatch() after each entry.
LEMMA BestSoFar ==
  ASSUME NEW w, NEW t, Table(t)
  PROVE  \E best : /\ Nearest(w, t) = best[7]
                   /\ \A k \in 1 .. 7 : best[k] = IF k > 1 /\ ~Nearer(w, t[k], best[k - 1])
                                                  THEN best[k - 1] ELSE t[k]
<1> DEFINE Kept(k, b) == IF ~Nearer(w, t[k], b) THEN b ELSE t[k]
           b1 == t[1]
           b2 == Kept(2, b1)
           b3 == Kept(3, b2)
           b4 == Kept(4, b3)
           b5 == Kept(5, b4)
           b6 == Kept(6, b5)
           b7 == Kept(7, b6)
           After(f) == [k \in 1 .. 7 |-> IF k > 1 /\ ~Nearer(w, t[k], f[k - 1]) THEN f[k - 1] ELSE t[k]]
           seven == <<b1, b2, b3, b4, b5, b6, b7>>
           best == CHOOSE f : f = After(f)
<1>1. seven = After(seven)
  <2> HIDE DEF b1, b2, b3, b4, b5, b6, b7
  <2>1. /\ seven = [k \in 1 .. 7 |-> seven[k]]
        /\ seven[1] = b1 /\ seven[2] = b2 /\ seven[3] = b3 /\ seven[4] = b4
        /\ seven[5] = b5 /\ seven[6] = b6 /\ seven[7] = b7
    OBVIOUS
  <2> HIDE DEF seven
  <2>2. \A k \in 1 .. 7 : k = 1 \/ k = 2 \/ k = 3 \/ k = 4 \/ k = 5 \/ k = 6 \/ k = 7
    OBVIOUS
  <2>3. /\ seven[1] = t[1] /\ seven[2] = Kept(2, seven[1]) /\ seven[3] = Kept(3, seven[2])
        /\ seven[4] = Kept(4, seven[3]) /\ seven[5] = Kept(5, seven[4])
        /\ seven[6] = Kept(6, seven[5]) /\ seven[7] = Kept(7, seven[6])
    BY <2>1 DEF b1, b2, b3, b4, b5, b6, b7
  <2>4. \A k \in 1 .. 7 : seven[k] = IF k > 1 /\ ~Nearer(w, t[k], seven[k - 1]) THEN seven[k - 1] ELSE t[k]
    <3>1. /\ ~(1 > 1) /\ 2 > 1 /\ 3 > 1 /\ 4 > 1 /\ 5 > 1 /\ 6 > 1 /\ 7 > 1
          /\ 2 - 1 = 1 /\ 3 - 1 = 2 /\ 4 - 1 = 3 /\ 5 - 1 = 4 /\ 6 - 1 = 5 /\ 7 - 1 = 6
      OBVIOUS
    <3> QED
      BY <2>2, <2>3, <3>1
  <2> QED
    BY <2>1, <2>4
<1>2. best = After(best)
  <2> HIDE DEF After, seven
  <2> QED
    BY <1>1
<1>3. Nearest(w, t) = best[7]
  <2>1. DOMAIN t = 1 .. 7 /\ Len(t) = 7
    BY TableRows
  <2> QED
    BY <2>1 DEF Nearest
<1>4. \A k \in 1 .. 7 : best[k] = IF k > 1 /\ ~Nearer(w, t[k], best[k - 1]) THEN best[k - 1] ELSE t[k]
  <2> HIDE DEF best
  <2> QED
    BY <1>2
<1> QED
  BY <1>3, <1>4

\* What a measured length is off an entry.
LEMMA OffType ==
  ASSUME NEW w \in Int, NEW t, Table(t), NEW k \in 1 .. 7
  PROVE  Off(w, t[k]) \in Nat
<1>1. t[k].mm \in Int
  BY TableRows
<1> QED
  BY <1>1 DEF Off

\* bestMatch() finds an entry that no other is nearer than.
LEMMA NearestIs ==
  ASSUME NEW w \in Int, NEW t, Table(t)
  PROVE  \E i \in 1 .. 7 : /\ Nearest(w, t) = t[i]
                           /\ \A j \in 1 .. 7 : Off(w, t[i]) <= Off(w, t[j])
<1>1. PICK best :
        /\ Nearest(w, t) = best[7]
        /\ \A k \in 1 .. 7 : best[k] = IF k > 1 /\ ~Nearer(w, t[k], best[k - 1])
                                       THEN best[k - 1] ELSE t[k]
  BY BestSoFar
<1> DEFINE P(k) == \E i \in 1 .. k : /\ best[k] = t[i]
                                     /\ \A j \in 1 .. k : Off(w, t[i]) <= Off(w, t[j])
<1>2. \A k \in 1 .. 7 : Off(w, t[k]) \in Nat
  BY OffType
<1>3. P(1)
  <2>1. best[1] = t[1] /\ \A j \in 1 .. 1 : j = 1
    BY <1>1
  <2> QED
    BY <1>2, <2>1
<1>4. ASSUME NEW k \in 2 .. 7, P(k - 1) PROVE P(k)
  <2>1. PICK i \in 1 .. k - 1 : /\ best[k - 1] = t[i]
                                /\ \A j \in 1 .. k - 1 : Off(w, t[i]) <= Off(w, t[j])
    BY <1>4
  <2>2. /\ k \in 1 .. 7 /\ k > 1 /\ i \in 1 .. k /\ k \in 1 .. k /\ i \in 1 .. 7
        /\ \A j \in 1 .. k : j \in 1 .. 7 /\ (j \in 1 .. k - 1 \/ j = k)
    OBVIOUS
  <2>3. Off(w, t[k]) \in Nat /\ Off(w, t[i]) \in Nat /\ \A j \in 1 .. k : Off(w, t[j]) \in Nat
    BY <1>2, <2>2
  <2>4. CASE Off(w, t[k]) < Off(w, t[i])
    <3>1. best[k] = t[k]
      BY <1>1, <2>1, <2>2, <2>4 DEF Nearer
    <3>2. \A j \in 1 .. k : Off(w, t[k]) <= Off(w, t[j])
      BY <2>1, <2>2, <2>3, <2>4
    <3> QED
      BY <2>2, <3>1, <3>2
  <2>5. CASE ~(Off(w, t[k]) < Off(w, t[i]))
    <3>1. best[k] = t[i]
      BY <1>1, <2>1, <2>2, <2>5 DEF Nearer
    <3>2. \A j \in 1 .. k : Off(w, t[i]) <= Off(w, t[j])
      BY <2>1, <2>2, <2>3, <2>5
    <3> QED
      BY <2>2, <3>1, <3>2
  <2> QED
    BY <2>4, <2>5
<1>5. P(7)
  <2>1. /\ 2 \in 2 .. 7 /\ 3 \in 2 .. 7 /\ 4 \in 2 .. 7 /\ 5 \in 2 .. 7 /\ 6 \in 2 .. 7 /\ 7 \in 2 .. 7
        /\ 2 - 1 = 1 /\ 3 - 1 = 2 /\ 4 - 1 = 3 /\ 5 - 1 = 4 /\ 6 - 1 = 5 /\ 7 - 1 = 6
    OBVIOUS
  <2> HIDE DEF P
  <2> QED
    BY <1>3, <1>4, <2>1
<1> QED
  BY <1>1, <1>5

\* The lesser of two numbers.
LEMMA LesserOf ==
  ASSUME NEW a \in Int, NEW b \in Int
  PROVE  Min({a, b}) = IF a <= b THEN a ELSE b
<1>1. CASE a <= b
  <2>1. \A x \in {a, b} : (\A y \in {a, b} : x <= y) <=> x = a
    BY <1>1
  <2> QED
    BY <1>1, <2>1 DEF Min
<1>2. CASE ~(a <= b)
  <2>1. \A x \in {a, b} : (\A y \in {a, b} : x <= y) <=> x = b
    BY <1>2
  <2> QED
    BY <1>2, <2>1 DEF Min
<1> QED
  BY <1>1, <1>2

\* What is claimed of a size: it is the nearest and near enough, and the confidence is
\* a part of a whole.
Fits(w, t, n) ==
  /\ n.confidence \in 0 .. 100
  /\ \E i \in 1 .. 7 : /\ n.designation = t[i].designation
                       /\ \A j \in 1 .. 7 : Off(w, t[i]) <= Off(w, t[j])
                       /\ 100 * Off(w, t[i]) <= 15 * t[i].mm

\* Quotients, for the arithmetic of the confidences.
LEMMA Quotient ==
  ASSUME NEW n \in Nat, NEW c \in Nat \ {0}
  PROVE  n \div c \in Nat /\ (n \div c) * c <= n /\ n < (n \div c) * c + c
  BY SMT

\* A product below the next one has the smaller factor.
LEMMA Quotients ==
  ASSUME NEW p \in Nat, NEW q \in Nat, NEW c \in Nat \ {0}, p * c < q * c + c
  PROVE  p <= q
  BY SMT

\* A part of a hundred is at most a hundred.
LEMMA AtMostWhole ==
  ASSUME NEW p \in Nat, NEW c \in Nat \ {0}, NEW n \in Nat, p * c <= n, n <= 100 * c
  PROVE  p <= 100
<1>1. p * c \in Nat /\ 100 * c \in Nat
  BY SMT
<1>2. p * c < 100 * c + c
  BY <1>1
<1> QED
  BY <1>2, Quotients

\* A confidence is at most that of a perfect fit, and not less than none.
LEMMA FitRange ==
  ASSUME NEW off \in Nat, NEW mm \in Nat \ {0}, 100 * off <= 15 * mm
  PROVE  Min({90, 100 - (2000 * off) \div (3 * mm)}) \in 0 .. 100
<1> DEFINE q == (2000 * off) \div (3 * mm)
<1>1. 2000 * off \in Nat /\ 3 * mm \in Nat \ {0} /\ 2000 * off <= 100 * (3 * mm)
  OBVIOUS
<1>2. q \in Nat /\ q * (3 * mm) <= 2000 * off
  <2> DEFINE n == 2000 * off
             c == 3 * mm
  <2>1. n \in Nat /\ c \in Nat \ {0}
    BY <1>1
  <2> HIDE DEF n, c
  <2>2. n \div c \in Nat /\ (n \div c) * c <= n
    BY <2>1, Quotient
  <2> QED
    BY <2>2 DEF n, c
<1> HIDE DEF q
<1>3. q <= 100
  BY <1>1, <1>2, AtMostWhole
<1>4. 100 - q \in 0 .. 100
  BY <1>2, <1>3
<1>5. Min({90, 100 - q}) = IF 90 <= 100 - q THEN 90 ELSE 100 - q
  BY <1>4, LesserOf
<1> QED
  BY <1>4, <1>5 DEF q

\* A match is the nearest entry, and near enough.
LEMMA MatchFits ==
  ASSUME NEW w \in Int, NEW t, Table(t), NEW n \in BestMatch(w, t)
  PROVE  Fits(w, t, n)
<1>1. PICK i \in 1 .. 7 : /\ Nearest(w, t) = t[i]
                          /\ \A j \in 1 .. 7 : Off(w, t[i]) <= Off(w, t[j])
  BY NearestIs
<1> DEFINE off == Off(w, t[i])
<1>2. off \in Nat /\ t[i].mm \in Nat \ {0}
  BY OffType, TableRows
<1>3. ~(100 * off > 15 * t[i].mm)
      /\ n = [designation |-> t[i].designation, referenceMm |-> t[i].mm,
              confidence |-> Min({90, 100 - (2000 * off) \div (3 * t[i].mm)})]
  BY <1>1 DEF BestMatch
<1>4. 100 * off <= 15 * t[i].mm
  BY <1>2, <1>3
<1>5. n.confidence \in 0 .. 100
  <2>1. Min({90, 100 - (2000 * off) \div (3 * t[i].mm)}) \in 0 .. 100
    BY <1>2, <1>4, FitRange
  <2> HIDE DEF off
  <2> QED
    BY <1>3, <2>1
<1>6. n.designation = t[i].designation
  BY <1>3
<1> QED
  BY <1>1, <1>4, <1>5, <1>6 DEF Fits

\* The table the size of a class is looked up in.
TableOf(class) == IF class = "bolt_or_screw" THEN ShaftDiameters ELSE HexAcrossFlats

\* classify() claims confidences that are parts of a whole, and a size of the right table.
LEMMA ClassifyIs ==
  ASSUME NEW a, a.lengthMm \in Int, a.widthMm \in Int
  PROVE  LET c == Classify(a)
         IN  \/ c.class = "unknown"
             \/ /\ c.class \in {"bolt_or_screw", "nut_or_washer"}
                /\ c.confidence \in 0 .. 100
                /\ \A n \in c.nominal : Fits(a.widthMm, TableOf(c.class), n)
<1> DEFINE l == a.lengthMm
           w == a.widthMm
           c == Classify(a)
           unknown == [class |-> "unknown", confidence |-> 0, nominal |-> {}]
           rod     == [class |-> "bolt_or_screw", confidence |-> Min({90, 55 + (8 * l) \div w - 20}),
                       nominal |-> BestMatch(w, ShaftDiameters)]
           nut     == [class |-> "nut_or_washer", confidence |-> IF 5 * l <= 6 * w THEN 75 ELSE 60,
                       nominal |-> BestMatch(w, HexAcrossFlats)]
<1>1. \/ c = unknown
      \/ ~(w <= 0 \/ l <= 0) /\ 2 * l >= 5 * w /\ c = rod
      \/ c = nut
  BY Zenon DEF Classify, Unknown
<1>2. unknown.class = "unknown"
  OBVIOUS
<1>3. ASSUME ~(w <= 0 \/ l <= 0), 2 * l >= 5 * w
      PROVE  rod.class = "bolt_or_screw" /\ rod.confidence \in 0 .. 100
             /\ \A n \in rod.nominal : Fits(w, ShaftDiameters, n)
  <2> DEFINE q == (8 * l) \div w
             m == 8 * l
  <2>1. m \in Nat /\ w \in Nat \ {0} /\ 20 * w <= m
    BY <1>3
  <2> HIDE DEF m
  <2>2. q \in Nat /\ m < q * w + w
    BY <2>1, Quotient DEF m
  <2> HIDE DEF q
  <2>3. 20 <= q
    <3>1. 20 * w \in Nat /\ q * w \in Nat
      BY <2>1, <2>2, SMT
    <3>2. 20 * w < q * w + w
      BY <2>1, <2>2, <3>1
    <3> QED
      BY <2>1, <2>2, <3>2, Quotients
  <2>4. Min({90, 55 + q - 20}) \in 0 .. 100
    <3>1. 55 + q - 20 \in Int /\ 55 + q - 20 >= 55
      BY <2>2, <2>3
    <3>2. Min({90, 55 + q - 20}) = IF 90 <= 55 + q - 20 THEN 90 ELSE 55 + q - 20
      BY <3>1, LesserOf
    <3> QED
      BY <3>1, <3>2
  <2>5. rod.confidence = Min({90, 55 + q - 20})
    BY DEF q, m
  <2>6. \A n \in BestMatch(w, ShaftDiameters) : Fits(w, ShaftDiameters, n)
    BY MatchFits DEF Table
  <2> QED
    BY <2>4, <2>5, <2>6
<1>4. nut.class = "nut_or_washer" /\ nut.confidence \in 0 .. 100
      /\ \A n \in nut.nominal : Fits(w, HexAcrossFlats, n)
  <2>1. \A n \in BestMatch(w, HexAcrossFlats) : Fits(w, HexAcrossFlats, n)
    BY MatchFits DEF Table
  <2> QED
    BY <2>1
<1>5. TableOf("bolt_or_screw") = ShaftDiameters /\ TableOf("nut_or_washer") = HexAcrossFlats
  BY DEF TableOf
<1> HIDE DEF c, unknown, rod, nut
<1>6. \/ c.class = "unknown"
      \/ /\ c.class \in {"bolt_or_screw", "nut_or_washer"}
         /\ c.confidence \in 0 .. 100
         /\ \A n \in c.nominal : Fits(w, TableOf(c.class), n)
  <2>1. CASE c = unknown
    BY <1>2, <2>1
  <2>2. CASE ~(w <= 0 \/ l <= 0) /\ 2 * l >= 5 * w /\ c = rod
    BY <1>3, <1>5, <2>2
  <2>3. CASE c = nut
    BY <1>4, <1>5, <2>3
  <2> QED
    BY <1>1, <2>1, <2>2, <2>3
<1> QED
  BY <1>6 DEF c

-----------------------------------------------------------------------------
(* The contract                                                            *)

\* Entries that differ are not there twice.
LEMMA NoneTwice ==
  ASSUME NEW s, NEW n \in Nat, DOMAIN s = 1 .. n, \A i, j \in DOMAIN s : s[i] = s[j] => i = j
  PROVE  Twice(s) = {}
<1>1. ASSUME NEW i \in DOMAIN s, NEW j \in 1 .. i - 1, s[j] = s[i] PROVE FALSE
  <2>1. j \in DOMAIN s /\ j # i
    OBVIOUS
  <2> QED
    BY <1>1, <2>1
<1> QED
  BY <1>1 DEF Twice

\* What the contract asks of each claim of a record that has the claims named ids.
ClaimGood(c, ids) ==
  /\ c.id # ""
  /\ \A n \in c.confidence : n \in 0 .. 100
  /\ ToSet(c.provenance) \subseteq ids \cup {"source-image"}

\* The source has each key once.
LEMMA SourceOnce ==
  ASSUME NEW T, NEW s \in Seq(T \X T), OneEach(s)
  PROVE  Twice(Each(Head, s)) = {}
<1> DEFINE heads == Each(Head, s)
<1>1. Len(s) \in Nat /\ DOMAIN s = 1 .. Len(s) /\ \A i \in DOMAIN s : s[i] \in T \X T
  OBVIOUS
<1>2. heads = [i \in DOMAIN s |-> Head(s[i])]
  BY DEF Each
<1>3. \A i \in DOMAIN s : Head(s[i]) = s[i][1]
  <2> TAKE i \in DOMAIN s
  <2>1. PICK x \in T, y \in T : s[i] = <<x, y>>
    BY <1>1
  <2> QED
    BY <2>1
<1>4. DOMAIN heads = 1 .. Len(s) /\ \A i, j \in DOMAIN heads : heads[i] = heads[j] => i = j
  <2>1. DOMAIN heads = DOMAIN s /\ \A i \in DOMAIN s : heads[i] = s[i][1]
    BY <1>2, <1>3
  <2> HIDE DEF heads
  <2> QED
    BY <1>1, <2>1 DEF OneEach
<1> HIDE DEF heads
<1>5. Twice(heads) = {}
  BY <1>1, <1>4, NoneTwice
<1> QED
  BY <1>5 DEF heads

\* The image is the only artifact.
Image(kind) == [id |-> "source-image", kind |-> kind, path |-> "source"]

\* It breaks no rule about artifacts.
LEMMA OneArtifact ==
  ASSUME NEW s, NEW kind, s = <<Image(kind)>>
  PROVE  /\ \E x \in ToSet(s) : x.id = "source-image"
         /\ "" \notin ToSet(IdsOf(s)) /\ Twice(IdsOf(s)) = {}
<1> DEFINE one == [i \in 1 .. 1 |-> "source-image"]
           a   == Image(kind)
<1>1. a.id = "source-image"
  BY DEF Image
<1> HIDE DEF a
<1>2. s = <<a>>
  BY DEF a
<1>3. DOMAIN s = 1 .. 1 /\ s[1] = a
  BY <1>2
<1>4. \A i \in 1 .. 1 : i = 1
  OBVIOUS
<1>5. IdsOf(s) = one
  BY <1>1, <1>3, <1>4 DEF IdsOf, Each
<1>6. "" \notin ToSet(one)
  BY DEF ToSet
<1>7. DOMAIN one = 1 .. 1 /\ \A i, j \in 1 .. 1 : i = j
  BY <1>4
<1> HIDE DEF one
<1>8. Twice(one) = {}
  BY <1>7, NoneTwice
<1>9. a \in ToSet(s)
  BY <1>3, <1>4 DEF ToSet
<1> QED
  BY <1>1, <1>5, <1>6, <1>8, <1>9

\* The claims have names of their own.
LEMMA ClaimsOnce ==
  ASSUME NEW s, NEW n \in Nat, DOMAIN s = 1 .. n, \A i, j \in 1 .. n : s[i].id = s[j].id => i = j,
         \A c \in ToSet(s) : c.id # ""
  PROVE  "" \notin ToSet(IdsOf(s)) /\ Twice(IdsOf(s)) = {}
<1> DEFINE ids == [i \in 1 .. n |-> s[i].id]
<1>1. IdsOf(s) = ids
  BY DEF IdsOf, Each
<1>2. \A i \in 1 .. n : s[i].id # ""
  BY DEF ToSet
<1>3. "" \notin ToSet(ids)
  BY <1>2 DEF ToSet
<1>4. DOMAIN ids = 1 .. n /\ \A i, j \in DOMAIN ids : ids[i] = ids[j] => i = j
  OBVIOUS
<1> HIDE DEF ids
<1>5. Twice(ids) = {}
  BY <1>4, NoneTwice
<1> QED
  BY <1>1, <1>3, <1>5

\* A claim that is good breaks no rule about all claims.
LEMMA NothingCommon ==
  ASSUME NEW r, NEW c, NEW ids, ClaimGood(c, ids), ids \cup {"source-image"} \subseteq Resolvable(r)
  PROVE  Common(r, c) = {}
<1>1. ASSUME NEW m \in c.confidence PROVE ~(m < 0 \/ m > 100)
  <2>1. m \in 0 .. 100
    BY DEF ClaimGood
  <2> QED
    BY <2>1
<1>2. ToSet(c.provenance) \ Resolvable(r) = {}
  BY DEF ClaimGood
<1>3. {m \in c.confidence : m < 0 \/ m > 100} = {}
  BY <1>1
<1> QED
  BY <1>2, <1>3 DEF Common

\* What is enough of the claims for validate() to find nothing.
ClaimsGood(r) ==
  /\ \E n \in Nat : /\ DOMAIN Claims(r) = 1 .. n
                    /\ \A i, j \in 1 .. n : Claims(r)[i].id = Claims(r)[j].id => i = j
  /\ \A c \in ToSet(Claims(r)) : ClaimGood(c, {d.id : d \in ToSet(Claims(r))})
  /\ \A c \in ToSet(r.derived) : c.provenance # <<>> /\ c.method # ""
  /\ \A c \in ToSet(r.inferred) : c.confidence # {} /\ c.provenance # <<>> /\ c.method # ""

\* A record of the image alone, before what is said of it.
Headed(r) == /\ r.observationId # "" /\ r.timestampUtc # ""
             /\ \E T : r.source \in Seq(T \X T) /\ OneEach(r.source)
             /\ \E kind : r.artifacts = <<Image(kind)>>

\* Then validate() finds nothing.
LEMMA NothingViolated == ASSUME NEW r, Headed(r), ClaimsGood(r) PROVE Violations(r) = {}
<1> DEFINE cl  == Claims(r)
           ids == {d.id : d \in ToSet(cl)}
<1>1. Twice(Each(Head, r.source)) = {}
  BY SourceOnce DEF Headed
<1>2. /\ \E x \in ToSet(r.artifacts) : x.id = "source-image"
      /\ "" \notin ToSet(IdsOf(r.artifacts)) /\ Twice(IdsOf(r.artifacts)) = {}
  BY OneArtifact DEF Headed
<1>3. \A c \in ToSet(cl) : ClaimGood(c, ids) /\ c.id # ""
  BY DEF ClaimsGood, ClaimGood
<1>4. "" \notin ToSet(IdsOf(cl)) /\ Twice(IdsOf(cl)) = {}
  <2>1. PICK n \in Nat : DOMAIN cl = 1 .. n /\ \A i, j \in 1 .. n : cl[i].id = cl[j].id => i = j
    BY DEF ClaimsGood
  <2> HIDE DEF cl
  <2> QED
    BY <1>3, <2>1, ClaimsOnce
<1>5. ids \cup {"source-image"} \subseteq Resolvable(r)
  <2>1. "" \notin ids
    BY <1>3
  <2>2. "source-image" \in {x.id : x \in ToSet(r.artifacts)} \ {""}
    BY <1>2
  <2> QED
    BY <2>1, <2>2 DEF Resolvable
<1> HIDE DEF ids
<1>6. \A c \in ToSet(cl) : Common(r, c) = {}
  BY <1>3, <1>5, NothingCommon
<1>7. \A c \in ToSet(r.derived) : Lacks(c, {"provenance", "method"}) = {}
  <2>1. \A c \in ToSet(r.derived) : c.provenance # <<>> /\ c.method # ""
    BY DEF ClaimsGood
  <2> QED
    BY <2>1 DEF Lacks
<1>8. \A c \in ToSet(r.inferred) : Lacks(c, {"confidence", "provenance", "method"}) = {}
  <2>1. \A c \in ToSet(r.inferred) : c.confidence # {} /\ c.provenance # <<>> /\ c.method # ""
    BY DEF ClaimsGood
  <2> QED
    BY <2>1 DEF Lacks
<1>9. /\ Unless(r.observationId # "", <<"observation_id is empty">>) = {}
      /\ Unless(r.timestampUtc # "", <<"timestamp_utc is empty">>) = {}
      /\ Unless("" \notin ToSet(IdsOf(r.artifacts)), <<"artifact with empty id">>) = {}
      /\ Unless("" \notin ToSet(IdsOf(Claims(r))), <<"claim with empty id">>) = {}
  BY <1>2, <1>4 DEF Unless, Headed
<1>10. /\ {<<"duplicate source key", k>> : k \in Twice(Each(Head, r.source))} = {}
       /\ {<<"duplicate artifact id", i>> : i \in Twice(IdsOf(r.artifacts)) \ {""}} = {}
       /\ {<<"duplicate claim id", i>> : i \in Twice(IdsOf(Claims(r))) \ {""}} = {}
  BY <1>1, <1>2, <1>4
<1>11. /\ UNION {Common(r, c) : c \in ToSet(Claims(r))} = {}
       /\ UNION {Lacks(c, {"provenance", "method"}) : c \in ToSet(r.derived)} = {}
       /\ UNION {Lacks(c, {"confidence", "provenance", "method"}) : c \in ToSet(r.inferred)} = {}
  BY <1>6, <1>7, <1>8
<1> DEFINE A1  == Unless(r.observationId # "", <<"observation_id is empty">>)
           A2  == Unless(r.timestampUtc # "", <<"timestamp_utc is empty">>)
           A3  == {<<"duplicate source key", k>> : k \in Twice(Each(Head, r.source))}
           A4  == Unless("" \notin ToSet(IdsOf(r.artifacts)), <<"artifact with empty id">>)
           A5  == {<<"duplicate artifact id", i>> : i \in Twice(IdsOf(r.artifacts)) \ {""}}
           A6  == Unless("" \notin ToSet(IdsOf(Claims(r))), <<"claim with empty id">>)
           A7  == {<<"duplicate claim id", i>> : i \in Twice(IdsOf(Claims(r))) \ {""}}
           A8  == UNION {Common(r, c) : c \in ToSet(Claims(r))}
           A9  == UNION {Lacks(c, {"provenance", "method"}) : c \in ToSet(r.derived)}
           A10 == UNION {Lacks(c, {"confidence", "provenance", "method"}) : c \in ToSet(r.inferred)}
<1>12. Violations(r) = UNION {A1, A2, A3, A4, A5, A6, A7, A8, A9, A10}
  BY DEF Violations
<1>13. /\ A1 = {} /\ A2 = {} /\ A3 = {} /\ A4 = {} /\ A5 = {}
       /\ A6 = {} /\ A7 = {} /\ A8 = {} /\ A9 = {} /\ A10 = {}
  BY <1>9, <1>10, <1>11
<1> HIDE DEF A1, A2, A3, A4, A5, A6, A7, A8, A9, A10
<1> QED
  BY <1>12, <1>13

-----------------------------------------------------------------------------
(* Short sequences                                                         *)

\* The entries of two sequences after one another are those of both.
LEMMA JoinedSet ==
  ASSUME NEW S, NEW s \in Seq(S), NEW t \in Seq(S)
  PROVE  /\ Len(s) \in Nat /\ Len(t) \in Nat
         /\ DOMAIN s = 1 .. Len(s) /\ DOMAIN t = 1 .. Len(t)
         /\ DOMAIN (s \o t) = 1 .. Len(s) + Len(t)
         /\ \A i \in 1 .. Len(s) : (s \o t)[i] = s[i]
         /\ \A i \in 1 .. Len(t) : (s \o t)[i + Len(s)] = t[i]
         /\ ToSet(s \o t) = ToSet(s) \cup ToSet(t)
<1> DEFINE c == s \o t
<1>1. Len(s) \in Nat /\ Len(t) \in Nat /\ DOMAIN s = 1 .. Len(s) /\ DOMAIN t = 1 .. Len(t)
  OBVIOUS
<1>2. /\ c \in Seq(S) /\ Len(c) = Len(s) + Len(t)
      /\ \A i \in 1 .. Len(s) + Len(t) : c[i] = IF i <= Len(s) THEN s[i] ELSE t[i - Len(s)]
  BY ConcatProperties
<1> HIDE DEF c
<1>3. DOMAIN c = 1 .. Len(s) + Len(t)
  BY <1>2
<1>4. \A i \in 1 .. Len(s) : c[i] = s[i]
  BY <1>1, <1>2
<1>5. \A i \in 1 .. Len(t) : c[i + Len(s)] = t[i]
  <2> TAKE i \in 1 .. Len(t)
  <2>1. i + Len(s) \in 1 .. Len(s) + Len(t) /\ ~(i + Len(s) <= Len(s)) /\ i + Len(s) - Len(s) = i
    BY <1>1
  <2> QED
    BY <1>2, <2>1
<1>6. \A i \in 1 .. Len(s) + Len(t) : i \in 1 .. Len(s) \/ \E j \in 1 .. Len(t) : i = j + Len(s)
  <2> TAKE i \in 1 .. Len(s) + Len(t)
  <2>1. i <= Len(s) => i \in 1 .. Len(s)
    BY <1>1
  <2>2. ~(i <= Len(s)) => i - Len(s) \in 1 .. Len(t) /\ i = (i - Len(s)) + Len(s)
    BY <1>1
  <2> QED
    BY <2>1, <2>2
<1>7. ToSet(c) = ToSet(s) \cup ToSet(t)
  <2>1. ASSUME NEW x \in ToSet(c) PROVE x \in ToSet(s) \cup ToSet(t)
    <3>1. PICK i \in 1 .. Len(s) + Len(t) : x = c[i]
      BY <1>3 DEF ToSet
    <3>2. CASE i \in 1 .. Len(s)
      BY <1>1, <1>4, <3>1, <3>2 DEF ToSet
    <3>3. ASSUME NEW j \in 1 .. Len(t), i = j + Len(s) PROVE x \in ToSet(t)
      BY <1>1, <1>5, <3>1, <3>3 DEF ToSet
    <3> QED
      BY <1>6, <3>2, <3>3
  <2>2. ASSUME NEW x \in ToSet(s) PROVE x \in ToSet(c)
    <3>1. PICK i \in 1 .. Len(s) : x = s[i]
      BY <1>1 DEF ToSet
    <3>2. i \in 1 .. Len(s) + Len(t)
      BY <1>1
    <3> QED
      BY <1>3, <1>4, <3>1, <3>2 DEF ToSet
  <2>3. ASSUME NEW x \in ToSet(t) PROVE x \in ToSet(c)
    <3>1. PICK i \in 1 .. Len(t) : x = t[i]
      BY <1>1 DEF ToSet
    <3>2. i + Len(s) \in 1 .. Len(s) + Len(t)
      BY <1>1
    <3> QED
      BY <1>3, <1>5, <3>1, <3>2 DEF ToSet
  <2> QED
    BY <2>1, <2>2, <2>3
<1> QED
  BY <1>1, <1>3, <1>4, <1>5, <1>7 DEF c

\* Claims that have names of their own.
NamedApart(s) == \E n \in Nat : /\ DOMAIN s = 1 .. n
                                /\ \A i, j \in 1 .. n : s[i].id = s[j].id => i = j

\* So do those of two sequences whose names differ.
LEMMA JoinedApart ==
  ASSUME NEW S, NEW s \in Seq(S), NEW t \in Seq(S), NamedApart(s), NamedApart(t),
         \A c \in ToSet(s), d \in ToSet(t) : c.id # d.id
  PROVE  NamedApart(s \o t)
<1> DEFINE c == s \o t
           m == Len(s)
           n == Len(t)
<1>1. /\ m \in Nat /\ n \in Nat /\ DOMAIN s = 1 .. m /\ DOMAIN t = 1 .. n /\ DOMAIN c = 1 .. m + n
      /\ \A i \in 1 .. m : c[i] = s[i]
      /\ \A i \in 1 .. n : c[i + m] = t[i]
  BY JoinedSet
<1>2. \A i, j \in 1 .. m : s[i].id = s[j].id => i = j
  BY DEF NamedApart
<1>3. \A i, j \in 1 .. n : t[i].id = t[j].id => i = j
  BY DEF NamedApart
<1>4. \A i \in 1 .. m, j \in 1 .. n : s[i].id # t[j].id
  BY <1>1 DEF ToSet
<1> HIDE DEF c, m, n
<1>5. ASSUME NEW i \in 1 .. m + n
      PROVE  i \in 1 .. m \/ \E k \in 1 .. n : i = k + m
  <2>1. i <= m => i \in 1 .. m
    BY <1>1
  <2>2. ~(i <= m) => i - m \in 1 .. n /\ i = (i - m) + m
    BY <1>1
  <2> QED
    BY <2>1, <2>2
<1>6. ASSUME NEW i \in 1 .. m + n, NEW j \in 1 .. m + n, c[i].id = c[j].id
      PROVE  i = j
  <2>1. CASE i \in 1 .. m /\ j \in 1 .. m
    BY <1>1, <1>2, <1>6, <2>1
  <2>2. ASSUME NEW k \in 1 .. n, i = k + m, j \in 1 .. m PROVE FALSE
    BY <1>1, <1>4, <1>6, <2>2
  <2>3. ASSUME NEW k \in 1 .. n, j = k + m, i \in 1 .. m PROVE FALSE
    BY <1>1, <1>4, <1>6, <2>3
  <2>4. ASSUME NEW k \in 1 .. n, NEW l \in 1 .. n, i = k + m, j = l + m PROVE i = j
    BY <1>1, <1>3, <1>6, <2>4
  <2> QED
    BY <1>5, <2>1, <2>2, <2>3, <2>4
<1>7. m + n \in Nat
  BY <1>1
<1> QED
  BY <1>1, <1>6, <1>7 DEF NamedApart, c

\* What short tuples hold.
LEMMA FewEntries ==
  /\ \A S : <<>> \in Seq(S) /\ ToSet(<<>>) = {}
  /\ \A x : ToSet(<<x>>) = {x} /\ <<x>> \in Seq({x})
  /\ \A x, y : ToSet(<<x, y>>) = {x, y}
  /\ \A x, y, z : ToSet(<<x, y, z>>) = {x, y, z}
<1>1. \A S : <<>> \in Seq(S) /\ ToSet(<<>>) = {}
  BY DEF ToSet
<1>2. ASSUME NEW x PROVE ToSet(<<x>>) = {x} /\ <<x>> \in Seq({x})
  <2>1. DOMAIN <<x>> = {1} /\ <<x>>[1] = x /\ <<x>> \in Seq({x})
    OBVIOUS
  <2> QED
    BY <2>1 DEF ToSet
<1>3. ASSUME NEW x, NEW y PROVE ToSet(<<x, y>>) = {x, y}
  <2>1. DOMAIN <<x, y>> = {1, 2} /\ <<x, y>>[1] = x /\ <<x, y>>[2] = y
    OBVIOUS
  <2> QED
    BY <2>1 DEF ToSet
<1>4. ASSUME NEW x, NEW y, NEW z PROVE ToSet(<<x, y, z>>) = {x, y, z}
  <2>1. DOMAIN <<x, y, z>> = {1, 2, 3} /\ <<x, y, z>>[1] = x /\ <<x, y, z>>[2] = y /\ <<x, y, z>>[3] = z
    OBVIOUS
  <2> QED
    BY <2>1 DEF ToSet
<1> QED
  BY <1>1, <1>2, <1>3, <1>4

\* The claim with a name that no other has.
LEMMA ClaimFoundAt ==
  ASSUME NEW S, NEW claims \in Seq(S), NEW i \in DOMAIN claims, NEW name, claims[i].name = name,
         \A j \in DOMAIN claims : claims[j].name = name => j = i
  PROVE  FindClaim(claims, name) = {claims[i]}
<1> DEFINE hits == {j \in DOMAIN claims : claims[j].name = name}
<1>1. hits = {i} /\ i \in Nat
  OBVIOUS
<1> HIDE DEF hits
<1>2. Min(hits) = i
  BY <1>1, LeastOf
<1> QED
  BY <1>1, <1>2 DEF FindClaim, hits

\* No claim has a name that none has.
LEMMA NoClaimFound ==
  ASSUME NEW claims, NEW name, \A c \in ToSet(claims) : c.name # name
  PROVE  FindClaim(claims, name) = {}
<1>1. {j \in DOMAIN claims : claims[j].name = name} = {}
  BY DEF ToSet
<1> QED
  BY <1>1 DEF FindClaim

\* The sequence of one member.
LEMMA SequenceOfOne ==
  /\ SetToSeq({}) = <<>>
  /\ \A x : SetToSeq({x}) = <<x>>
<1>1. SetToSeq({}) = <<>>
  BY AsSequence DEF AtMostOne
<1>2. ASSUME NEW x PROVE SetToSeq({x}) = <<x>>
  <2>1. Cardinality({x}) = 1
    BY FS_Singleton
  <2>2. [i \in 1 .. 1 |-> x] \in [1 .. 1 -> {x}] /\ IsInjective([i \in 1 .. 1 |-> x])
    BY DEF IsInjective
  <2>3. SetToSeq({x}) = CHOOSE f \in [1 .. 1 -> {x}] : IsInjective(f)
    BY <2>1 DEF SetToSeq
  <2>4. SetToSeq({x}) \in [1 .. 1 -> {x}]
    BY <2>2, <2>3
  <2>5. \A f \in [1 .. 1 -> {x}] : f = <<x>>
    <3> TAKE f \in [1 .. 1 -> {x}]
    <3>1. DOMAIN f = {1} /\ f[1] = x /\ f = [i \in {1} |-> f[i]]
      OBVIOUS
    <3>2. DOMAIN <<x>> = {1} /\ <<x>>[1] = x /\ <<x>> = [i \in {1} |-> <<x>>[i]]
      OBVIOUS
    <3> QED
      BY <3>1, <3>2
  <2> QED
    BY <2>4, <2>5
<1> QED
  BY <1>1, <1>2

\* The last of three, picked alone.
LEMMA PickThird ==
  ASSUME NEW x, NEW y, NEW z
  PROVE  Pick(<<x, y, z>>, {3}) = <<z>>
<1> DEFINE s == <<x, y, z>>
           p == Pick(s, {3})
<1>1. s \in Seq({x, y, z}) /\ s[3] = z /\ {3} \in SUBSET DOMAIN s
  OBVIOUS
<1> HIDE DEF s
<1>2. Cardinality({3}) = 1
  BY FS_Singleton
<1>3. DOMAIN p = 1 .. 1 /\ p = [k \in 1 .. 1 |-> p[k]]
  BY <1>2 DEF Pick
<1>4. \A k \in DOMAIN p : \E i \in {3} : p[k] = s[i]
  BY <1>1, Picked
<1> HIDE DEF p
<1>5. p[1] = z
  BY <1>1, <1>3, <1>4
<1>6. p = <<z>>
  <2>1. <<z>> = [k \in 1 .. 1 |-> z]
    OBVIOUS
  <2>2. \A k \in 1 .. 1 : p[k] = z
    BY <1>5
  <2> QED
    BY <1>3, <2>1, <2>2
<1> QED
  BY <1>6 DEF p, s

-----------------------------------------------------------------------------
(* What the analysis says                                                  *)

\* What appendEvidence() adds.
ObservedOf(a) == <<
  Observed("sa-threshold", "binarization_threshold", a.threshold, {}, "source-image"),
  Observed("sa-ref-area-px", "reference_area", a.reference.areaPx, {"px^2"}, "source-image"),
  Observed("sa-subj-area-px", "subject_area", a.subject.areaPx, {"px^2"}, "source-image"),
  Observed("sa-subj-length-px", "subject_length", a.lengthPx, {"px"}, "source-image"),
  Observed("sa-subj-width-px", "subject_width", a.widthPx, {"px"}, "source-image"),
  Observed("sa-subj-axis-rad", "subject_major_axis_angle", a.axis, {"rad"}, "source-image"),
  Observed("sa-subj-holes", "subject_hole_count", a.subject.holeCount, {}, "source-image") >>

DerivedOf(a) == <<
  Derived("sa-mm-per-px", "mm_per_pixel", a.mmPerPixel, "mm/px", <<"sa-ref-area-px">>),
  Derived("sa-subj-length-mm", "subject_length", a.lengthMm, "mm",
          <<"sa-mm-per-px", "sa-subj-length-px">>),
  Derived("sa-subj-width-mm", "subject_width", a.widthMm, "mm",
          <<"sa-mm-per-px", "sa-subj-width-px">>) >>

ObservedNames == {"sa-threshold", "sa-ref-area-px", "sa-subj-area-px", "sa-subj-length-px",
                  "sa-subj-width-px", "sa-subj-axis-rad", "sa-subj-holes"}
DerivedNames  == {"sa-mm-per-px", "sa-subj-length-mm", "sa-subj-width-mm"}

\* What is observed is named apart and comes from the image.
LEMMA ObservedGood ==
  ASSUME NEW a
  PROVE  /\ ObservedOf(a) \in Seq(ToSet(ObservedOf(a))) /\ ObservedOf(a) # <<>>
         /\ NamedApart(ObservedOf(a))
         /\ {c.id : c \in ToSet(ObservedOf(a))} = ObservedNames
         /\ \A ids : \A c \in ToSet(ObservedOf(a)) : ClaimGood(c, ids)
<1> DEFINE s  == ObservedOf(a)
           o1 == Observed("sa-threshold", "binarization_threshold", a.threshold, {}, "source-image")
           o2 == Observed("sa-ref-area-px", "reference_area", a.reference.areaPx, {"px^2"}, "source-image")
           o3 == Observed("sa-subj-area-px", "subject_area", a.subject.areaPx, {"px^2"}, "source-image")
           o4 == Observed("sa-subj-length-px", "subject_length", a.lengthPx, {"px"}, "source-image")
           o5 == Observed("sa-subj-width-px", "subject_width", a.widthPx, {"px"}, "source-image")
           o6 == Observed("sa-subj-axis-rad", "subject_major_axis_angle", a.axis, {"rad"}, "source-image")
           o7 == Observed("sa-subj-holes", "subject_hole_count", a.subject.holeCount, {}, "source-image")
<1>1. ASSUME NEW i, NEW n, NEW x, NEW u, i # ""
      PROVE  /\ Observed(i, n, x, u, "source-image").id = i
             /\ \A ids : ClaimGood(Observed(i, n, x, u, "source-image"), ids)
  <2>1. ToSet(<<"source-image">>) = {"source-image"}
    BY FewEntries
  <2> QED
    BY <1>1, <2>1 DEF Observed, Claim, ClaimGood
<1>2. /\ o1.id = "sa-threshold" /\ o2.id = "sa-ref-area-px" /\ o3.id = "sa-subj-area-px"
      /\ o4.id = "sa-subj-length-px" /\ o5.id = "sa-subj-width-px"
      /\ o6.id = "sa-subj-axis-rad" /\ o7.id = "sa-subj-holes"
  BY DEF Observed, Claim
<1>3. /\ \A ids : ClaimGood(o1, ids)
      /\ \A ids : ClaimGood(o2, ids)
      /\ \A ids : ClaimGood(o3, ids)
      /\ \A ids : ClaimGood(o4, ids)
      /\ \A ids : ClaimGood(o5, ids)
      /\ \A ids : ClaimGood(o6, ids)
      /\ \A ids : ClaimGood(o7, ids)
  BY <1>1
<1>4. s = <<o1, o2, o3, o4, o5, o6, o7>>
  BY DEF ObservedOf
<1> HIDE DEF s, o1, o2, o3, o4, o5, o6, o7
<1>5. \A i \in 1 .. 7 : i = 1 \/ i = 2 \/ i = 3 \/ i = 4 \/ i = 5 \/ i = 6 \/ i = 7
  OBVIOUS
<1>6. /\ DOMAIN s = 1 .. 7 /\ s \in Seq({o1, o2, o3, o4, o5, o6, o7}) /\ s # <<>>
      /\ s[1] = o1 /\ s[2] = o2 /\ s[3] = o3 /\ s[4] = o4 /\ s[5] = o5 /\ s[6] = o6 /\ s[7] = o7
  BY <1>4
<1>7. ToSet(s) = {o1, o2, o3, o4, o5, o6, o7}
  BY <1>5, <1>6 DEF ToSet
<1>8. NamedApart(s)
  <2>1. /\ s[1].id = "sa-threshold" /\ s[2].id = "sa-ref-area-px" /\ s[3].id = "sa-subj-area-px"
        /\ s[4].id = "sa-subj-length-px" /\ s[5].id = "sa-subj-width-px"
        /\ s[6].id = "sa-subj-axis-rad" /\ s[7].id = "sa-subj-holes"
    BY <1>2, <1>6
  <2>2. \A i, j \in 1 .. 7 : s[i].id = s[j].id => i = j
    BY <1>5, <2>1
  <2> QED
    BY <1>6, <2>2 DEF NamedApart
<1>9. {c.id : c \in ToSet(s)} = ObservedNames
  BY <1>2, <1>7 DEF ObservedNames
<1>10. \A ids : \A c \in ToSet(s) : ClaimGood(c, ids)
  BY <1>3, <1>7
<1> QED
  BY <1>6, <1>7, <1>8, <1>9, <1>10 DEF s

\* What is derived is named apart and comes from what is observed.
LEMMA DerivedGood ==
  ASSUME NEW a
  PROVE  /\ DerivedOf(a) \in Seq(ToSet(DerivedOf(a)))
         /\ NamedApart(DerivedOf(a))
         /\ {c.id : c \in ToSet(DerivedOf(a))} = DerivedNames
         /\ \A ids : ObservedNames \cup DerivedNames \subseteq ids =>
              \A c \in ToSet(DerivedOf(a)) : ClaimGood(c, ids)
         /\ \A c \in ToSet(DerivedOf(a)) : c.provenance # <<>> /\ c.method # ""
         /\ FindClaim(DerivedOf(a), "subject_width") = {DerivedOf(a)[3]}
         /\ Of(DerivedOf(a)[3].value) = a.widthMm
<1> DEFINE s  == DerivedOf(a)
           d1 == Derived("sa-mm-per-px", "mm_per_pixel", a.mmPerPixel, "mm/px", <<"sa-ref-area-px">>)
           d2 == Derived("sa-subj-length-mm", "subject_length", a.lengthMm, "mm",
                         <<"sa-mm-per-px", "sa-subj-length-px">>)
           d3 == Derived("sa-subj-width-mm", "subject_width", a.widthMm, "mm",
                         <<"sa-mm-per-px", "sa-subj-width-px">>)
<1>1. /\ d1.id = "sa-mm-per-px" /\ d2.id = "sa-subj-length-mm" /\ d3.id = "sa-subj-width-mm"
      /\ d1.name = "mm_per_pixel" /\ d2.name = "subject_length" /\ d3.name = "subject_width"
      /\ d1.confidence = {} /\ d2.confidence = {} /\ d3.confidence = {}
      /\ d1.method # "" /\ d2.method # "" /\ d3.method # ""
      /\ d3.value = Num(a.widthMm)
  BY DEF Derived, Claim, Method
<1>2. /\ d1.provenance = <<"sa-ref-area-px">>
      /\ d2.provenance = <<"sa-mm-per-px", "sa-subj-length-px">>
      /\ d3.provenance = <<"sa-mm-per-px", "sa-subj-width-px">>
  BY DEF Derived, Claim
<1>3. /\ ToSet(d1.provenance) = {"sa-ref-area-px"}
      /\ ToSet(d2.provenance) = {"sa-mm-per-px", "sa-subj-length-px"}
      /\ ToSet(d3.provenance) = {"sa-mm-per-px", "sa-subj-width-px"}
      /\ d1.provenance # <<>> /\ d2.provenance # <<>> /\ d3.provenance # <<>>
  <2>1. ASSUME NEW x, NEW y PROVE <<x>> # <<>> /\ <<x, y>> # <<>>
    OBVIOUS
  <2> HIDE DEF d1, d2, d3
  <2> QED
    BY <1>2, <2>1, FewEntries
<1>4. s = <<d1, d2, d3>>
  BY DEF DerivedOf
<1> HIDE DEF s, d1, d2, d3
<1>5. /\ DOMAIN s = 1 .. 3 /\ s[1] = d1 /\ s[2] = d2 /\ s[3] = d3
      /\ s \in Seq({d1, d2, d3}) /\ ToSet(s) = {d1, d2, d3}
  BY <1>4, FewEntries
<1>6. \A i \in 1 .. 3 : i = 1 \/ i = 2 \/ i = 3
  OBVIOUS
<1>7. NamedApart(s)
  <2>1. \A i, j \in 1 .. 3 : s[i].id = s[j].id => i = j
    BY <1>1, <1>5, <1>6
  <2> QED
    BY <1>5, <2>1 DEF NamedApart
<1>8. {c.id : c \in ToSet(s)} = DerivedNames
  BY <1>1, <1>5 DEF DerivedNames
<1>9. ASSUME NEW ids, ObservedNames \cup DerivedNames \subseteq ids, NEW c \in ToSet(s)
      PROVE  ClaimGood(c, ids)
  <2>1. {"sa-ref-area-px", "sa-mm-per-px", "sa-subj-length-px", "sa-subj-width-px"} \subseteq ids
    BY <1>9 DEF ObservedNames, DerivedNames
  <2> QED
    BY <1>1, <1>3, <1>5, <1>9, <2>1 DEF ClaimGood
<1>10. \A c \in ToSet(s) : c.provenance # <<>> /\ c.method # ""
  BY <1>1, <1>3, <1>5
<1>11. FindClaim(s, "subject_width") = {s[3]}
  <2>1. s[1].name # "subject_width" /\ s[2].name # "subject_width" /\ s[3].name = "subject_width"
    BY <1>1, <1>5
  <2>2. \A j \in 1 .. 3 : s[j].name = "subject_width" => j = 3
    BY <1>6, <2>1
  <2>3. 3 \in DOMAIN s /\ \A j \in DOMAIN s : s[j].name = "subject_width" => j = 3
    BY <1>5, <2>2
  <2> QED
    BY <1>5, <2>1, <2>3, ClaimFoundAt
<1>12. Of(s[3].value) = a.widthMm
  <2>1. \A x : Of(Num(x)) = x
    BY DEF Of, Num
  <2>2. s[3].value = Num(a.widthMm)
    BY <1>1, <1>5
  <2> QED
    BY <2>1, <2>2
<1> QED
  BY <1>5, <1>7, <1>8, <1>9, <1>10, <1>11, <1>12 DEF s

\* The entries of two sequences after one another.
LEMMA Both ==
  ASSUME NEW S, NEW s \in Seq(S), NEW t \in Seq(S)
  PROVE  ToSet(s \o t) = ToSet(s) \cup ToSet(t)
  BY JoinedSet

\* The entries of three.
LEMMA AllThree ==
  ASSUME NEW S, NEW s \in Seq(S), NEW t \in Seq(S), NEW u \in Seq(S)
  PROVE  ToSet((s \o t) \o u) = ToSet(s) \cup ToSet(t) \cup ToSet(u)
<1> DEFINE c == s \o t
<1>1. c \in Seq(S) /\ ToSet(c) = ToSet(s) \cup ToSet(t)
  BY Both, Extended
<1> HIDE DEF c
<1>2. ToSet(c \o u) = ToSet(c) \cup ToSet(u)
  BY <1>1, Both
<1> QED
  BY <1>1, <1>2 DEF c

\* What is inferred is named apart and comes from the other claims.
InferredGood(i) ==
  /\ \E S : i \in Seq(S)
  /\ NamedApart(i) /\ {c.id : c \in ToSet(i)} \subseteq {"fc-class", "fc-nominal"}
  /\ \A ids : DerivedNames \cup ObservedNames \cup {c.id : c \in ToSet(i)} \subseteq ids =>
       \A c \in ToSet(i) : ClaimGood(c, ids)
  /\ \A c \in ToSet(i) : c.confidence # {} /\ c.provenance # <<>> /\ c.method # ""

\* The claims of a record that was measured and classified are good if what is
\* inferred is.
LEMMA MeasuredGood ==
  ASSUME NEW r, NEW a, r.observed = ObservedOf(a), r.derived = DerivedOf(a), InferredGood(r.inferred)
  PROVE  ClaimsGood(r)
<1> PICK S : r.inferred \in Seq(S)
  BY DEF InferredGood
<1> DEFINE o == ObservedOf(a)
           d == DerivedOf(a)
           i == r.inferred
           U == ToSet(o) \cup ToSet(d) \cup S
           names == {c.id : c \in ToSet(i)}
           ids == ObservedNames \cup DerivedNames \cup names
<1>1. o \in Seq(U) /\ d \in Seq(U) /\ i \in Seq(U)
  <2>1. o \in Seq(ToSet(o)) /\ d \in Seq(ToSet(d)) /\ i \in Seq(S)
    BY ObservedGood, DerivedGood
  <2>2. ToSet(o) \subseteq U /\ ToSet(d) \subseteq U /\ S \subseteq U
    OBVIOUS
  <2> HIDE DEF o, d, i, U
  <2> QED
    BY <2>1, <2>2, SeqMonotonic
<1>2. Claims(r) = (o \o d) \o i
  BY DEF Claims
<1>3. {c.id : c \in ToSet(o)} = ObservedNames /\ {c.id : c \in ToSet(d)} = DerivedNames
  BY ObservedGood, DerivedGood
<1>4. NamedApart(o) /\ NamedApart(d) /\ NamedApart(i)
  BY ObservedGood, DerivedGood DEF InferredGood
<1>5. names \subseteq {"fc-class", "fc-nominal"}
  BY DEF InferredGood
<1>6. /\ \A c \in ToSet(o) : ClaimGood(c, ids)
      /\ \A c \in ToSet(d) : ClaimGood(c, ids)
      /\ \A c \in ToSet(i) : ClaimGood(c, ids)
  <2>1. ObservedNames \cup DerivedNames \subseteq ids /\ DerivedNames \cup ObservedNames \cup names \subseteq ids
    OBVIOUS
  <2> HIDE DEF ids
  <2> QED
    BY <2>1, ObservedGood, DerivedGood DEF InferredGood
<1>7. \A c \in ToSet(d) : c.provenance # <<>> /\ c.method # ""
  BY DerivedGood
<1> HIDE DEF o, d, i, U
<1>8. o \o d \in Seq(U) /\ ToSet(o \o d) = ToSet(o) \cup ToSet(d)
  <2>1. o \o d \in Seq(U)
    BY <1>1, Extended
  <2>2. ToSet(o \o d) = ToSet(o) \cup ToSet(d)
    BY <1>1, Both
  <2> QED
    BY <2>1, <2>2
<1>9. NamedApart(o \o d)
  <2>1. \A x \in ObservedNames, y \in DerivedNames : x # y
    BY DEF ObservedNames, DerivedNames
  <2>2. \A c \in ToSet(o), e \in ToSet(d) : c.id # e.id
    BY <1>3, <2>1
  <2> QED
    BY <1>1, <1>4, <2>2, JoinedApart
<1>10. NamedApart((o \o d) \o i)
  <2>1. \A x \in ObservedNames \cup DerivedNames, y \in names : x # y
    BY <1>5 DEF ObservedNames, DerivedNames
  <2>2. \A c \in ToSet(o \o d), e \in ToSet(i) : c.id # e.id
    BY <1>3, <1>8, <2>1
  <2> QED
    BY <1>1, <1>4, <1>8, <1>9, <2>2, JoinedApart
<1>11. ToSet(Claims(r)) = ToSet(o) \cup ToSet(d) \cup ToSet(i)
  <2>1. ToSet((o \o d) \o i) = ToSet(o) \cup ToSet(d) \cup ToSet(i)
    BY <1>1, AllThree
  <2> QED
    BY <1>2, <2>1
<1>12. {c.id : c \in ToSet(Claims(r))} = ids
  BY <1>3, <1>11
<1> HIDE DEF ids
<1>13. \A c \in ToSet(Claims(r)) : ClaimGood(c, {e.id : e \in ToSet(Claims(r))})
  BY <1>6, <1>11, <1>12
<1>14. \E n \in Nat : /\ DOMAIN Claims(r) = 1 .. n
                      /\ \A k, j \in 1 .. n : Claims(r)[k].id = Claims(r)[j].id => k = j
  BY <1>2, <1>10 DEF NamedApart
<1>15. \A c \in ToSet(r.derived) : c.provenance # <<>> /\ c.method # ""
  BY <1>7 DEF d
<1> QED
  BY <1>13, <1>14, <1>15 DEF ClaimsGood, InferredGood

\* A sequence of two or three is a tuple.
LEMMA AsTuple ==
  /\ \A S : \A s \in Seq(S) : Len(s) = 2 => s = <<s[1], s[2]>>
  /\ \A S : \A s \in Seq(S) : Len(s) = 3 => s = <<s[1], s[2], s[3]>>
<1>1. ASSUME NEW S, NEW s \in Seq(S), Len(s) = 2 PROVE s = <<s[1], s[2]>>
  <2>1. DOMAIN s = 1 .. 2 /\ s = [i \in 1 .. 2 |-> s[i]]
    BY <1>1
  <2>2. \A i \in 1 .. 2 : i = 1 \/ i = 2
    OBVIOUS
  <2> DEFINE t == <<s[1], s[2]>>
  <2>3. t = [i \in 1 .. 2 |-> t[i]] /\ t[1] = s[1] /\ t[2] = s[2]
    OBVIOUS
  <2> HIDE DEF t
  <2>4. \A i \in 1 .. 2 : t[i] = s[i]
    BY <2>2, <2>3
  <2>5. t = s
    BY <2>1, <2>3, <2>4
  <2> QED
    BY <2>5 DEF t
<1>2. ASSUME NEW S, NEW s \in Seq(S), Len(s) = 3 PROVE s = <<s[1], s[2], s[3]>>
  <2>1. DOMAIN s = 1 .. 3 /\ s = [i \in 1 .. 3 |-> s[i]]
    BY <1>2
  <2>2. \A i \in 1 .. 3 : i = 1 \/ i = 2 \/ i = 3
    OBVIOUS
  <2> DEFINE t == <<s[1], s[2], s[3]>>
  <2>3. t = [i \in 1 .. 3 |-> t[i]] /\ t[1] = s[1] /\ t[2] = s[2] /\ t[3] = s[3]
    OBVIOUS
  <2> HIDE DEF t
  <2>4. \A i \in 1 .. 3 : t[i] = s[i]
    BY <2>2, <2>3
  <2>5. t = s
    BY <2>1, <2>3, <2>4
  <2> QED
    BY <2>5 DEF t
<1> QED
  BY <1>1, <1>2

\* Short tuples after one another.
LEMMA TuplesJoined ==
  /\ \A x, y : <<x>> \o <<y>> = <<x, y>>
  /\ \A x, y, z : <<x>> \o <<y, z>> = <<x, y, z>>
  /\ \A x, y, z : <<x, y>> \o <<z>> = <<x, y, z>>
<1>2. ASSUME NEW S, NEW s \in Seq(S), NEW t \in Seq(S), Len(s) = 1, Len(t) = 1
      PROVE  s \o t = <<s[1], t[1]>>
  <2> DEFINE c == s \o t
  <2>1. /\ c \in Seq(S) /\ Len(c) = 2
        /\ \A i \in 1 .. 2 : c[i] = IF i <= 1 THEN s[i] ELSE t[i - 1]
    BY <1>2, ConcatProperties
  <2> HIDE DEF c
  <2>2. c[1] = s[1] /\ c[2] = t[1]
    BY <2>1
  <2>3. c = <<c[1], c[2]>>
    BY <2>1, AsTuple
  <2> QED
    BY <2>2, <2>3 DEF c
<1>3. ASSUME NEW S, NEW s \in Seq(S), NEW t \in Seq(S), Len(s) = 1, Len(t) = 2
      PROVE  s \o t = <<s[1], t[1], t[2]>>
  <2> DEFINE c == s \o t
  <2>1. /\ c \in Seq(S) /\ Len(c) = 3
        /\ \A i \in 1 .. 3 : c[i] = IF i <= 1 THEN s[i] ELSE t[i - 1]
    <3>1. /\ c \in Seq(S) /\ Len(c) = Len(s) + Len(t)
          /\ \A i \in 1 .. Len(s) + Len(t) : c[i] = IF i <= Len(s) THEN s[i] ELSE t[i - Len(s)]
      BY ConcatProperties
    <3> HIDE DEF c
    <3>2. Len(s) + Len(t) = 3
      BY <1>3
    <3> QED
      BY <1>3, <3>1, <3>2
  <2> HIDE DEF c
  <2>2. c[1] = s[1] /\ c[2] = t[1] /\ c[3] = t[2]
    BY <2>1
  <2>3. c = <<c[1], c[2], c[3]>>
    BY <2>1, AsTuple
  <2> QED
    BY <2>2, <2>3 DEF c
<1>4. ASSUME NEW S, NEW s \in Seq(S), NEW t \in Seq(S), Len(s) = 2, Len(t) = 1
      PROVE  s \o t = <<s[1], s[2], t[1]>>
  <2> DEFINE c == s \o t
  <2>1. /\ c \in Seq(S) /\ Len(c) = 3
        /\ \A i \in 1 .. 3 : c[i] = IF i <= 2 THEN s[i] ELSE t[i - 2]
    <3>1. /\ c \in Seq(S) /\ Len(c) = Len(s) + Len(t)
          /\ \A i \in 1 .. Len(s) + Len(t) : c[i] = IF i <= Len(s) THEN s[i] ELSE t[i - Len(s)]
      BY ConcatProperties
    <3> HIDE DEF c
    <3>2. Len(s) + Len(t) = 3
      BY <1>4
    <3> QED
      BY <1>4, <3>1, <3>2
  <2> HIDE DEF c
  <2>2. c[1] = s[1] /\ c[2] = s[2] /\ c[3] = t[1]
    BY <2>1
  <2>3. c = <<c[1], c[2], c[3]>>
    BY <2>1, AsTuple
  <2> QED
    BY <2>2, <2>3 DEF c
<1>5. ASSUME NEW x, NEW y PROVE <<x>> \o <<y>> = <<x, y>>
  <2> DEFINE s == <<x>>
             t == <<y>>
  <2>1. /\ s \in Seq({x, y}) /\ Len(s) = 1 /\ s[1] = x
        /\ t \in Seq({x, y}) /\ Len(t) = 1 /\ t[1] = y
    OBVIOUS
  <2> HIDE DEF s, t
  <2>2. s \o t = <<s[1], t[1]>>
    BY <1>2, <2>1
  <2> QED
    BY <2>1, <2>2 DEF s, t
<1>6. ASSUME NEW x, NEW y, NEW z PROVE <<x>> \o <<y, z>> = <<x, y, z>>
  <2> DEFINE s == <<x>>
             t == <<y, z>>
  <2>1. /\ s \in Seq({x, y, z}) /\ Len(s) = 1 /\ s[1] = x
        /\ t \in Seq({x, y, z}) /\ Len(t) = 2 /\ t[1] = y /\ t[2] = z
    OBVIOUS
  <2> HIDE DEF s, t
  <2>2. s \o t = <<s[1], t[1], t[2]>>
    BY <1>3, <2>1
  <2> QED
    BY <2>1, <2>2 DEF s, t
<1>7. ASSUME NEW x, NEW y, NEW z PROVE <<x, y>> \o <<z>> = <<x, y, z>>
  <2> DEFINE s == <<x, y>>
             t == <<z>>
  <2>1. /\ s \in Seq({x, y, z}) /\ Len(s) = 2 /\ s[1] = x /\ s[2] = y
        /\ t \in Seq({x, y, z}) /\ Len(t) = 1 /\ t[1] = z
    OBVIOUS
  <2> HIDE DEF s, t
  <2>2. s \o t = <<s[1], s[2], t[1]>>
    BY <1>4, <2>1
  <2> QED
    BY <2>1, <2>2 DEF s, t
<1> QED
  BY <1>5, <1>6, <1>7
-----------------------------------------------------------------------------
(* The record of a measured scene                                          *)

Thread  == [name |-> "thread_pitch", reason |-> "one silhouette"]
Left    == << [name |-> "fastener_class", reason |-> "not attempted"],
              [name |-> "nominal_size", reason |-> "not attempted"], Thread >>
SideOn  == [action |-> "side-on view", resolves |-> <<"thread_pitch">>]

\* The record of the image alone.
Blank(r) == /\ Sound(r) /\ Headed(r)
            /\ r.observed = <<>> /\ r.derived = <<>> /\ r.inferred = <<>>
            /\ r.unresolved = <<>> /\ r.recommended = <<>>

\* The record with what the analysis says.
LEMMA Measures ==
  ASSUME NEW r, Blank(r), NEW a, NEW e, e = AppendEvidence(r, a, "source-image")
  PROVE  /\ Headed(e)
         /\ e.observed = ObservedOf(a) /\ e.derived = DerivedOf(a) /\ e.inferred = <<>>
         /\ e.unresolved = Left /\ e.recommended = <<SideOn>>
<1> DEFINE obs == ObservedOf(a)
           drv == DerivedOf(a)
           unr == Left
           rec == <<SideOn>>
<1>1. e = [r EXCEPT !.observed = @ \o obs, !.derived = @ \o drv,
                    !.unresolved = @ \o unr, !.recommended = @ \o rec]
  BY DEF AppendEvidence, ObservedOf, DerivedOf, Left, Thread, SideOn
<1>2. <<>> \o obs = obs /\ <<>> \o drv = drv /\ <<>> \o unr = unr /\ <<>> \o rec = rec
  <2>1. obs \in Seq(ToSet(obs)) /\ drv \in Seq(ToSet(drv))
    BY ObservedGood, DerivedGood
  <2>2. \A S : \A s \in Seq(S) : <<>> \o s = s
    BY ConcatEmptySeq
  <2>3. \E S : unr \in Seq(S)
    <3>1. \A x, y, z : <<x, y, z>> \in Seq({x, y, z})
      OBVIOUS
    <3> QED
      BY <3>1 DEF Left
  <2>4. rec \in Seq({SideOn})
    BY FewEntries
  <2> HIDE DEF obs, drv, unr, rec
  <2> QED
    BY <2>1, <2>2, <2>3, <2>4
<1> HIDE DEF obs, drv, unr, rec
<1>3. /\ e.observed = r.observed \o obs /\ e.derived = r.derived \o drv
      /\ e.unresolved = r.unresolved \o unr /\ e.recommended = r.recommended \o rec
      /\ e.inferred = r.inferred /\ e.observationId = r.observationId
      /\ e.timestampUtc = r.timestampUtc /\ e.source = r.source /\ e.artifacts = r.artifacts
  BY <1>1 DEF Blank, Sound, Records
<1>4. /\ e.observed = obs /\ e.derived = drv /\ e.unresolved = unr /\ e.recommended = rec
      /\ e.inferred = <<>>
  BY <1>2, <1>3 DEF Blank
<1>5. Headed(e)
  BY <1>3 DEF Blank, Headed
<1> QED
  BY <1>4, <1>5 DEF obs, drv, unr, rec

\* What the analyzer left open and the classifier does not restate.
LEMMA ThreadIsLeft ==
  Pick(Left, {i \in DOMAIN Left : Left[i].name \notin {"fastener_class", "nominal_size"}}) = <<Thread>>
<1> DEFINE u1 == [name |-> "fastener_class", reason |-> "not attempted"]
           u2 == [name |-> "nominal_size", reason |-> "not attempted"]
<1>1. u1.name = "fastener_class" /\ u2.name = "nominal_size" /\ Thread.name = "thread_pitch"
  BY DEF Thread
<1>2. Left = <<u1, u2, Thread>>
  BY DEF Left
<1> HIDE DEF u1, u2
<1>3. DOMAIN Left = 1 .. 3 /\ Left[1] = u1 /\ Left[2] = u2 /\ Left[3] = Thread
  BY <1>2
<1>4. \A i \in 1 .. 3 : i = 1 \/ i = 2 \/ i = 3
  OBVIOUS
<1>5. {i \in DOMAIN Left : Left[i].name \notin {"fastener_class", "nominal_size"}} = {3}
  <2>1. /\ Left[1].name \in {"fastener_class", "nominal_size"}
        /\ Left[2].name \in {"fastener_class", "nominal_size"}
        /\ Left[3].name \notin {"fastener_class", "nominal_size"}
    BY <1>1, <1>3
  <2> QED
    BY <1>3, <1>4, <2>1
<1> QED
  BY <1>2, <1>5, PickThird

-----------------------------------------------------------------------------
(* What the classifier adds                                                *)

Sibling(c) == IF c.class = "bolt_or_screw" THEN "bolt_vs_screw" ELSE "nut_vs_washer"
SideView(c) == [action   |-> IF c.class = "bolt_or_screw" THEN "head from the side" ELSE "side profile",
                resolves |-> <<Sibling(c)>>]
NotSeen(c)  == [name |-> Sibling(c), reason |-> "not visible from above"]
NoSize      == [name |-> "nominal_size", reason |-> "no size within tolerance"]
NoFamily    == [name |-> "fastener_class", reason |-> "no fastener family"]
NoSizeToo == [name |-> "nominal_size", reason |-> "no fastener class"]
ClassClaim(c) == Claim("fc-class", "fastener_class", Str(c.class), {}, {c.confidence},
                       <<"sa-subj-length-mm", "sa-subj-width-mm", "sa-subj-holes">>, Model)
SizeClaim(n)  == Claim("fc-nominal", "nominal_size", Str(n.designation), {}, {n.confidence},
                       <<"fc-class", "sa-subj-width-mm">>, Model)

\* A record has the text and the measurements of an analysis.
OfAnalysis(r, a) == Headed(r) /\ r.observed = ObservedOf(a) /\ r.derived = DerivedOf(a)

\* Nothing is inferred of what is unknown, and both names stay open; a class is
\* inferred alone or with a size, and what is not is open.
LEMMA Shapes ==
  ASSUME NEW r, Blank(r), NEW a \in Analyses,
         NEW s, s = AppendClassification(AppendEvidence(r, a, "source-image"), Classify(a))
  PROVE  LET c == Classify(a)
         IN  /\ OfAnalysis(s, a)
             /\ \/ /\ c.class = "unknown" /\ s.inferred = <<>>
                   /\ s.unresolved = <<Thread, NoFamily, NoSizeToo>> /\ s.recommended = <<SideOn>>
                \/ /\ c.class # "unknown" /\ c.nominal = {} /\ s.inferred = <<ClassClaim(c)>>
                   /\ s.unresolved = <<Thread, NoSize, NotSeen(c)>>
                   /\ s.recommended = <<SideOn, SideView(c)>>
                \/ /\ c.class # "unknown"
                   /\ \E n \in c.nominal : s.inferred = <<ClassClaim(c), SizeClaim(n)>>
                   /\ s.unresolved = <<Thread, NotSeen(c)>>
                   /\ s.recommended = <<SideOn, SideView(c)>>
<1> DEFINE e     == AppendEvidence(r, a, "source-image")
           c     == Classify(a)
           open  == Pick(e.unresolved, {i \in DOMAIN e.unresolved :
                           e.unresolved[i].name \notin {"fastener_class", "nominal_size"}})
           sizes == SetToSeq({SizeClaim(n) : n \in c.nominal})
           rest  == IF c.nominal = {} THEN <<NoSize>> ELSE <<>>
           class == ClassClaim(c)
           view  == SideView(c)
           none  == NotSeen(c)
<1>1. s = IF c.class = "unknown" THEN [e EXCEPT !.unresolved = open \o <<NoFamily, NoSizeToo>>]
          ELSE [e EXCEPT !.inferred = @ \o <<class>> \o sizes,
                         !.unresolved = open \o rest \o <<none>>,
                         !.recommended = @ \o <<view>>]
  BY DEF AppendClassification, Sibling, SideView, NotSeen, NoSize, NoFamily, NoSizeToo,
         ClassClaim, SizeClaim
<1>2. /\ Headed(e)
      /\ e.observed = ObservedOf(a) /\ e.derived = DerivedOf(a) /\ e.inferred = <<>>
      /\ e.unresolved = Left /\ e.recommended = <<SideOn>>
  BY Measures
<1>3. Sound(e)
  BY EvidenceSound DEF Blank
<1>4. open = <<Thread>>
  BY <1>2, ThreadIsLeft
<1>5. /\ c.nominal = {} => sizes = <<>>
      /\ \A n : c.nominal = {n} => sizes = <<SizeClaim(n)>>
      /\ c.nominal = {} \/ \E n : c.nominal = {n}
  <2>1. AtMostOne(c.nominal)
    BY OneSize
  <2> DEFINE N == c.nominal
  <2> HIDE DEF N
  <2>2. ASSUME N = {} PROVE {SizeClaim(n) : n \in N} = {}
    BY <2>2
  <2>3. ASSUME NEW n, N = {n} PROVE {SizeClaim(m) : m \in N} = {SizeClaim(n)}
    BY <2>3
  <2> USE DEF N
  <2>4. c.nominal = {} => sizes = <<>>
    BY <2>2, SequenceOfOne
  <2>5. ASSUME NEW n, c.nominal = {n} PROVE sizes = <<SizeClaim(n)>>
    BY <2>3, <2>5, SequenceOfOne
  <2>6. c.nominal = {} \/ \E n : c.nominal = {n}
    BY <2>1 DEF AtMostOne
  <2> QED
    BY <2>4, <2>5, <2>6
<1> DEFINE N == c.nominal
<1>6. rest = IF N = {} THEN <<NoSize>> ELSE <<>>
  OBVIOUS
<1> HIDE DEF e, open, sizes, rest, class, view, none, N
<1>7. OfAnalysis(s, a)
  BY <1>1, <1>2, <1>3 DEF OfAnalysis, Headed, Sound, Records
<1>8. CASE c.class = "unknown"
  <2>1. s.inferred = e.inferred /\ s.recommended = e.recommended
        /\ s.unresolved = open \o <<NoFamily, NoSizeToo>>
    BY <1>1, <1>3, <1>8 DEF Sound, Records
  <2>2. \A x, y, z : <<x>> \o <<y, z>> = <<x, y, z>>
    BY TuplesJoined
  <2> QED
    BY <1>2, <1>4, <1>7, <1>8, <2>1, <2>2
<1>9. CASE c.class # "unknown"
  <2>1. /\ s.inferred = e.inferred \o <<class>> \o sizes
        /\ s.unresolved = open \o rest \o <<none>>
        /\ s.recommended = e.recommended \o <<view>>
    BY <1>1, <1>3, <1>9 DEF Sound, Records
  <2>2. \A x : <<>> \o <<x>> = <<x>> /\ <<x>> \o <<>> = <<x>>
    OBVIOUS
  <2>3. \A x, y : <<x>> \o <<y>> = <<x, y>>
    BY TuplesJoined
  <2>4. \A x, y, z : <<x, y>> \o <<z>> = <<x, y, z>>
    BY TuplesJoined
  <2>5. s.recommended = <<SideOn, view>>
    BY <1>2, <2>1, <2>3
  <2>6. CASE N = {}
    <3>1. s.inferred = <<class>>
      BY <1>2, <1>5, <2>1, <2>2, <2>6 DEF N
    <3>2. s.unresolved = <<Thread, NoSize, none>>
      BY <1>4, <1>6, <2>1, <2>3, <2>4, <2>6
    <3> QED
      BY <1>7, <1>9, <2>5, <2>6, <3>1, <3>2 DEF N, class, view, none
  <2>7. ASSUME NEW n, N = {n} PROVE /\ s.inferred = <<class, SizeClaim(n)>>
                                    /\ s.unresolved = <<Thread, none>>
    <3>1. sizes = <<SizeClaim(n)>>
      BY <1>5, <2>7 DEF N
    <3>2. rest = <<>>
      BY <1>6, <2>7
    <3> QED
      BY <1>2, <1>4, <2>1, <2>2, <2>3, <3>1, <3>2
  <2>8. ASSUME NEW n, N = {n} PROVE /\ OfAnalysis(s, a) /\ c.class # "unknown"
                                    /\ \E m \in N : s.inferred = <<class, SizeClaim(m)>>
                                    /\ s.unresolved = <<Thread, none>>
                                    /\ s.recommended = <<SideOn, view>>
    BY <1>7, <1>9, <2>5, <2>7, <2>8
  <2> QED
    BY <1>5, <2>6, <2>8 DEF N, class, view, none
<1> QED
  BY <1>8, <1>9

-----------------------------------------------------------------------------
(* What RecordSound asks of one record                                     *)

\* Of a measured scene each name is either open or claimed; advice is about what is open.
Settled(r) ==
  /\ r.observed # <<>> => \A name \in {"fastener_class", "nominal_size"} :
                            name \in (Open(r) \ Claimed(r)) \cup (Claimed(r) \ Open(r))
  /\ \A a \in ToSet(r.recommended) : ToSet(a.resolves) \subseteq Open(r)

Well(r) == Violations(r) = {} /\ SizeRight(r) /\ Settled(r)

\* The names of a few entries.
LEMMA FewNames ==
  /\ \A x, y : {u.name : u \in ToSet(<<x, y>>)} = {x.name, y.name}
  /\ \A x : {u.name : u \in ToSet(<<x>>)} = {x.name}
  /\ {u.name : u \in ToSet(<<>>)} = {}
<1>1. ASSUME NEW x, NEW y PROVE {u.name : u \in ToSet(<<x, y>>)} = {x.name, y.name}
  <2>1. ToSet(<<x, y>>) = {x, y}
    BY FewEntries
  <2> QED
    BY <2>1
<1>3. ASSUME NEW x PROVE {u.name : u \in ToSet(<<x>>)} = {x.name}
  <2>1. ToSet(<<x>>) = {x}
    BY FewEntries
  <2> QED
    BY <2>1
<1>4. {u.name : u \in ToSet(<<>>)} = {}
  <2>1. ToSet(<<>>) = {}
    BY FewEntries
  <2> QED
    BY <2>1
<1> QED
  BY <1>1, <1>3, <1>4

\* Those of three.
LEMMA ThreeNames ==
  ASSUME NEW s, NEW x, NEW y, NEW z, s = <<x, y, z>>
  PROVE  {u.name : u \in ToSet(s)} = {x.name, y.name, z.name}
<1>1. ToSet(<<x, y, z>>) = {x, y, z}
  BY FewEntries
<1> QED
  BY <1>1

\* What a class and a size are named, and say.
LEMMA ClaimsSay ==
  ASSUME NEW c, NEW n
  PROVE  /\ ClassClaim(c).id = "fc-class" /\ ClassClaim(c).name = "fastener_class"
         /\ ClassClaim(c).value = Str(c.class) /\ ClassClaim(c).confidence = {c.confidence}
         /\ ClassClaim(c).provenance = <<"sa-subj-length-mm", "sa-subj-width-mm", "sa-subj-holes">>
         /\ ClassClaim(c).method # ""
         /\ SizeClaim(n).id = "fc-nominal" /\ SizeClaim(n).name = "nominal_size"
         /\ SizeClaim(n).value = Str(n.designation) /\ SizeClaim(n).confidence = {n.confidence}
         /\ SizeClaim(n).provenance = <<"fc-class", "sa-subj-width-mm">>
         /\ SizeClaim(n).method # ""
  BY DEF ClassClaim, SizeClaim, Claim, Model

\* A class may be claimed after what was measured.
LEMMA ClassGood ==
  ASSUME NEW c, c.confidence \in 0 .. 100, NEW ids, ObservedNames \cup DerivedNames \subseteq ids
  PROVE  /\ ClaimGood(ClassClaim(c), ids)
         /\ ClassClaim(c).confidence # {} /\ ClassClaim(c).provenance # <<>>
         /\ ClassClaim(c).method # ""
<1> DEFINE k == ClassClaim(c)
<1>1. /\ k.id = "fc-class" /\ k.confidence = {c.confidence} /\ k.method # ""
      /\ k.provenance = <<"sa-subj-length-mm", "sa-subj-width-mm", "sa-subj-holes">>
  BY ClaimsSay
<1> HIDE DEF k
<1>2. ToSet(k.provenance) = {"sa-subj-length-mm", "sa-subj-width-mm", "sa-subj-holes"}
  <2> DEFINE from == <<"sa-subj-length-mm", "sa-subj-width-mm", "sa-subj-holes">>
  <2>1. ToSet(from) = {"sa-subj-length-mm", "sa-subj-width-mm", "sa-subj-holes"}
    BY FewEntries
  <2>2. k.provenance = from
    BY <1>1
  <2> HIDE DEF from
  <2> QED
    BY <2>1, <2>2
<1>3. {"sa-subj-length-mm", "sa-subj-width-mm", "sa-subj-holes"} \subseteq ids
  BY DEF ObservedNames, DerivedNames
<1>4. \A x, y, z : <<x, y, z>> # <<>>
  OBVIOUS
<1>5. k.provenance # <<>>
  BY <1>1, <1>4
<1>6. ClaimGood(k, ids)
  BY <1>1, <1>2, <1>3 DEF ClaimGood
<1> QED
  BY <1>1, <1>5, <1>6 DEF k

\* A size may after the class.
LEMMA SizeGood ==
  ASSUME NEW n, n.confidence \in 0 .. 100, NEW ids, DerivedNames \cup {"fc-class"} \subseteq ids
  PROVE  /\ ClaimGood(SizeClaim(n), ids)
         /\ SizeClaim(n).confidence # {} /\ SizeClaim(n).provenance # <<>>
         /\ SizeClaim(n).method # ""
<1> DEFINE k == SizeClaim(n)
<1>1. /\ k.id = "fc-nominal" /\ k.confidence = {n.confidence} /\ k.method # ""
      /\ k.provenance = <<"fc-class", "sa-subj-width-mm">>
  BY ClaimsSay
<1> HIDE DEF k
<1>2. ToSet(k.provenance) = {"fc-class", "sa-subj-width-mm"}
  BY <1>1, FewEntries
<1>3. {"fc-class", "sa-subj-width-mm"} \subseteq ids
  BY DEF DerivedNames
<1>4. \A x, y : <<x, y>> # <<>>
  OBVIOUS
<1>5. k.provenance # <<>>
  BY <1>1, <1>4
<1>6. ClaimGood(k, ids)
  BY <1>1, <1>2, <1>3 DEF ClaimGood
<1> QED
  BY <1>1, <1>5, <1>6 DEF k

\* Nothing inferred is good.
LEMMA NoneGood == InferredGood(<<>>)
<1>1. ToSet(<<>>) = {} /\ \E S : <<>> \in Seq(S)
  BY FewEntries
<1>2. NamedApart(<<>>)
  <2>1. 0 \in Nat /\ DOMAIN <<>> = 1 .. 0 /\ \A i, j \in 1 .. 0 : FALSE
    OBVIOUS
  <2> QED
    BY <2>1 DEF NamedApart
<1> QED
  BY <1>1, <1>2 DEF InferredGood

\* A class alone is good.
LEMMA OneGood ==
  ASSUME NEW c, c.confidence \in 0 .. 100
  PROVE  InferredGood(<<ClassClaim(c)>>)
<1> DEFINE k == ClassClaim(c)
           s == <<k>>
<1>1. /\ k.id = "fc-class" /\ k.confidence # {} /\ k.provenance # <<>> /\ k.method # ""
  BY ClaimsSay, ClassGood
<1>2. \A ids : ObservedNames \cup DerivedNames \subseteq ids => ClaimGood(k, ids)
  BY ClassGood
<1> HIDE DEF k
<1>3. ToSet(s) = {k} /\ s \in Seq({k})
  BY FewEntries
<1>4. NamedApart(s)
  <2>1. 1 \in Nat /\ DOMAIN s = 1 .. 1 /\ \A i, j \in 1 .. 1 : i = j
    OBVIOUS
  <2> QED
    BY <2>1 DEF NamedApart
<1> HIDE DEF s
<1>5. \A ids : DerivedNames \cup ObservedNames \cup {x.id : x \in ToSet(s)} \subseteq ids =>
        \A x \in ToSet(s) : ClaimGood(x, ids)
  BY <1>2, <1>3
<1>6. InferredGood(s)
  BY <1>1, <1>3, <1>4, <1>5 DEF InferredGood
<1> QED
  BY <1>6 DEF s, k

\* A class and a size are good.
LEMMA TwoGood ==
  ASSUME NEW c, c.confidence \in 0 .. 100, NEW n, n.confidence \in 0 .. 100
  PROVE  InferredGood(<<ClassClaim(c), SizeClaim(n)>>)
<1> DEFINE k == ClassClaim(c)
           l == SizeClaim(n)
           s == <<k, l>>
<1>1. /\ k.id = "fc-class" /\ k.confidence # {} /\ k.provenance # <<>> /\ k.method # ""
      /\ l.id = "fc-nominal" /\ l.confidence # {} /\ l.provenance # <<>> /\ l.method # ""
  BY ClaimsSay, ClassGood, SizeGood
<1>2. \A ids : ObservedNames \cup DerivedNames \subseteq ids => ClaimGood(k, ids)
  BY ClassGood
<1>3. \A ids : DerivedNames \cup {"fc-class"} \subseteq ids => ClaimGood(l, ids)
  BY SizeGood
<1> HIDE DEF k, l
<1>4. ToSet(s) = {k, l} /\ s \in Seq({k, l}) /\ DOMAIN s = 1 .. 2 /\ s[1] = k /\ s[2] = l
  BY FewEntries
<1> HIDE DEF s
<1>5. NamedApart(s)
  <2>1. \A i \in 1 .. 2 : i = 1 \/ i = 2
    OBVIOUS
  <2>2. \A i, j \in 1 .. 2 : s[i].id = s[j].id => i = j
    BY <1>1, <1>4, <2>1
  <2> QED
    BY <1>4, <2>2 DEF NamedApart
<1>6. {x.id : x \in ToSet(s)} = {"fc-class", "fc-nominal"}
  BY <1>1, <1>4
<1>7. ASSUME NEW ids, DerivedNames \cup ObservedNames \cup {x.id : x \in ToSet(s)} \subseteq ids,
             NEW x \in ToSet(s)
      PROVE  ClaimGood(x, ids)
  <2>1. ObservedNames \cup DerivedNames \subseteq ids /\ DerivedNames \cup {"fc-class"} \subseteq ids
    BY <1>6, <1>7
  <2> QED
    BY <1>2, <1>3, <1>4, <2>1
<1>8. \A x \in ToSet(s) : x.confidence # {} /\ x.provenance # <<>> /\ x.method # ""
  BY <1>1, <1>4
<1>9. InferredGood(s)
  BY <1>4, <1>5, <1>6, <1>7, <1>8 DEF InferredGood
<1> QED
  BY <1>9 DEF s, k, l

\* The size of a class is right if it fits.
LEMMA RightSize ==
  ASSUME NEW r, NEW a, NEW c, NEW n, r.derived = DerivedOf(a),
         r.inferred = <<ClassClaim(c), SizeClaim(n)>>,
         c.class \in {"bolt_or_screw", "nut_or_washer"}, Fits(a.widthMm, TableOf(c.class), n)
  PROVE  SizeRight(r)
<1> DEFINE k == ClassClaim(c)
           l == SizeClaim(n)
           s == <<k, l>>
           w == a.widthMm
           table == TableOf(c.class)
           width == DerivedOf(a)[3]
<1>1. /\ k.name = "fastener_class" /\ k.value = Str(c.class)
      /\ l.name = "nominal_size" /\ l.value = Str(n.designation)
  BY ClaimsSay
<1>2. FindClaim(r.derived, "subject_width") = {width} /\ Of(width.value) = w
  BY DerivedGood
<1>3. Table(table)
  BY DEF Table, TableOf
<1>4. (IF Str(c.class) = Str("bolt_or_screw") THEN ShaftDiameters ELSE HexAcrossFlats) = table
  BY DEF Str, TableOf
<1>5. PICK i \in 1 .. 7 : /\ n.designation = table[i].designation
                          /\ \A j \in 1 .. 7 : Off(w, table[i]) <= Off(w, table[j])
                          /\ 100 * Off(w, table[i]) <= 15 * table[i].mm
  BY DEF Fits
<1> HIDE DEF k, l, w, table, width
<1>6. /\ DOMAIN s = 1 .. 2 /\ s[1] = k /\ s[2] = l /\ s \in Seq({k, l})
  OBVIOUS
<1>7. r.inferred = s
  BY DEF k, l
<1> HIDE DEF s
<1>8. \A j \in 1 .. 2 : j = 1 \/ j = 2
  OBVIOUS
<1>9. FindClaim(s, "fastener_class") = {k}
  <2>1. 1 \in DOMAIN s /\ s[1].name = "fastener_class"
        /\ \A j \in DOMAIN s : s[j].name = "fastener_class" => j = 1
    BY <1>1, <1>6, <1>8
  <2> QED
    BY <1>6, <2>1, ClaimFoundAt
<1>10. FindClaim(s, "nominal_size") = {l}
  <2>1. 2 \in DOMAIN s /\ s[2].name = "nominal_size"
        /\ \A j \in DOMAIN s : s[j].name = "nominal_size" => j = 2
    BY <1>1, <1>6, <1>8
  <2> QED
    BY <1>6, <2>1, ClaimFoundAt
<1>11. DOMAIN table = 1 .. 7
  BY <1>3, TableRows
<1> DEFINE e == table[i]
<1>12. e \in ToSet(table) /\ \A o \in ToSet(table) : \E j \in 1 .. 7 : o = table[j]
  BY <1>11 DEF ToSet
<1>13. /\ Str(e.designation) = l.value
       /\ \A o \in ToSet(table) : Off(w, e) <= Off(w, o)
       /\ 100 * Off(w, e) <= 15 * e.mm
  <2>1. Str(e.designation) = l.value
    BY <1>1, <1>5
  <2>2. \A o \in ToSet(table) : Off(w, e) <= Off(w, o)
    BY <1>5, <1>12
  <2> QED
    BY <1>5, <2>1, <2>2
<1> HIDE DEF e
<1>14. ASSUME NEW size \in FindClaim(r.inferred, "nominal_size"),
              NEW class \in FindClaim(r.inferred, "fastener_class"),
              NEW wide \in FindClaim(r.derived, "subject_width")
       PROVE  LET t == IF class.value = Str("bolt_or_screw") THEN ShaftDiameters ELSE HexAcrossFlats
              IN  \E x \in ToSet(t) : /\ Str(x.designation) = size.value
                                      /\ \A other \in ToSet(t) :
                                           Off(Of(wide.value), x) <= Off(Of(wide.value), other)
                                      /\ 100 * Off(Of(wide.value), x) <= 15 * x.mm
  <2>1. size = l /\ class = k /\ wide = width
    BY <1>2, <1>7, <1>9, <1>10
  <2>2. Of(wide.value) = w
    BY <1>2, <2>1
  <2>3. (IF class.value = Str("bolt_or_screw") THEN ShaftDiameters ELSE HexAcrossFlats) = table
    BY <1>1, <1>4, <2>1
  <2>4. \E x \in ToSet(table) : /\ Str(x.designation) = size.value
                                /\ \A other \in ToSet(table) : Off(w, x) <= Off(w, other)
                                /\ 100 * Off(w, x) <= 15 * x.mm
    BY <1>12, <1>13, <2>1
  <2> QED
    BY <2>2, <2>3, <2>4
<1> QED
  BY <1>14 DEF SizeRight

\* No size is claimed without one.
LEMMA NoSizeClaimed ==
  ASSUME NEW r, r.inferred = <<>> \/ \E c : r.inferred = <<ClassClaim(c)>>
  PROVE  SizeRight(r)
<1>1. \A c : ClassClaim(c).name # "nominal_size"
  <2>1. ASSUME NEW c PROVE ClassClaim(c).name # "nominal_size"
    BY ClaimsSay
  <2> QED
    BY <2>1
<1>2. \A x \in ToSet(r.inferred) : x.name # "nominal_size"
  <2>1. CASE r.inferred = <<>>
    BY <2>1, FewEntries
  <2>2. ASSUME NEW c, r.inferred = <<ClassClaim(c)>>
        PROVE  \A x \in ToSet(r.inferred) : x.name # "nominal_size"
    <3>1. ToSet(r.inferred) = {ClassClaim(c)}
      BY <2>2, FewEntries
    <3> QED
      BY <1>1, <3>1
  <2> QED
    BY <2>1, <2>2
<1>3. FindClaim(r.inferred, "nominal_size") = {}
  BY <1>2, NoClaimFound
<1> QED
  BY <1>3 DEF SizeRight

\* The names that are open, and claimed, in the three shapes.
LEMMA ShapesSettled ==
  ASSUME NEW r, NEW c, NEW n,
         \/ /\ r.inferred = <<>> /\ r.unresolved = <<Thread, NoFamily, NoSizeToo>>
            /\ r.recommended = <<SideOn>>
         \/ /\ r.inferred = <<ClassClaim(c)>> /\ r.unresolved = <<Thread, NoSize, NotSeen(c)>>
            /\ r.recommended = <<SideOn, SideView(c)>>
         \/ /\ r.inferred = <<ClassClaim(c), SizeClaim(n)>> /\ r.unresolved = <<Thread, NotSeen(c)>>
            /\ r.recommended = <<SideOn, SideView(c)>>
  PROVE  Settled(r)
<1> DEFINE sib == Sibling(c)
<1>1. /\ Thread.name = "thread_pitch" /\ NoFamily.name = "fastener_class"
      /\ NoSizeToo.name = "nominal_size" /\ NoSize.name = "nominal_size"
      /\ NotSeen(c).name = sib
  BY DEF Thread, NoFamily, NoSizeToo, NoSize, NotSeen
<1>2. sib \notin {"fastener_class", "nominal_size"}
  BY DEF Sibling
<1>3. ClassClaim(c).name = "fastener_class" /\ SizeClaim(n).name = "nominal_size"
  BY ClaimsSay
<1>4. ToSet(SideOn.resolves) = {"thread_pitch"} /\ ToSet(SideView(c).resolves) = {sib}
  <2>1. SideOn.resolves = <<"thread_pitch">> /\ SideView(c).resolves = <<sib>>
    BY DEF SideOn, SideView
  <2> HIDE DEF sib
  <2> QED
    BY <2>1, FewEntries
<1> DEFINE v == SideView(c)
           u == NotSeen(c)
           k == ClassClaim(c)
           l == SizeClaim(n)
<1>5. ToSet(<<SideOn>>) = {SideOn} /\ ToSet(<<SideOn, v>>) = {SideOn, v}
  BY FewEntries
<1>6. CASE r.inferred = <<>> /\ r.unresolved = <<Thread, NoFamily, NoSizeToo>> /\ r.recommended = <<SideOn>>
  <2>1. Open(r) = {"thread_pitch", "fastener_class", "nominal_size"}
    <3>1. Open(r) = {Thread.name, NoFamily.name, NoSizeToo.name}
      BY <1>6, ThreeNames DEF Open
    <3> QED
      BY <1>1, <3>1
  <2>2. Claimed(r) = {}
    BY <1>6, FewNames DEF Claimed
  <2>3. \A a \in ToSet(r.recommended) : ToSet(a.resolves) \subseteq Open(r)
    BY <1>4, <1>5, <1>6, <2>1
  <2> QED
    BY <2>1, <2>2, <2>3 DEF Settled
<1>7. CASE r.inferred = <<k>> /\ r.unresolved = <<Thread, NoSize, u>> /\ r.recommended = <<SideOn, v>>
  <2>1. Open(r) = {"thread_pitch", "nominal_size", sib}
    <3>1. Open(r) = {Thread.name, NoSize.name, u.name}
      BY <1>7, ThreeNames DEF Open
    <3> QED
      BY <1>1, <3>1
  <2>2. Claimed(r) = {"fastener_class"}
    <3>1. Claimed(r) = {k.name}
      BY <1>7, FewNames DEF Claimed
    <3> QED
      BY <1>3, <3>1
  <2> HIDE DEF sib, v, k, u, l
  <2>3. \A a \in ToSet(r.recommended) : ToSet(a.resolves) \subseteq Open(r)
    BY <1>4, <1>5, <1>7, <2>1 DEF v
  <2> QED
    BY <1>2, <2>1, <2>2, <2>3 DEF Settled
<1>8. CASE r.inferred = <<k, l>> /\ r.unresolved = <<Thread, u>> /\ r.recommended = <<SideOn, v>>
  <2>1. Open(r) = {"thread_pitch", sib}
    <3>1. Open(r) = {Thread.name, u.name}
      BY <1>8, FewNames DEF Open
    <3> QED
      BY <1>1, <3>1
  <2>2. Claimed(r) = {"fastener_class", "nominal_size"}
    <3>1. Claimed(r) = {k.name, l.name}
      BY <1>8, FewNames DEF Claimed
    <3> QED
      BY <1>3, <3>1
  <2> HIDE DEF sib, v, k, u, l
  <2>3. \A a \in ToSet(r.recommended) : ToSet(a.resolves) \subseteq Open(r)
    BY <1>4, <1>5, <1>8, <2>1 DEF v
  <2> QED
    BY <1>2, <2>1, <2>2, <2>3 DEF Settled
<1> QED
  BY <1>6, <1>7, <1>8

\* The record of a measured scene is well built.
LEMMA MeasuredWell ==
  ASSUME NEW r, Blank(r), NEW a \in Analyses, a.lengthMm \in Int, a.widthMm \in Int,
         NEW s, s = AppendClassification(AppendEvidence(r, a, "source-image"), Classify(a))
  PROVE  Well(s)
<1> DEFINE c == Classify(a)
<1>1. OfAnalysis(s, a)
  BY Shapes
<1>2. \/ c.class = "unknown"
      \/ /\ c.class \in {"bolt_or_screw", "nut_or_washer"}
         /\ c.confidence \in 0 .. 100
         /\ \A n \in c.nominal : Fits(a.widthMm, TableOf(c.class), n)
  BY ClassifyIs
<1>3. \/ /\ c.class = "unknown" /\ s.inferred = <<>>
         /\ s.unresolved = <<Thread, NoFamily, NoSizeToo>> /\ s.recommended = <<SideOn>>
      \/ /\ c.class # "unknown" /\ c.nominal = {} /\ s.inferred = <<ClassClaim(c)>>
         /\ s.unresolved = <<Thread, NoSize, NotSeen(c)>>
         /\ s.recommended = <<SideOn, SideView(c)>>
      \/ /\ c.class # "unknown"
         /\ \E n \in c.nominal : s.inferred = <<ClassClaim(c), SizeClaim(n)>>
         /\ s.unresolved = <<Thread, NotSeen(c)>>
         /\ s.recommended = <<SideOn, SideView(c)>>
  BY Shapes
<1> HIDE DEF c
<1>4. ASSUME InferredGood(s.inferred) PROVE Violations(s) = {}
  <2>1. ClaimsGood(s)
    BY <1>1, <1>4, MeasuredGood DEF OfAnalysis
  <2> QED
    BY <1>1, <2>1, NothingViolated DEF OfAnalysis
<1>5. CASE /\ c.class = "unknown" /\ s.inferred = <<>>
           /\ s.unresolved = <<Thread, NoFamily, NoSizeToo>> /\ s.recommended = <<SideOn>>
  <2>1. InferredGood(s.inferred)
    BY <1>5, NoneGood
  <2>2. SizeRight(s)
    BY <1>5, NoSizeClaimed
  <2>3. Settled(s)
    BY <1>5, ShapesSettled
  <2> QED
    BY <1>4, <2>1, <2>2, <2>3 DEF Well
<1>6. CASE /\ c.class # "unknown" /\ c.nominal = {} /\ s.inferred = <<ClassClaim(c)>>
           /\ s.unresolved = <<Thread, NoSize, NotSeen(c)>>
           /\ s.recommended = <<SideOn, SideView(c)>>
  <2>1. InferredGood(s.inferred)
    BY <1>2, <1>6, OneGood
  <2>2. SizeRight(s)
    BY <1>6, NoSizeClaimed
  <2>3. Settled(s)
    BY <1>6, ShapesSettled
  <2> QED
    BY <1>4, <2>1, <2>2, <2>3 DEF Well
<1>7. ASSUME NEW n \in c.nominal, c.class # "unknown", s.inferred = <<ClassClaim(c), SizeClaim(n)>>,
             s.unresolved = <<Thread, NotSeen(c)>>, s.recommended = <<SideOn, SideView(c)>>
      PROVE  Well(s)
  <2>1. /\ c.class \in {"bolt_or_screw", "nut_or_washer"} /\ c.confidence \in 0 .. 100
        /\ Fits(a.widthMm, TableOf(c.class), n)
    BY <1>2, <1>7
  <2>2. n.confidence \in 0 .. 100
    BY <2>1 DEF Fits
  <2>3. InferredGood(s.inferred)
    BY <1>7, <2>1, <2>2, TwoGood
  <2>4. SizeRight(s)
    BY <1>1, <1>7, <2>1, RightSize DEF OfAnalysis
  <2>5. Settled(s)
    BY <1>7, ShapesSettled
  <2> QED
    BY <1>4, <2>3, <2>4, <2>5 DEF Well
<1> QED
  BY <1>3, <1>5, <1>6, <1>7

-----------------------------------------------------------------------------
(* Every draft                                                             *)

\* The record of a capture before the analysis.
LEMMA BaseBlank ==
  ASSUME NEW p \in Procs, TypeOK, NEW f \in Frames
  PROVE  Blank(BaseRecord(p, f))
<1> DEFINE r == BaseRecord(p, f)
<1>1. Sound(r)
  BY BaseSound
<1>2. /\ r.observationId = ToString(id[p]) /\ r.timestampUtc = ToString(num[p])
      /\ r.observed = <<>> /\ r.derived = <<>> /\ r.inferred = <<>>
      /\ r.unresolved = <<>> /\ r.recommended = <<>>
      /\ r.artifacts = <<Image(ImageKind(f.format))>>
  BY DEF BaseRecord, Image
<1> HIDE DEF r
<1>3. r.observationId # "" /\ r.timestampUtc # ""
  BY <1>2, Named DEF TypeOK
<1>4. \E T : r.source \in Seq(T \X T) /\ OneEach(r.source)
  BY <1>1 DEF Sound, Records
<1>5. Blank(r)
  BY <1>1, <1>2, <1>3, <1>4 DEF Blank, Headed
<1> QED
  BY <1>5 DEF r

\* A record that says nothing of the scene is well built.
LEMMA BlankWell == ASSUME NEW r, Blank(r) PROVE Well(r)
<1>1. <<>> \o <<>> = <<>>
  OBVIOUS
<1>2. Claims(r) = <<>>
  BY <1>1 DEF Claims, Blank
<1>3. ToSet(<<>>) = {}
  BY FewEntries
<1>4. ClaimsGood(r)
  <2>1. 0 \in Nat /\ DOMAIN <<>> = 1 .. 0 /\ \A i, j \in 1 .. 0 : FALSE
    OBVIOUS
  <2>2. \E n \in Nat : /\ DOMAIN Claims(r) = 1 .. n
                       /\ \A i, j \in 1 .. n : Claims(r)[i].id = Claims(r)[j].id => i = j
    BY <1>2, <2>1
  <2> QED
    BY <1>2, <1>3, <2>2 DEF ClaimsGood, Blank
<1>5. Violations(r) = {}
  BY <1>4, NothingViolated DEF Blank
<1>6. SizeRight(r)
  BY NoSizeClaimed DEF Blank
<1>7. Settled(r)
  BY <1>3 DEF Settled, Blank
<1> QED
  BY <1>5, <1>6, <1>7 DEF Well

\* A legible scene is sent, and its sizes are numbers.
LEMMA LegibleSent ==
  ASSUME NEW k \in DOMAIN Setups
  PROVE  /\ Numbered(Setups[k].scene.frame) /\ Setups[k].side \in Int
         /\ Legible(Setups[k]) => Sent(Setups[k].scene.frame) /\ Setups[k].side \in Nat \ {0}
<1> DEFINE setup == Setups[k]
           f     == setup.scene.frame
<1>1. {f.width, f.height} \subseteq Nat /\ f.pixels \in Seq(Seq(0 .. 255)) /\ setup.side \in Int
  BY Measurements
<1> HIDE DEF f
<1>2. Numbered(f)
  BY <1>1 DEF Numbered
<1>3. Legible(setup) => Sent(f) /\ setup.side > 0
  BY <1>2 DEF Legible, Sent, f
<1> HIDE DEF setup
<1> QED
  BY <1>1, <1>2, <1>3 DEF setup, f

\* What is measured of a frame is a number.
LEMMA Measured ==
  \A k \in DOMAIN Setups : \A a \in Outcomes[k].analysis : {a.lengthMm, a.widthMm} \subseteq Int
<1> SUFFICES ASSUME NEW k \in DOMAIN Setups, NEW a \in Outcomes[k].analysis
             PROVE  a.lengthMm \in Int /\ a.widthMm \in Int
  OBVIOUS
<1>1. a \in AnalyzeFrame(Setups[k].scene.frame, Setups[k].side).analysis
  BY DEF Outcomes
<1> QED
  BY <1>1, LegibleSent, LengthsAreNumbers

\* Whatever is measured, the draft of it is well built.
LEMMA EnrichWell ==
  ASSUME NEW r, Blank(r), NEW k \in DOMAIN Setups
  PROVE  Well(Enrich(r, k))
<1>1. CASE Outcomes[k].analysis = {}
  BY <1>1, BlankWell DEF Enrich
<1>2. CASE Outcomes[k].analysis # {}
  <2> DEFINE a == CHOOSE a \in Outcomes[k].analysis : TRUE
  <2>1. a \in Outcomes[k].analysis
    BY <1>2
  <2>2. Enrich(r, k) = AppendClassification(AppendEvidence(r, a, "source-image"), Classify(a))
    BY <1>2 DEF Enrich
  <2> HIDE DEF a
  <2>3. a \in Analyses
    BY <2>1 DEF Analyses
  <2>4. a.lengthMm \in Int /\ a.widthMm \in Int
    BY <2>1, Measured
  <2> QED
    BY <2>2, <2>3, <2>4, MeasuredWell
<1> QED
  BY <1>1, <1>2

\* Every draft is well built.
DraftsWell == \A n \in 1 .. MaxCaptures : \A d \in drafts[n] : Well(d.record)

\* A step of the captures or of the app keeps the drafts well built.
LEMMA WellStep == ScoutInv /\ DraftsWell /\ [ScoutNext]_scoutVars => DraftsWell'
<1> SUFFICES ASSUME ScoutInv, DraftsWell, [ScoutNext]_scoutVars PROVE DraftsWell'
  OBVIOUS
<1>1. TypeOK /\ DraftsOK
  BY DEF ScoutInv, StoreInv
<1>2. CASE UNCHANGED drafts
  BY <1>2 DEF DraftsWell
<1>3. ASSUME NEW p \in Procs, NEW k \in DOMAIN Setups, NEW r,
             r = Enrich(BaseRecord(p, Setups[k].scene.frame), k),
             drafts' = [drafts EXCEPT ![num[p]] = {[setup |-> k, record |-> r]}]
      PROVE  DraftsWell'
  <2>1. Setups[k].scene.frame \in Frames
    BY DEF Frames
  <2>2. Well(r)
    BY <1>1, <1>3, <2>1, BaseBlank, EnrichWell
  <2> DEFINE d == [setup |-> k, record |-> r]
  <2>3. d.record = r
    OBVIOUS
  <2>4. drafts' = [drafts EXCEPT ![num[p]] = {d}]
    BY <1>3
  <2> HIDE DEF d
  <2>5. ASSUME NEW n \in 1 .. MaxCaptures, NEW e \in drafts'[n] PROVE e \in drafts[n] \/ e = d
    BY <1>1, <2>4, <2>5 DEF DraftsOK
  <2> QED
    BY <2>2, <2>3, <2>5 DEF DraftsWell
<1>4. ASSUME NEW p \in Procs, Capture(p) PROVE DraftsWell'
  <2>1. \/ UNCHANGED drafts
        \/ \E k \in DOMAIN Setups : \E r :
             /\ r = Enrich(BaseRecord(p, Setups[k].scene.frame), k)
             /\ drafts' = [drafts EXCEPT ![num[p]] = {[setup |-> k, record |-> r]}]
    <3>1. CASE MeasureFrame(p)
      BY <3>1, Zenon DEF MeasureFrame
    <3>2. CASE Unseen \/ Stores
      BY <3>2 DEF Unseen, Stores
    <3> QED
      BY <1>4, <3>1, <3>2 DEF Capture
  <2> QED
    BY <1>2, <1>3, <2>1
<1>5. CASE Start \/ Reload \/ ReadNewest \/ Draw \/ Leave
  BY <1>2, <1>5 DEF Start, Reload, ListRecords, ReadNewest, Draw, Leave
<1>6. CASE UNCHANGED scoutVars
  BY <1>2, <1>6 DEF scoutVars
<1> QED
  BY <1>4, <1>5, <1>6 DEF ScoutNext

\* So the drafts are sound, and what is about to be written is.
LEMMA SoundNow == ScoutInv /\ DraftsWell => RecordSound
<1> SUFFICES ASSUME ScoutInv, DraftsWell PROVE RecordSound
  OBVIOUS
<1>1. DraftsOK /\ TypeOK /\ OwnNumber
  BY DEF ScoutInv, StoreInv
<1>2. ASSUME NEW d \in Drafted PROVE Violations(d.record) = {}
  <2>1. PICK n \in 1 .. MaxCaptures : drafts[n] # {} /\ d = CHOOSE e \in drafts[n] : TRUE
    BY DEF Drafted
  <2>2. d \in drafts[n]
    BY <2>1
  <2> QED
    BY <2>2 DEF DraftsWell, Well
<1>3. ASSUME NEW p \in Procs, pc[p] = "mkdir", NEW d \in drafts[num[p]]
      PROVE  RoundTrip(d.record) /\ Well(d.record)
  <2>1. num[p] \in 1 .. MaxCaptures
    BY <1>1, <1>3, StoreAssumption DEF TypeOK, OwnNumber
  <2>2. PICK k, r : k \in DOMAIN Setups /\ drafts[num[p]] = {[setup |-> k, record |-> r]} /\ Sound(r)
    BY <1>1, <2>1 DEF DraftsOK
  <2>3. d.record = r
    BY <2>2
  <2>4. RoundTrip(r)
    BY <2>2, WrittenIsAccepted, ReadAsWritten DEF Sound, RoundTrip
  <2> QED
    BY <2>1, <2>3, <2>4 DEF DraftsWell
<1> QED
  BY <1>2, <1>3 DEF RecordSound, Well, Settled

\* Whatever the analysis says of a scene, a capture never refuses its own record; what
\* it is about to write is read back as it is; of a measured scene the class and the
\* size are each either inferred or open, the size is the nearest one within 15 percent,
\* and advice is about what is open (captureOnce() with appendEvidence(), classify() and
\* appendClassification(), and validate()).
THEOREM RecordsAreSound == ScoutSpec => []RecordSound
<1>1. ScoutInit => DraftsWell
  BY DEF ScoutInit, DraftsWell
<1>2. ScoutInv /\ DraftsWell /\ [ScoutNext]_scoutVars => DraftsWell'
  BY WellStep
<1>3. ScoutInv /\ DraftsWell => RecordSound
  BY SoundNow
<1> QED
  BY <1>1, <1>2, <1>3, ScoutInvariant, PTL DEF ScoutSpec

-----------------------------------------------------------------------------
(* The scenes                                                              *)

\* A number of a row or a column and one for which there is room beside it.
LEMMA CellAt ==
  ASSUME NEW g, GridOK(g), NEW x \in 0 .. g.w - 1, NEW y \in Nat
  PROVE  At(g, y * g.w + x) = [x |-> x, y |-> y]
<1> DEFINE w == g.w
           i == y * w + x
<1>1. w \in Nat \ {0}
  BY DEF GridOK
<1>2. At(g, i) = [x |-> i % w, y |-> i \div w]
  BY DEF At
<1> HIDE DEF w
<1>3. i % w = x /\ i \div w = y
  BY <1>1, RowIs DEF w
<1> HIDE DEF i
<1> QED
  BY <1>2, <1>3 DEF i, w

\* The first and last of some numbers in a row.
LEMMA RunOf ==
  ASSUME NEW a \in Nat, NEW n \in Nat \ {0}, NEW S, S = {a + k : k \in 0 .. n - 1}
  PROVE  Min(S) = a /\ Max(S) = a + n - 1
<1>1. a \in S /\ a + n - 1 \in S
  <2>1. 0 \in 0 .. n - 1 /\ n - 1 \in 0 .. n - 1 /\ a + 0 = a /\ a + (n - 1) = a + n - 1
    OBVIOUS
  <2> QED
    BY <2>1
<1>2. \A y \in S : y \in Nat /\ a <= y /\ y <= a + n - 1
  OBVIOUS
<1>3. Min(S) \in S /\ \A y \in S : Min(S) <= y
  <2>1. S \in SUBSET Nat /\ S # {}
    BY <1>1, <1>2
  <2> QED
    BY <2>1, LeastOf
<1>4. Max(S) \in S /\ \A y \in S : y <= Max(S)
  <2>1. S \in SUBSET (0 .. a + n - 1) /\ S # {} /\ a + n - 1 \in Nat
    BY <1>1, <1>2
  <2> QED
    BY <2>1, GreatestOf
<1> DEFINE lo == Min(S)
           hi == Max(S)
<1>5. lo <= a /\ a <= lo /\ lo \in Nat /\ hi <= a + n - 1 /\ a + n - 1 <= hi /\ hi \in Nat
  BY <1>1, <1>2, <1>3, <1>4
<1> HIDE DEF lo, hi
<1>6. lo = a /\ hi = a + n - 1
  BY <1>5
<1> QED
  BY <1>6 DEF lo, hi

\* A square off the edge does not run over the end of a row.
LEMMA SquareFits ==
  ASSUME NEW g, GridOK(g), NEW o \in SUBSET Cells(g), o \cap Edge(g) = {}, NEW n \in 2 .. g.w,
         NEW c \in o, o = SquareAt(g, c, n),
         NEW a \in 0 .. n - 1, NEW b \in 0 .. n - 1
  PROVE  /\ At(g, c).x \in Nat /\ At(g, c).y \in Nat
         /\ At(g, c + a + g.w * b) = [x |-> At(g, c).x + a, y |-> At(g, c).y + b]
<1> DEFINE w  == g.w
           cx == At(g, c).x
           cy == At(g, c).y
<1>1. w \in Nat \ {0} /\ n \in Nat /\ n >= 2
  BY DEF GridOK
<1>2. cx \in 0 .. w - 1 /\ cy \in Nat /\ c = cy * w + cx
  <2>1. Cell(g, At(g, c)) /\ Index(g, At(g, c)) = c
    BY AtIs
  <2> QED
    BY <1>1, <2>1 DEF Cell, Index, GridOK
<1>3. \A x, y \in 0 .. n - 1 : c + x + w * y \in o
  BY DEF SquareAt
<1> HIDE DEF w, cx, cy
<1>4. cx + n - 1 <= w - 1
  <2> SUFFICES ASSUME ~(cx + n - 1 <= w - 1) PROVE FALSE
    OBVIOUS
  <2> DEFINE x == w - 1 - cx
             i == c + x + w * 0
  <2>1. x \in 0 .. n - 1 /\ 0 \in 0 .. n - 1
    BY <1>1, <1>2
  <2>2. i \in o
    BY <1>3, <2>1
  <2>3. i = cy * w + (w - 1)
    <3>1. w * 0 = 0 /\ cy * w \in Nat
      BY <1>1, <1>2
    <3> QED
      BY <1>1, <1>2, <3>1
  <2> HIDE DEF i
  <2>4. At(g, i) = [x |-> w - 1, y |-> cy]
    <3>1. w - 1 \in 0 .. w - 1
      BY <1>1
    <3> QED
      BY <1>2, <2>3, <3>1, CellAt DEF w
  <2>5. i \in Edge(g)
    BY <2>2, <2>4 DEF Edge, Cells, w
  <2> QED
    BY <2>2, <2>5
<1>5. c + a + w * b = (cy + b) * w + (cx + a)
  BY <1>1, <1>2
<1>6. cx + a \in 0 .. w - 1 /\ cy + b \in Nat
  BY <1>1, <1>2, <1>4
<1> DEFINE x == cx + a
           y == cy + b
<1> HIDE DEF x, y
<1>7. At(g, y * w + x) = [x |-> x, y |-> y]
  BY <1>6, CellAt DEF w, x, y
<1>8. At(g, c + a + w * b) = [x |-> cx + a, y |-> cy + b]
  BY <1>5, <1>7 DEF x, y
<1>9. cx \in Nat /\ cy \in Nat
  BY <1>2
<1> QED
  BY <1>8, <1>9 DEF w, cx, cy

\* A square off the edge passes for one.
LEMMA SquarePasses ==
  ASSUME NEW g, GridOK(g), NEW o \in SUBSET Cells(g), o \cap Edge(g) = {}, SquareOn(g, o)
  PROVE  Passes(g, o)
<1>1. PICK n \in 2 .. g.w : Cardinality(o) = n * n /\ \E c \in o : o = SquareAt(g, c, n)
  BY DEF SquareOn
<1>2. PICK c \in o : o = SquareAt(g, c, n)
  BY <1>1
<1> DEFINE cx == At(g, c).x
           cy == At(g, c).y
           xs == {At(g, i).x : i \in o}
           ys == {At(g, i).y : i \in o}
           b  == BlobStats(g, o, 0, 0)
<1>3. n \in Nat \ {0} /\ 0 \in 0 .. n - 1
  BY DEF GridOK
<1>4. cx \in Nat /\ cy \in Nat
  BY <1>2, <1>3, SquareFits
<1>20. ASSUME NEW x \in 0 .. n - 1, NEW y \in 0 .. n - 1
      PROVE  At(g, c + x + g.w * y) = [x |-> cx + x, y |-> cy + y]
  BY <1>2, SquareFits
<1>5. b.boxW = Max(xs) - Min(xs) + 1 /\ b.boxH = Max(ys) - Min(ys) + 1 /\ b.areaPx = n * n
  BY <1>1 DEF BlobStats
<1> HIDE DEF cx, cy, b
<1>6. ASSUME NEW i \in o
      PROVE  \E x, y \in 0 .. n - 1 : At(g, i) = [x |-> cx + x, y |-> cy + y]
  <2>1. PICK x \in 0 .. n - 1, y \in 0 .. n - 1 : i = c + x + g.w * y
    BY <1>2 DEF SquareAt
  <2> QED
    BY <1>20, <2>1
<1>7. ASSUME NEW x \in 0 .. n - 1, NEW y \in 0 .. n - 1
      PROVE  \E i \in o : At(g, i) = [x |-> cx + x, y |-> cy + y]
  <2>1. c + x + g.w * y \in o
    BY <1>2 DEF SquareAt
  <2> QED
    BY <1>20, <2>1
<1>8. xs = {cx + k : k \in 0 .. n - 1}
  <2>1. ASSUME NEW i \in o PROVE \E k \in 0 .. n - 1 : At(g, i).x = cx + k
    BY <1>6
  <2>2. ASSUME NEW k \in 0 .. n - 1 PROVE \E i \in o : At(g, i).x = cx + k
    <3>1. PICK i \in o : At(g, i) = [x |-> cx + k, y |-> cy + 0]
      BY <1>3, <1>7
    <3> QED
      BY <3>1
  <2> QED
    BY <2>1, <2>2
<1>9. ys = {cy + k : k \in 0 .. n - 1}
  <2>1. ASSUME NEW i \in o PROVE \E k \in 0 .. n - 1 : At(g, i).y = cy + k
    BY <1>6
  <2>2. ASSUME NEW k \in 0 .. n - 1 PROVE \E i \in o : At(g, i).y = cy + k
    <3>1. PICK i \in o : At(g, i) = [x |-> cx + 0, y |-> cy + k]
      BY <1>3, <1>7
    <3> QED
      BY <3>1
  <2> QED
    BY <2>1, <2>2
<1> HIDE DEF xs, ys
<1>10. b.boxW = n /\ b.boxH = n
  <2>1. Min(xs) = cx /\ Max(xs) = cx + n - 1 /\ Min(ys) = cy /\ Max(ys) = cy + n - 1
    BY <1>3, <1>4, <1>8, <1>9, RunOf
  <2> QED
    BY <1>3, <1>4, <1>5, <2>1
<1>11. Min({n, n}) = n /\ Max({n, n}) = n
  <2> DEFINE S == {n, n}
  <2>1. S = {n}
    OBVIOUS
  <2> HIDE DEF S
  <2>2. \A x : (x \in S /\ \A y \in S : x <= y) <=> x = n
    BY <1>3, <2>1
  <2>3. \A x : (x \in S /\ \A y \in S : y <= x) <=> x = n
    BY <1>3, <2>1
  <2>4. \A x \in S : x = n
    BY <2>1
  <2>5. Min(S) \in S /\ Max(S) \in S
    BY <1>3, <2>1, <2>2, <2>3 DEF Min, Max
  <2> QED
    BY <2>4, <2>5 DEF S
<1>12. n * n \in Nat
  BY <1>3
<1>13. 10 * n >= 9 * n /\ 100 * (n * n) >= 85 * (n * n) /\ 85 * n * n = 85 * (n * n)
  BY <1>3, <1>12
<1>14. IsSquareCandidate(b)
  BY <1>5, <1>10, <1>11, <1>13 DEF IsSquareCandidate
<1> QED
  BY <1>14 DEF Passes, b

\* A part of the dark in one piece that ends where the dark ends.
OnePiece(g, dark, o) ==
  \A i \in o : Linked(g, i) \cap dark \subseteq o /\ Flood(g, o, {i}) = o

\* An object in one piece that ends where the dark ends is a connected part of the dark.
LEMMA ObjectIsPart ==
  ASSUME NEW g, GridOK(g), NEW dark \in SUBSET Cells(g), NEW o \in SUBSET dark,
         OnePiece(g, dark, o), NEW i \in o
  PROVE  Reach(g, dark, {i}) = o
<1> DEFINE P == Reach(g, dark, {i})
<1>1. i \in dark /\ {i} \in SUBSET dark /\ {i} \in SUBSET o /\ o \in SUBSET Cells(g)
  OBVIOUS
<1>2. Closed(g, dark, o)
  BY DEF Closed, OnePiece
<1>3. P \subseteq o
  BY <1>2, ReachLeast
<1>4. i \in P /\ Closed(g, dark, P)
  BY <1>1, ReachClosed
<1> HIDE DEF P
<1>5. Closed(g, o, P)
  BY <1>4 DEF Closed
<1>6. Reach(g, o, {i}) \subseteq P
  BY <1>3, <1>4, <1>5, ReachLeast
<1>7. Reach(g, o, {i}) = o
  BY <1>1, FloodIs DEF OnePiece
<1> QED
  BY <1>3, <1>6, <1>7 DEF P

\* What the analysis takes for a whole part is a whole object, and for a square one.
LEMMA WholeAreObjects ==
  ASSUME NEW k \in DOMAIN Setups, Legible(Setups[k]),
         NEW f, f = Setups[k].scene.frame, NEW g, g = Grid(f), NEW dark, dark = DarkOf(f)
  PROVE  /\ WholeParts(g, dark) = WholeObjects(Setups[k])
         /\ \A o \in WholeParts(g, dark) : Passes(g, o) <=> SquareOn(g, o)
<1> DEFINE objects == Setups[k].scene.objects
           WO      == WholeObjects(Setups[k])
<1>1. GridOK(g) /\ dark \in SUBSET Cells(g)
  BY LegibleSent, DarkIn
<1>2. /\ \A o \in objects : /\ o # {} /\ o \in SUBSET dark
                            /\ \A i \in o : Linked(g, i) \cap dark \subseteq o /\ Flood(g, o, {i}) = o
      /\ \A i \in dark \ UNION objects : Flood(g, dark, {i}) \cap Edge(g) # {}
      /\ \A o \in WO : IsSquareCandidate(BlobStats(g, o, 0, 0)) => SquareOn(g, o)
  BY DEF Legible, DarkOf, Flat
<1>3. WO = {o \in objects : Cardinality(o) >= MinBlobArea /\ o \cap Edge(g) = {}}
  BY DEF WholeObjects
<1> HIDE DEF objects, WO
<1>4. ASSUME NEW o \in objects, NEW i \in o PROVE Reach(g, dark, {i}) = o
  <2>1. o \in SUBSET dark /\ OnePiece(g, dark, o)
    BY <1>2 DEF OnePiece
  <2> QED
    BY <1>1, <2>1, ObjectIsPart
<1>5. ASSUME NEW o \in WO PROVE o \in WholeParts(g, dark)
  <2>1. o \in objects /\ o # {} /\ o \in SUBSET dark
    BY <1>2, <1>3
  <2>2. PICK i \in o : TRUE
    BY <2>1
  <2>3. o = Reach(g, dark, {i}) /\ i \in dark
    BY <1>4, <2>1
  <2>4. o \in Parts(g, dark)
    BY <2>3 DEF Parts
  <2> QED
    BY <1>3, <2>4 DEF WholeParts
<1>6. ASSUME NEW P \in WholeParts(g, dark) PROVE P \in WO
  <2>1. P \in Parts(g, dark) /\ Cardinality(P) >= MinBlobArea /\ P \cap Edge(g) = {}
    BY DEF WholeParts
  <2>2. PICK m \in dark : P = Reach(g, dark, {m})
    BY <2>1 DEF Parts
  <2>3. Flood(g, dark, {m}) = P
    <3>1. {m} \in SUBSET dark
      OBVIOUS
    <3> QED
      BY <1>1, <2>2, <3>1, FloodIs
  <2>4. PICK o \in objects : m \in o
    BY <1>2, <2>1, <2>3
  <2>5. P = o
    BY <1>4, <2>2, <2>4
  <2> QED
    BY <1>3, <2>1, <2>5
<1>7. WholeParts(g, dark) = WO
  BY <1>5, <1>6
<1>8. ASSUME NEW o \in WO PROVE Passes(g, o) <=> SquareOn(g, o)
  <2>1. o \in SUBSET Cells(g) /\ o \cap Edge(g) = {}
    BY <1>1, <1>2, <1>3
  <2>2. SquareOn(g, o) => Passes(g, o)
    BY <1>1, <2>1, SquarePasses
  <2> QED
    BY <1>2, <2>2 DEF Passes
<1> QED
  BY <1>7, <1>8 DEF WO

\* The reference and the subject among the objects.
ObjectPair(setup, g, r, s) ==
  /\ {r, s} \subseteq WholeObjects(setup) /\ r # s /\ SquareOn(g, r)
  /\ \A o \in WholeObjects(setup) \ {r} :
       /\ SquareOn(g, o) => 2 * Cardinality(o) < Cardinality(r)
       /\ Cardinality(o) <= Cardinality(s)
  /\ Cardinality(s) * setup.side * setup.side >= MinSubject * Cardinality(r)

\* What a part is to be, to be the reference or the subject, an object is to be.
LEMMA PairIs ==
  ASSUME NEW k \in DOMAIN Setups, Legible(Setups[k]),
         NEW f, f = Setups[k].scene.frame, NEW g, g = Grid(f), NEW dark, dark = DarkOf(f),
         NEW r, NEW s
  PROVE  PairOf(g, dark, Setups[k].side, r, s) <=> ObjectPair(Setups[k], g, r, s)
<1> DEFINE W == WholeParts(g, dark)
<1>1. W = WholeObjects(Setups[k]) /\ \A o \in W : Passes(g, o) <=> SquareOn(g, o)
  BY WholeAreObjects
<1> HIDE DEF W
<1> QED
  BY <1>1 DEF PairOf, W, ObjectPair

\* Every scene there is is measured soundly.
LEMMA ScenesAreSound ==
  ASSUME NEW k \in DOMAIN Setups
  PROVE  SceneSound(Setups[k], Outcomes[k])
<1> DEFINE f    == Setups[k].scene.frame
           g    == Grid(f)
           dark == DarkOf(f)
           side == Setups[k].side
           o    == AnalyzeFrame(f, side)
<1>1. Outcomes[k] = o
  BY DEF Outcomes
<1>2. side \in Int
  BY LegibleSent
<1> HIDE DEF f, g, dark, side, o
<1>3. CASE f.format = "mjpeg"
  <2>1. f.format \notin {"rgb888", "gray8", "yuyv"}
    BY <1>3
  <2>2. o.analysis = {}
    BY <1>2, <2>1, AnalyzeIs DEF o
  <2> QED
    BY <1>1, <1>3, <2>2 DEF SceneSound, f
<1>4. CASE Legible(Setups[k])
  <2>1. Sent(f) /\ side \in Nat \ {0}
    BY <1>4, LegibleSent DEF f, side
  <2>2. /\ \A a \in o.analysis : PairOf(g, dark, side, a.reference.px, a.subject.px)
        /\ o.analysis = {} => \A r, s : ~ PairOf(g, dark, side, r, s)
    BY <2>1, MeasuresTheSubject DEF o, g, dark
  <2>3. ASSUME NEW r, NEW s
        PROVE  PairOf(g, dark, side, r, s) <=> ObjectPair(Setups[k], g, r, s)
    BY <1>4, PairIs DEF f, g, dark, side
  <2>4. CASE o.analysis = {}
    <3>1. \A r, s : ~ ObjectPair(Setups[k], g, r, s)
      BY <2>2, <2>3, <2>4
    <3> QED
      BY <1>1, <2>4, <3>1 DEF SceneSound, ObjectPair, f, g
  <2>5. CASE o.analysis # {}
    <3>1. \A a \in o.analysis : ObjectPair(Setups[k], g, a.reference.px, a.subject.px)
      BY <2>2, <2>3
    <3> QED
      BY <1>1, <2>5, <3>1 DEF SceneSound, ObjectPair, f, g
  <2> QED
    BY <2>4, <2>5
<1> QED
  BY <1>3, <1>4, Scenes DEF f

\* What is measured is what lies on the paper, for every legible scene: the reference is
\* the only square and the subject the largest of the other whole objects, and a scene
\* is refused only when there is no such pair (analyzeFrame(), of every draft).
THEOREM SubjectsAreSound == ScoutSpec => []SubjectSound
<1>1. ScoutInv => SubjectSound
  <2> SUFFICES ASSUME ScoutInv, NEW d \in Drafted PROVE d.setup \in SoundSetups
    BY DEF SubjectSound
  <2>1. PICK n \in 1 .. MaxCaptures : drafts[n] # {} /\ d = CHOOSE e \in drafts[n] : TRUE
    BY DEF Drafted
  <2>2. PICK k \in DOMAIN Setups : \E r : drafts[n] = {[setup |-> k, record |-> r]} /\ Sound(r)
    BY <2>1, Zenon DEF ScoutInv, DraftsOK
  <2>3. PICK r : drafts[n] = {[setup |-> k, record |-> r]}
    BY <2>2
  <2>4. d = [setup |-> k, record |-> r]
    BY <2>1, <2>3
  <2>5. d.setup = k
    BY <2>4
  <2> QED
    BY <2>5, ScenesAreSound DEF SoundSetups
<1> QED
  BY <1>1, ScoutInvariant, PTL

-----------------------------------------------------------------------------
(* The lines of a text                                                     *)

\* The words before a line and those of each of the lines up to it, joined.
Joins(h, ls) == h[0] = <<>> /\ \A n \in 1 .. Len(ls) : h[n] = h[n - 1] \o ls[n]

\* Lines joined, one after the other.
LEMMA FlattenIs ==
  ASSUME NEW T, NEW ls \in Seq(Seq(T))
  PROVE  \E h \in [0 .. Len(ls) -> Seq(T)] : Joins(h, ls) /\ FlattenSeq(ls) = h[Len(ls)]
<1> DEFINE N == Len(ls)
           D == Seq(T)
           G == [n \in 1 .. N |-> [s \in D |-> s \o ls[n]]]
           Round(f) == [i \in 1 .. N |-> IF i = 1 THEN ls[i] ELSE f[i - 1] \o ls[i]]
           flatten == CHOOSE f : f = Round(f)
<1>1. N \in Nat /\ \A n \in 1 .. N : ls[n] \in D
  OBVIOUS
<1>2. ASSUME NEW s \in D, NEW t \in D PROVE s \o t \in D /\ (s = <<>> => s \o t = t)
  BY ConcatProperties, ConcatEmptySeq
<1>3. <<>> \in D
  OBVIOUS
<1> HIDE DEF N, D
<1>4. G \in [1 .. N -> [D -> D]]
  BY <1>1, <1>2
<1>5. PICK h \in [0 .. N -> D] : h[0] = <<>> /\ \A n \in 1 .. N : h[n] = G[n][h[n - 1]]
  <2> HIDE DEF G
  <2>1. \E f \in [0 .. N -> D] : Runs(f, N, <<>>, G)
    BY <1>1, <1>3, <1>4, Loop
  <2> QED
    BY <2>1, Zenon DEF Runs
<1>6. ASSUME NEW n \in 1 .. N PROVE h[n] = h[n - 1] \o ls[n] /\ (n = 1 => h[n] = ls[n])
  <2>1. n - 1 \in 0 .. N
    BY <1>1
  <2>2. h[n - 1] \in D /\ ls[n] \in D
    BY <1>1, <2>1
  <2>3. h[n] = h[n - 1] \o ls[n]
    BY <1>5, <2>2
  <2>4. n = 1 => h[n - 1] = <<>>
    BY <1>5
  <2>5. h[n - 1] = <<>> => h[n - 1] \o ls[n] = ls[n]
    BY <1>2, <2>2
  <2> QED
    BY <2>3, <2>4, <2>5
<1>7. Joins(h, ls)
  BY <1>5, <1>6 DEF Joins, N
<1>8. CASE N = 0
  <2>1. FlattenSeq(ls) = <<>>
    BY <1>8 DEF FlattenSeq, N
  <2> QED
    BY <1>5, <1>7, <1>8, <2>1 DEF D, N
<1>9. CASE N # 0
  <2> DEFINE k == [i \in 1 .. N |-> h[i]]
  <2>1. k = Round(k)
    <3>1. ASSUME NEW n \in 1 .. N, n # 1 PROVE k[n] = k[n - 1] \o ls[n]
      <4>1. n - 1 \in 1 .. N
        BY <1>1, <3>1
      <4> QED
        BY <1>6, <4>1
    <3>2. ASSUME NEW n \in 1 .. N, n = 1 PROVE k[n] = ls[n]
      BY <1>6, <3>2
    <3>3. k = [n \in 1 .. N |-> k[n]]
      OBVIOUS
    <3> HIDE DEF k
    <3> QED
      BY <3>1, <3>2, <3>3
  <2>2. flatten = Round(flatten)
    <3> HIDE DEF Round, k
    <3> QED
      BY <2>1
  <2>3. FlattenSeq(ls) = flatten[N]
    BY <1>9 DEF FlattenSeq, N
  <2> HIDE DEF flatten
  <2> DEFINE Good == {n \in 0 .. N : n = 0 \/ flatten[n] = h[n]}
  <2>4. 0 \in Good
    BY <1>1
  <2>5. ASSUME NEW n \in 1 .. N, n - 1 \in Good PROVE n \in Good
    <3>1. n \in 0 .. N
      BY <1>1
    <3>2. CASE n = 1
      BY <1>6, <2>2, <3>1, <3>2
    <3>3. CASE n # 1
      <4>1. n - 1 \in 1 .. N /\ n - 1 # 0
        BY <1>1, <3>3
      <4>2. flatten[n] = flatten[n - 1] \o ls[n]
        BY <2>2, <3>3
      <4> QED
        BY <1>6, <2>5, <3>1, <4>1, <4>2
    <3> QED
      BY <3>2, <3>3
  <2>6. Good = 0 .. N
    <3>1. Good \in SUBSET (0 .. N)
      OBVIOUS
    <3> HIDE DEF Good
    <3> QED
      BY <1>1, <2>4, <2>5, <3>1, Counted
  <2>7. N \in Good
    BY <1>1, <2>6
  <2> QED
    BY <1>7, <1>9, <2>3, <2>7 DEF D, N
<1> QED
  BY <1>8, <1>9

\* One line more.
LEMMA FlattenOne ==
  ASSUME NEW T, NEW ls \in Seq(Seq(T)), NEW l \in Seq(T)
  PROVE  /\ FlattenSeq(ls) \in Seq(T) /\ FlattenSeq(Append(ls, l)) = FlattenSeq(ls) \o l
         /\ ls = <<>> => FlattenSeq(ls) = <<>>
<1> DEFINE N == Len(ls)
           D == Seq(T)
           ms == Append(ls, l)
<1>1. /\ N \in Nat /\ ms \in Seq(D) /\ Len(ms) = N + 1 /\ ms[N + 1] = l
      /\ \A n \in 1 .. N : ms[n] = ls[n]
  BY AppendProperties
<1>2. PICK h \in [0 .. N -> D] : Joins(h, ls) /\ FlattenSeq(ls) = h[N]
  BY FlattenIs
<1>3. PICK k \in [0 .. N + 1 -> D] : Joins(k, ms) /\ FlattenSeq(ms) = k[N + 1]
  <2> HIDE DEF ms
  <2> QED
    BY <1>1, FlattenIs
<1>7. ls = <<>> => FlattenSeq(ls) = <<>>
  BY DEF FlattenSeq
<1> HIDE DEF N, D, ms
<1> DEFINE Good == {n \in 0 .. N : h[n] = k[n]}
<1>4. 0 \in Good
  BY <1>1, <1>2, <1>3 DEF Joins
<1>5. ASSUME NEW n \in 1 .. N, n - 1 \in Good PROVE n \in Good
  <2>1. n \in 0 .. N /\ n \in 1 .. N + 1
    BY <1>1
  <2>2. h[n] = h[n - 1] \o ls[n]
    BY <1>2 DEF Joins, N
  <2>3. k[n] = k[n - 1] \o ms[n]
    BY <1>1, <1>3, <2>1 DEF Joins
  <2> QED
    BY <1>1, <1>5, <2>1, <2>2, <2>3
<1>6. Good = 0 .. N
  <2>1. Good \in SUBSET (0 .. N)
    OBVIOUS
  <2> HIDE DEF Good
  <2> QED
    BY <1>1, <1>4, <1>5, <2>1, Counted
<1>8. h[N] = k[N] /\ h[N] \in D
  <2>1. N \in 0 .. N
    BY <1>1
  <2> QED
    BY <1>6, <2>1
<1>9. k[N + 1] = k[N] \o l
  <2> DEFINE n == N + 1
  <2>1. n \in 1 .. n /\ n - 1 = N /\ Len(ms) = n
    BY <1>1
  <2> HIDE DEF n
  <2>2. k[n] = k[n - 1] \o ms[n]
    BY <1>3, <2>1 DEF Joins
  <2>3. ms[n] = l
    BY <1>1 DEF n
  <2>4. k[n] = k[N] \o l
    BY <2>1, <2>2, <2>3
  <2> QED
    BY <2>4 DEF n
<1> QED
  BY <1>2, <1>3, <1>7, <1>8, <1>9 DEF D, ms

\* The words of a text.
WordsOK(words, T) == words \in Seq(T) /\ \A w \in T : Len(w) \in Nat

\* The cells of a line are counted.
LEMMA LineLengthIs ==
  ASSUME NEW T, NEW words, WordsOK(words, T)
  PROVE  LineLength(words) \in Int
<1> DEFINE N == Len(words)
           G == [n \in 1 .. N |-> [c \in Int |-> c + 1 + Len(words[n])]]
           Round(f) == [n \in 0 .. N |-> IF n = 0 THEN -1 ELSE f[n - 1] + 1 + Len(words[n])]
           cells == CHOOSE f : f = Round(f)
<1>1. N \in Nat /\ \A n \in 1 .. N : Len(words[n]) \in Nat
  BY DEF WordsOK
<1> HIDE DEF N
<1>2. G \in [1 .. N -> [Int -> Int]]
  BY <1>1
<1>3. PICK h \in [0 .. N -> Int] : h[0] = -1 /\ \A n \in 1 .. N : h[n] = G[n][h[n - 1]]
  <2> HIDE DEF G
  <2>2. -1 \in Int
    OBVIOUS
  <2>1. \E f \in [0 .. N -> Int] : Runs(f, N, -1, G)
    BY <1>1, <1>2, <2>2, Loop
  <2> QED
    BY <2>1, Zenon DEF Runs
<1>4. h = Round(h)
  <2>1. ASSUME NEW n \in 1 .. N PROVE h[n] = h[n - 1] + 1 + Len(words[n])
    <3>1. n - 1 \in 0 .. N
      BY <1>1
    <3>2. h[n - 1] \in Int
      BY <3>1
    <3> QED
      BY <1>3, <3>2
  <2>2. \A n \in 0 .. N : n = 0 \/ n \in 1 .. N
    BY <1>1
  <2>3. h = [n \in 0 .. N |-> h[n]]
    OBVIOUS
  <2> QED
    BY <1>3, <2>1, <2>2, <2>3
<1>5. cells = Round(cells)
  <2> HIDE DEF Round
  <2> QED
    BY <1>4
<1>6. LineLength(words) = cells[N]
  BY DEF LineLength, N
<1> HIDE DEF cells
<1> DEFINE Good == {n \in 0 .. N : cells[n] \in Int}
<1>7. 0 \in Good
  <2>1. 0 \in 0 .. N
    BY <1>1
  <2> QED
    BY <1>5, <2>1
<1>8. ASSUME NEW n \in 1 .. N, n - 1 \in Good PROVE n \in Good
  <2>1. n \in 0 .. N /\ n # 0
    BY <1>1
  <2>2. cells[n] = cells[n - 1] + 1 + Len(words[n])
    BY <1>5, <2>1
  <2> QED
    BY <1>1, <1>8, <2>1, <2>2
<1>9. Good = 0 .. N
  <2>1. Good \in SUBSET (0 .. N)
    OBVIOUS
  <2> HIDE DEF Good
  <2> QED
    BY <1>1, <1>7, <1>8, <2>1, Counted
<1>10. N \in Good
  BY <1>1, <1>9
<1> QED
  BY <1>6, <1>10

\* A sequence has the first n words.
Begins(words, n, s) == Len(s) = n /\ \A k \in 1 .. n : s[k] = words[k]

\* A line that is not too long, or one word.
LineOK(l, maxChars) == l # <<>> /\ (Len(l) = 1 \/ LineLength(l) <= maxChars)

\* The lines after n words: they fit, and have the words; or no more lines are allowed,
\* and words are missing.
Written(words, maxChars, maxLines, T, s, n) ==
  /\ s \in [lines : Seq(Seq(T)), line : Seq(T), truncated : BOOLEAN]
  /\ \A k \in DOMAIN s.lines : LineOK(s.lines[k], maxChars)
  /\ s.line = <<>> \/ LineOK(s.line, maxChars)
  /\ ~ s.truncated => /\ Len(s.lines) < maxLines
                      /\ Begins(words, n, FlattenSeq(s.lines) \o s.line)
  /\ s.truncated => /\ Len(s.lines) = maxLines
                    /\ \E m \in 0 .. Len(words) - 1 : Begins(words, m, FlattenSeq(s.lines))

\* A word after the first n.
LEMMA BeginsOne ==
  ASSUME NEW T, NEW words \in Seq(T), NEW n \in 1 .. Len(words), NEW a \in Seq(T),
         NEW b \in Seq(T), Begins(words, n - 1, a \o b)
  PROVE  Begins(words, n, a \o Append(b, words[n]))
<1> DEFINE w == words[n]
           p == Len(a)
           q == Len(b)
           ab == a \o b
           c == Append(b, w)
           ac == a \o c
<1>1. w \in T /\ Len(words) \in Nat /\ n \in Nat
  OBVIOUS
<1>2. c \in Seq(T) /\ Len(c) = q + 1 /\ c[q + 1] = w /\ \A k \in 1 .. q : c[k] = b[k]
  BY <1>1, AppendProperties
<1>3. p \in Nat /\ q \in Nat
  OBVIOUS
<1> HIDE DEF c, w
<1>4. Len(ab) = p + q /\ \A k \in 1 .. p + q : ab[k] = IF k <= p THEN a[k] ELSE b[k - p]
  BY ConcatProperties
<1>5. /\ Len(ac) = p + (q + 1)
      /\ \A k \in 1 .. p + (q + 1) : ac[k] = IF k <= p THEN a[k] ELSE c[k - p]
  <2> DEFINE r == Len(c)
  <2>1. Len(ac) = p + r /\ \A k \in 1 .. p + r : ac[k] = IF k <= p THEN a[k] ELSE c[k - p]
    BY <1>2, ConcatProperties
  <2>2. r = q + 1
    BY <1>2
  <2> HIDE DEF r, ac, p, q
  <2> QED
    BY <2>1, <2>2
<1>6. Len(ab) = n - 1 /\ \A k \in 1 .. n - 1 : ab[k] = words[k]
  BY DEF Begins
<1> HIDE DEF p, q, ab, ac
<1>7. p + q = n - 1 /\ p + (q + 1) = n
  BY <1>1, <1>3, <1>4, <1>6
<1>8. ASSUME NEW k \in 1 .. n PROVE ac[k] = words[k]
  <2>1. CASE k = n
    <3>1. ~ k <= p /\ k - p = q + 1 /\ k \in 1 .. p + (q + 1)
      BY <1>1, <1>3, <1>7, <2>1
    <3> QED
      BY <1>2, <1>5, <2>1, <3>1 DEF w
  <2>2. CASE k # n
    <3>1. k \in 1 .. n - 1 /\ k \in 1 .. p + q /\ k \in 1 .. p + (q + 1)
      BY <1>1, <1>3, <1>7, <2>2
    <3>2. ~ k <= p => k - p \in 1 .. q
      BY <1>3, <3>1
    <3>3. ac[k] = ab[k]
      BY <1>2, <1>4, <1>5, <3>1, <3>2
    <3> QED
      BY <1>6, <3>1, <3>3
  <2> QED
    BY <2>1, <2>2
<1>9. Begins(words, n, ac)
  BY <1>5, <1>7, <1>8 DEF Begins
<1> QED
  BY <1>9 DEF ac, c, w

\* What a word does to the lines.
LEMMA PlaceIs ==
  ASSUME NEW T, NEW words, WordsOK(words, T), NEW maxChars \in Nat, NEW maxLines \in Nat \ {0},
         NEW n \in 1 .. Len(words), NEW s, Written(words, maxChars, maxLines, T, s, n - 1)
  PROVE  Written(words, maxChars, maxLines, T, Place(s, words[n], maxChars, maxLines), n)
<1> DEFINE w == words[n]
           t == Place(s, w, maxChars, maxLines)
           OK(r, m) == Written(words, maxChars, maxLines, T, r, m)
<1>1. w \in T /\ words \in Seq(T) /\ Len(words) \in Nat /\ n \in Nat
  BY DEF WordsOK
<1> HIDE DEF w
<1>2. /\ s \in [lines : Seq(Seq(T)), line : Seq(T), truncated : BOOLEAN]
      /\ s.lines \in Seq(Seq(T)) /\ s.line \in Seq(T) /\ s.truncated \in BOOLEAN
      /\ s = [lines |-> s.lines, line |-> s.line, truncated |-> s.truncated]
      /\ \A k \in DOMAIN s.lines : LineOK(s.lines[k], maxChars)
      /\ s.line = <<>> \/ LineOK(s.line, maxChars)
      /\ ~ s.truncated => /\ Len(s.lines) < maxLines
                          /\ Begins(words, n - 1, FlattenSeq(s.lines) \o s.line)
      /\ s.truncated => /\ Len(s.lines) = maxLines
                        /\ \E m \in 0 .. Len(words) - 1 : Begins(words, m, FlattenSeq(s.lines))
  BY DEF Written
<1>3. FlattenSeq(s.lines) \in Seq(T)
  BY <1>2, FlattenOne
<1>4. CASE s.truncated
  BY <1>2, <1>4 DEF Place, Written
<1> DEFINE one == <<w>>
<1>5. one \in Seq(T) /\ LineOK(one, maxChars) /\ one = Append(<<>>, w)
  <2>1. one \in Seq(T) /\ one # <<>> /\ Len(one) = 1
    BY <1>1
  <2>2. one = Append(<<>>, w)
    OBVIOUS
  <2> QED
    BY <2>1, <2>2 DEF LineOK
<1> HIDE DEF one
<1>6. CASE ~ s.truncated /\ s.line = <<>>
  <2>1. t = [lines |-> s.lines, line |-> one, truncated |-> FALSE]
    BY <1>2, <1>6 DEF Place, one
  <2>2. Begins(words, n, FlattenSeq(s.lines) \o Append(s.line, w))
    BY <1>1, <1>2, <1>3, <1>6, BeginsOne DEF w
  <2>3. Begins(words, n, FlattenSeq(s.lines) \o one)
    BY <1>5, <1>6, <2>2
  <2> QED
    BY <1>2, <1>5, <1>6, <2>1, <2>3 DEF Written, w
<1> DEFINE more == Append(s.line, w)
<1>7. CASE ~ s.truncated /\ s.line # <<>> /\ LineLength(more) <= maxChars
  <2>1. t = [lines |-> s.lines, line |-> more, truncated |-> FALSE]
    BY <1>2, <1>7 DEF Place
  <2>2. Begins(words, n, FlattenSeq(s.lines) \o more)
    BY <1>1, <1>2, <1>3, <1>7, BeginsOne DEF w
  <2>3. more \in Seq(T) /\ more # <<>>
    BY <1>1, <1>2, AppendProperties
  <2>4. LineOK(more, maxChars)
    BY <1>7, <2>3 DEF LineOK
  <2> HIDE DEF more
  <2> QED
    BY <1>2, <1>7, <2>1, <2>2, <2>3, <2>4 DEF Written, w
<1>8. CASE ~ s.truncated /\ s.line # <<>> /\ ~ LineLength(more) <= maxChars
  <2> DEFINE ls == Append(s.lines, s.line)
             full == Len(s.lines) + 1 = maxLines
  <2>1. t = [lines |-> ls, line |-> one, truncated |-> full]
    BY <1>2, <1>8 DEF Place, one
  <2>2. /\ ls \in Seq(Seq(T)) /\ Len(ls) = Len(s.lines) + 1 /\ Len(s.lines) \in Nat
        /\ DOMAIN ls = 1 .. Len(s.lines) + 1 /\ DOMAIN s.lines = 1 .. Len(s.lines)
        /\ ls[Len(s.lines) + 1] = s.line /\ \A k \in 1 .. Len(s.lines) : ls[k] = s.lines[k]
    BY <1>2, AppendProperties
  <2>3. FlattenSeq(ls) = FlattenSeq(s.lines) \o s.line
    BY <1>2, FlattenOne
  <2> HIDE DEF ls
  <2>4. Begins(words, n - 1, FlattenSeq(ls)) /\ FlattenSeq(ls) \in Seq(T)
    BY <1>2, <1>8, <2>2, <2>3, FlattenOne
  <2>5. Begins(words, n, FlattenSeq(ls) \o one)
    <3>1. <<>> \in Seq(T) /\ FlattenSeq(ls) \o <<>> = FlattenSeq(ls)
      BY <2>4, ConcatEmptySeq
    <3>2. Begins(words, n, FlattenSeq(ls) \o Append(<<>>, w))
      BY <1>1, <2>4, <3>1, BeginsOne DEF w
    <3> QED
      BY <1>5, <3>2
  <2>6. ASSUME NEW k \in DOMAIN ls PROVE LineOK(ls[k], maxChars)
    <3>1. CASE k = Len(s.lines) + 1
      BY <1>2, <1>8, <2>2, <3>1
    <3>2. CASE k # Len(s.lines) + 1
      <4>1. k \in 1 .. Len(s.lines)
        BY <2>2, <3>2
      <4> QED
        BY <1>2, <2>2, <4>1
    <3> QED
      BY <3>1, <3>2
  <2>7. ~ full => Len(ls) < maxLines
    BY <1>2, <1>8, <2>2
  <2>8. full => Len(ls) = maxLines /\ n - 1 \in 0 .. Len(words) - 1
    BY <1>1, <2>2
  <2>9. full \in BOOLEAN
    OBVIOUS
  <2> HIDE DEF full
  <2>10. t \in [lines : Seq(Seq(T)), line : Seq(T), truncated : BOOLEAN]
    BY <1>5, <2>1, <2>2, <2>9
  <2> QED
    BY <1>5, <2>1, <2>4, <2>5, <2>6, <2>7, <2>8, <2>10 DEF Written, w
<1> QED
  BY <1>2, <1>4, <1>6, <1>7, <1>8 DEF w

\* The lines that are shown.
LinesKept(s) == IF s.truncated \/ s.line = <<>> THEN s.lines ELSE Append(s.lines, s.line)

\* The lines when every word was placed.
LEMMA AllWritten ==
  ASSUME NEW T, NEW words, WordsOK(words, T), NEW maxChars \in Nat, NEW maxLines \in Nat \ {0}
  PROVE  \E s : /\ Written(words, maxChars, maxLines, T, s, Len(words))
                /\ Wrap(words, maxChars, maxLines) =
                     [lines |-> LinesKept(s),
                      dots |-> s.truncated /\ LineLength(Last(LinesKept(s))) > 3]
<1> DEFINE N == Len(words)
           D == [lines : Seq(Seq(T)), line : Seq(T), truncated : BOOLEAN]
           first == [lines |-> <<>>, line |-> <<>>, truncated |-> FALSE]
           Next1(n, s) == Place(s, words[n], maxChars, maxLines)
           G == [n \in 1 .. N |-> [s \in D |-> Next1(n, s)]]
           Round(f) == [n \in 0 .. N |-> IF n = 0 THEN first ELSE Next1(n, f[n - 1])]
           place == CHOOSE f : f = Round(f)
<1>1. N \in Nat /\ \A n \in 1 .. N : words[n] \in T
  BY DEF WordsOK
<1>2. first \in D
  OBVIOUS
<1>3. ASSUME NEW n \in 1 .. N, NEW s \in D PROVE Next1(n, s) \in D
  <2>1. /\ s = [lines |-> s.lines, line |-> s.line, truncated |-> s.truncated]
        /\ s.lines \in Seq(Seq(T)) /\ s.line \in Seq(T) /\ s.truncated \in BOOLEAN
        /\ words[n] \in T
    BY <1>1
  <2> DEFINE w == words[n]
             one == <<w>>
             more == Append(s.line, w)
             ls == Append(s.lines, s.line)
             full == Len(s.lines) + 1 = maxLines
  <2>2. one \in Seq(T) /\ more \in Seq(T) /\ ls \in Seq(Seq(T)) /\ full \in BOOLEAN
    BY <2>1, AppendProperties
  <2>3. Place(s, w, maxChars, maxLines) \in
          {s, [lines |-> s.lines, line |-> one, truncated |-> s.truncated],
           [lines |-> s.lines, line |-> more, truncated |-> s.truncated],
           [lines |-> ls, line |-> one, truncated |-> full]}
    BY <2>1 DEF Place
  <2> HIDE DEF w, one, more, ls, full
  <2> QED
    BY <2>1, <2>2, <2>3 DEF w
<1> HIDE DEF N, D, first, Next1
<1>4. G \in [1 .. N -> [D -> D]]
  BY <1>3
<1>5. PICK h \in [0 .. N -> D] : h[0] = first /\ \A n \in 1 .. N : h[n] = G[n][h[n - 1]]
  <2> HIDE DEF G
  <2>1. \E f \in [0 .. N -> D] : Runs(f, N, first, G)
    BY <1>1, <1>2, <1>4, Loop
  <2> QED
    BY <2>1, Zenon DEF Runs
<1>6. h = Round(h)
  <2>1. ASSUME NEW n \in 1 .. N PROVE h[n] = Next1(n, h[n - 1])
    <3>1. n - 1 \in 0 .. N
      BY <1>1
    <3>2. h[n - 1] \in D
      BY <3>1
    <3> QED
      BY <1>5, <3>2
  <2>2. \A n \in 0 .. N : n = 0 \/ n \in 1 .. N
    BY <1>1
  <2>3. h = [n \in 0 .. N |-> h[n]]
    OBVIOUS
  <2> QED
    BY <1>5, <2>1, <2>2, <2>3
<1>7. place = Round(place)
  <2> HIDE DEF Round
  <2> QED
    BY <1>6
<1>8. Wrap(words, maxChars, maxLines) =
        [lines |-> LinesKept(place[N]),
         dots |-> place[N].truncated /\ LineLength(Last(LinesKept(place[N]))) > 3]
  BY DEF Wrap, LinesKept, N, first, Next1
<1> HIDE DEF place
<1> DEFINE OK(s, n) == Written(words, maxChars, maxLines, T, s, n)
           Good == {n \in 0 .. N : OK(place[n], n)}
<1>9. 0 \in Good
  <2>1. 0 \in 0 .. N /\ place[0] = first
    <3>1. 0 \in 0 .. N
      BY <1>1
    <3> QED
      BY <1>7, <3>1
  <2>2. Begins(words, 0, <<>>)
    BY DEF Begins
  <2>3. FlattenSeq(<<>>) \o <<>> = <<>>
    BY DEF FlattenSeq
  <2>4. 0 < maxLines
    OBVIOUS
  <2>5. Written(words, maxChars, maxLines, T, first, 0)
    BY <1>2, <2>2, <2>3, <2>4 DEF Written, first, D
  <2> QED
    BY <2>1, <2>5
<1>10. ASSUME NEW n \in 1 .. N, n - 1 \in Good PROVE n \in Good
  <2>1. n \in 0 .. N /\ n # 0 /\ n \in 1 .. Len(words)
    BY <1>1 DEF N
  <2>2. OK(place[n - 1], n - 1)
    BY <1>10
  <2>3. place[n] = Place(place[n - 1], words[n], maxChars, maxLines)
    BY <1>7, <2>1 DEF Next1
  <2>4. OK(place[n], n)
    BY <2>1, <2>2, <2>3, PlaceIs
  <2> QED
    BY <2>1, <2>4
<1>11. Good = 0 .. N
  <2>1. Good \in SUBSET (0 .. N)
    OBVIOUS
  <2> HIDE DEF Good
  <2> QED
    BY <1>1, <1>9, <1>10, <2>1, Counted
<1>12. N \in Good
  BY <1>1, <1>11
<1> QED
  BY <1>8, <1>12 DEF N

\* The card's lines: none is too long unless it is one word, there are no more than allowed,
\* the words are in their order, and some are missing only at the end, behind dots or a
\* line too short for them.  For every text.
THEOREM LinesOfText ==
  ASSUME NEW T, NEW words, WordsOK(words, T), NEW maxChars \in Nat, NEW maxLines \in Nat \ {0}
  PROVE  WrapRight(words, maxChars, maxLines)
<1>1. PICK s : /\ Written(words, maxChars, maxLines, T, s, Len(words))
               /\ Wrap(words, maxChars, maxLines) =
                    [lines |-> LinesKept(s),
                     dots |-> s.truncated /\ LineLength(Last(LinesKept(s))) > 3]
  BY AllWritten
<1> DEFINE lines == IF s.truncated \/ s.line = <<>> THEN s.lines ELSE Append(s.lines, s.line)
           all == FlattenSeq(lines)
<1>2. /\ s.lines \in Seq(Seq(T)) /\ s.line \in Seq(T) /\ s.truncated \in BOOLEAN
      /\ \A k \in DOMAIN s.lines : LineOK(s.lines[k], maxChars)
      /\ s.line = <<>> \/ LineOK(s.line, maxChars)
      /\ ~ s.truncated => /\ Len(s.lines) < maxLines
                          /\ Begins(words, Len(words), FlattenSeq(s.lines) \o s.line)
      /\ s.truncated => /\ Len(s.lines) = maxLines
                        /\ \E m \in 0 .. Len(words) - 1 : Begins(words, m, FlattenSeq(s.lines))
  BY <1>1 DEF Written
<1>3. Len(words) \in Nat /\ words \in Seq(T) /\ Len(s.lines) \in Nat
  BY <1>2 DEF WordsOK
<1>4. /\ lines \in Seq(Seq(T)) /\ \A k \in DOMAIN lines : LineOK(lines[k], maxChars)
      /\ Len(lines) <= maxLines
  <2>1. CASE s.truncated \/ s.line = <<>>
    BY <1>2, <1>3, <2>1
  <2>2. CASE ~ (s.truncated \/ s.line = <<>>)
    <3> DEFINE ls == Append(s.lines, s.line)
    <3>1. /\ ls \in Seq(Seq(T)) /\ Len(ls) = Len(s.lines) + 1
          /\ DOMAIN ls = 1 .. Len(s.lines) + 1 /\ DOMAIN s.lines = 1 .. Len(s.lines)
          /\ ls[Len(s.lines) + 1] = s.line /\ \A k \in 1 .. Len(s.lines) : ls[k] = s.lines[k]
      BY <1>2, AppendProperties
    <3>2. lines = ls
      BY <2>2
    <3> HIDE DEF ls, lines
    <3>3. ASSUME NEW k \in DOMAIN ls PROVE LineOK(ls[k], maxChars)
      <4>1. k = Len(s.lines) + 1 \/ k \in 1 .. Len(s.lines)
        BY <1>3, <3>1
      <4> QED
        BY <1>2, <2>2, <3>1, <4>1
    <3> QED
      BY <1>2, <1>3, <2>2, <3>1, <3>2, <3>3
  <2> QED
    BY <2>1, <2>2
<1>14. all \in Seq(T)
  <2>1. <<>> \in Seq(T)
    OBVIOUS
  <2> HIDE DEF lines
  <2> QED
    BY <1>4, <2>1, FlattenOne
<1>5. \E m \in 0 .. Len(words) : Begins(words, m, all) /\ (s.truncated <=> m < Len(words))
  <2>1. CASE s.truncated
    <3>1. lines = s.lines
      BY <2>1
    <3>3. PICK m \in 0 .. Len(words) - 1 : Begins(words, m, all)
      BY <1>2, <2>1, <3>1
    <3>4. m \in 0 .. Len(words) /\ m < Len(words)
      BY <1>3
    <3> QED
      BY <2>1, <3>3, <3>4
  <2>2. CASE ~ s.truncated
    <3>1. all = FlattenSeq(s.lines) \o s.line
      <4>1. CASE s.line = <<>>
        <5>1. FlattenSeq(s.lines) \in Seq(T)
          BY <1>2, FlattenOne
        <5>2. FlattenSeq(s.lines) \o <<>> = FlattenSeq(s.lines)
          BY <5>1, ConcatEmptySeq
        <5> QED
          BY <4>1, <5>2
      <4>2. CASE s.line # <<>>
        BY <1>2, <2>2, <4>2, FlattenOne
      <4> QED
        BY <4>1, <4>2
    <3>3. Begins(words, Len(words), all)
      BY <1>2, <2>2, <3>1
    <3>4. Len(words) \in 0 .. Len(words) /\ ~ (Len(words) < Len(words))
      BY <1>3
    <3> QED
      BY <2>2, <3>3, <3>4
  <2> QED
    BY <1>2, <2>1, <2>2
<1>6. PICK m \in 0 .. Len(words) : Begins(words, m, all) /\ (s.truncated <=> m < Len(words))
  BY <1>5
<1>7. /\ Len(all) = m /\ m <= Len(words) /\ m \in Nat
      /\ \A k \in 1 .. m : all[k] = words[k]
  BY <1>3, <1>6 DEF Begins
<1> HIDE DEF lines, all
<1>8. IsPrefix(all, words)
  <2> DEFINE a == SubSeq(all, 1, m)
             b == SubSeq(words, 1, m)
  <2>1. (\A k \in 1 .. m : all[k] \in T) /\ \A k \in 1 .. m : words[k] \in T
    BY <1>3, <1>7, <1>14
  <2>2. 1 \in Int /\ m \in Int /\ m - 1 + 1 = m /\ \A k \in 1 .. m : 1 + k - 1 = k
    BY <1>7
  <2>3. a \in Seq(T) /\ Len(a) = m /\ \A k \in 1 .. m : a[k] = all[k]
    BY <1>7, <2>1, <2>2, SubSeqProperties
  <2>4. b \in Seq(T) /\ Len(b) = m /\ \A k \in 1 .. m : b[k] = words[k]
    BY <1>7, <2>1, <2>2, SubSeqProperties
  <2> HIDE DEF a, b
  <2>5. a = b
    BY <1>7, <2>3, <2>4, SeqEqual
  <2> QED
    BY <1>7, <2>5 DEF IsPrefix, a, b
<1>9. Len(all) < Len(words) => LineLength(Last(lines)) \in Int
  <2> SUFFICES ASSUME s.truncated PROVE LineLength(Last(lines)) \in Int
    BY <1>6, <1>7
  <2>1. lines = s.lines /\ Len(lines) = maxLines
    BY <1>2 DEF lines
  <2>2. Last(lines) \in Seq(T)
    <3>1. maxLines \in 1 .. Len(lines)
      BY <2>1
    <3> QED
      BY <1>4, <2>1, <3>1 DEF Last
  <2>3. WordsOK(Last(lines), T)
    BY <2>2 DEF WordsOK
  <2> QED
    BY <2>3, LineLengthIs
<1> DEFINE dots == s.truncated /\ LineLength(Last(lines)) > 3
<1>10. Wrap(words, maxChars, maxLines) = [lines |-> lines, dots |-> dots]
  BY <1>1 DEF lines, LinesKept
<1>11. Len(all) < Len(words) => dots \/ LineLength(Last(lines)) <= 3
  <2> DEFINE n == LineLength(Last(lines))
  <2>1. ASSUME n \in Int PROVE n > 3 \/ n <= 3
    BY <2>1
  <2> QED
    BY <1>6, <1>7, <1>9, <2>1
<1>12. dots => Len(all) < Len(words)
  BY <1>6, <1>7
<1> HIDE DEF dots
<1>13. ASSUME NEW k \in DOMAIN lines PROVE Len(lines[k]) = 1 \/ LineLength(lines[k]) <= maxChars
  BY <1>4 DEF LineOK
<1> QED
  BY <1>4, <1>8, <1>10, <1>11, <1>12, <1>13 DEF WrapRight, all

-----------------------------------------------------------------------------
(* The samples                                                             *)

\* What the algorithms are compared on is of the kind the theorems are about.
LEMMA AlgorithmsAgree == AllAlgorithms
<1>1. ASSUME NEW p \in Pictures PROVE LabelsRight(p.grid, p.dark)
  <2>1. GridOK(p.grid) /\ p.dark \in SUBSET Cells(p.grid)
    BY Samples DEF GridOK, Cells
  <2> QED
    BY <2>1, LabelsAreRight
<1>2. ASSUME NEW gray \in Grays PROVE OtsuRight(gray)
  <2>1. GrayOK(gray)
    BY Samples DEF GrayOK
  <2> QED
    BY <2>1, ThresholdIsRight
<1>3. ASSUME NEW words \in Phrases PROVE WrapRight(words, 5, 2)
  <2> DEFINE T == ToSet(words)
  <2>1. WordsOK(words, T)
    BY Samples DEF WordsOK
  <2>2. 5 \in Nat /\ 2 \in Nat \ {0}
    OBVIOUS
  <2> HIDE DEF T
  <2> QED
    BY <2>1, <2>2, LinesOfText
<1> QED
  BY <1>1, <1>2, <1>3 DEF AllAlgorithms

\* With any record in the making, labels, holes, the threshold and the breaks of lines are
\* what they are for.
THEOREM AlgorithmsAreRight == ScoutSpec => []AlgorithmsRight
<1>1. AlgorithmsRight
  BY AlgorithmsAgree DEF AlgorithmsRight
<1> QED
  BY <1>1, PTL
=============================================================================
