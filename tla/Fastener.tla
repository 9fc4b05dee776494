------------------------------ MODULE Fastener ------------------------------
(***************************************************************************)
(* What a measured silhouette is (services/ai/src/FastenerClassifier.cpp): *)
(* the class and the nominal size.  Lengths are in hundredths of a         *)
(* millimetre, confidences in percent, rounded.                            *)
(***************************************************************************)
EXTENDS Observation

Row(designation, mm) == [designation |-> designation, mm |-> mm]

ShaftDiameters == << Row("M3", 300), Row("M4", 400), Row("M5", 500), Row("M6", 600),
                     Row("M8", 800), Row("M10", 1000), Row("M12", 1200) >>
HexAcrossFlats == << Row("M3", 550), Row("M4", 700), Row("M5", 800), Row("M6", 1000),
                     Row("M8", 1300), Row("M10", 1600), Row("M12", 1800) >>

Off(measured, entry) == IF measured > entry.mm THEN measured - entry.mm ELSE entry.mm - measured

\* (RelativeNearest: the entry with the smallest relative error.)
RelativeNearest(measured, e, best) == Off(measured, e) * best.mm < Off(measured, best) * e.mm

Nearer(measured, e, best) == Off(measured, e) < Off(measured, best)

\* The first of the nearest entries: best[k] is that of the first k.
Nearest(measured, table) ==
  LET best[k \in DOMAIN table] ==
        IF k > 1 /\ ~ Nearer(measured, table[k], best[k - 1]) THEN best[k - 1] ELSE table[k]
  IN  best[Len(table)]

\* The nearest entry, unless it is more than 15 percent off; {} is no match.
BestMatch(measured, table) ==
  LET best == Nearest(measured, table)
      off  == Off(measured, best)
  IN  IF measured <= 0 \/ 100 * off > 15 * best.mm THEN {}
      ELSE {[designation |-> best.designation, referenceMm |-> best.mm,
             confidence  |-> Min({90, 100 - (2000 * off) \div (3 * best.mm)})]}

Model == "ai.fastener_classifier.v2"

Unknown == [class |-> "unknown", confidence |-> 0, nominal |-> {}]

\* classify(): rod-like from length : width = 2.5, compact up to 1.4.
Classify(analysis) ==
  LET l == analysis.lengthMm
      w == analysis.widthMm
  IN  IF w <= 0 \/ l <= 0 THEN Unknown
      ELSE IF 2 * l >= 5 * w THEN
             [class |-> "bolt_or_screw", confidence |-> Min({90, 55 + (8 * l) \div w - 20}),
              nominal |-> BestMatch(w, ShaftDiameters)]
      ELSE IF 5 * l <= 7 * w /\ analysis.subject.holeCount >= 1 THEN
             [class |-> "nut_or_washer", confidence |-> IF 5 * l <= 6 * w THEN 75 ELSE 60,
              nominal |-> BestMatch(w, HexAcrossFlats)]
      ELSE Unknown

\* appendClassification(): what the analyzer left open is restated.
AppendClassification(record, c) ==
  LET named    == {"fastener_class", "nominal_size"}
      left     == record.unresolved
      open     == Pick(left, {i \in DOMAIN left : left[i].name \notin named})
      rod      == c.class = "bolt_or_screw"
      sibling  == IF rod THEN "bolt_vs_screw" ELSE "nut_vs_washer"
      noSize   == [name |-> "nominal_size", reason |-> "no size within tolerance"]
      noClass  == << [name |-> "fastener_class", reason |-> "no fastener family"],
                     [name |-> "nominal_size", reason |-> "no fastener class"] >>
      class    == Claim("fc-class", "fastener_class", Str(c.class), {}, {c.confidence},
                        <<"sa-subj-length-mm", "sa-subj-width-mm", "sa-subj-holes">>, Model)
      Sized(n) == Claim("fc-nominal", "nominal_size", Str(n.designation), {}, {n.confidence},
                        <<"fc-class", "sa-subj-width-mm">>, Model)
  IN  IF c.class = "unknown" THEN [record EXCEPT !.unresolved = open \o noClass]
      ELSE [record EXCEPT
             !.inferred = @ \o <<class>> \o SetToSeq({Sized(n) : n \in c.nominal}),
             !.unresolved = open \o (IF c.nominal = {} THEN <<noSize>> ELSE <<>>)
                            \o <<[name |-> sibling, reason |-> "not visible from above"]>>,
             !.recommended = @ \o <<
               [action   |-> IF rod THEN "head from the side" ELSE "side profile",
                resolves |-> <<sibling>>] >>]
=============================================================================
