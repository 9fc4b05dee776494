-------------------------------- MODULE Scout --------------------------------
(***************************************************************************)
(* From a frame to the observation card: a process that measures and       *)
(* records (ObservationStore, with what the records say), and beside it    *)
(* the app that shows the newest record                                    *)
(* (apps/engineering_scout/src/EngineeringScoutApp.cpp).                   *)
(*                                                                         *)
(* The document in observation.json under an id is that of the draft of    *)
(* the capture the directory belongs to.  The process takes its ids from   *)
(* nextObservationId().  Ghosts: drafts keeps the scene and the record of  *)
(* every capture; fresh says that the store is as it was when the app      *)
(* listed it.                                                              *)
(***************************************************************************)
EXTENDS ObservationStore, ScoutAnalyzer, Fastener

CONSTANTS
  Setups,       \* sequence of a scene, [frame, objects], and the reference's side
  CardWidth,    \* info.width of the app's display
  Pictures,     \* grids with their dark pixels, the levels of pixels, and words: what
  Grays,        \*   the algorithms are compared on with what they are for
  Phrases

\* One process records: the ids of two need not be in the order of their captures.
ASSUME OneProcess == \E p \in Procs : Procs = {p}

\* The name of an id is not empty, nor is the time of a capture.
ASSUME Named == \A n \in Ids \cup 0 .. MaxCaptures : ToString(n) # ""

ASSUME Samples ==
  /\ \A p \in Pictures : /\ p.grid.w \in Nat \ {0} /\ p.grid.h \in Nat \ {0}
                         /\ p.dark \subseteq 0 .. p.grid.w * p.grid.h - 1
  /\ \A gray \in Grays : /\ IsFiniteSet(DOMAIN gray)
                         /\ gray \in [DOMAIN gray -> 0 .. 255]
  /\ \A words \in Phrases : /\ words \in Seq(ToSet(words))
                          /\ \A w \in ToSet(words) : Len(w) \in Nat

VARIABLES
  drafts,   \* capture number -> {} or {[setup, record]}
  app,      \* where the app is in onStart(), onButton() and onFrame()
  listed,   \* the newest id it listed, 0 for none
  loaded,   \* record_, thumbnail_ and loadDetail_
  card,     \* what is on the display
  fresh

appVars   == <<app, listed, loaded, card>>
scoutVars == <<vars, drafts, appVars, fresh>>

Nothing == [record |-> {}, thumbnail |-> FALSE, detail |-> "capture one"]

ScoutInit ==
  /\ Init
  /\ drafts = [n \in 1 .. MaxCaptures |-> {}]
  /\ app = "stopped" /\ listed = 0 /\ loaded = Nothing /\ card = <<>> /\ fresh = FALSE

-----------------------------------------------------------------------------
(* The record of a capture                                                 *)

ImageKind(format) == CASE format = "mjpeg"  -> "image/jpeg"
                       [] format = "rgb888" -> "image/x-portable-pixmap"
                       [] format = "gray8"  -> "image/x-portable-graymap"
                       [] format = "yuyv"   -> "application/x-raw-yuyv"

\* What capture() writes about the frame before the analysis.
BaseRecord(p, frame) ==
  [observationId |-> ToString(id[p]), timestampUtc |-> ToString(num[p]),
   source |-> << <<"app", "scout_kiosk">>, <<"camera", "video0">>,
                 <<"camera_identity", "webcam">>, <<"frame_width", ToString(frame.width)>>,
                 <<"frame_height", ToString(frame.height)>>, <<"pixel_format", frame.format>> >>,
   artifacts |-> <<[id |-> "source-image", kind |-> ImageKind(frame.format), path |-> "source"]>>,
   observed |-> <<>>, derived |-> <<>>, inferred |-> <<>>, unresolved |-> <<>>,
   recommended |-> <<>>, review |-> "pending", notes |-> {}]

\* What the analysis says of each setup.
Outcomes == [k \in DOMAIN Setups |-> AnalyzeFrame(Setups[k].scene.frame, Setups[k].side)]

\* Sizes, bytes and the side of the reference are numbers, never a NaN.
ASSUME Measurements == \A k \in DOMAIN Setups :
  LET f == Setups[k].scene.frame
  IN  {f.width, f.height} \subseteq Nat /\ f.pixels \in Seq(Seq(0 .. 255)) /\ Setups[k].side \in Int

\* The enrich() of captureOnce(): nothing is added to a scene that cannot be measured.
Enrich(record, k) ==
  LET With(a) == AppendClassification(AppendEvidence(record, a, "source-image"), Classify(a))
  IN  IF Outcomes[k].analysis = {} THEN record
      ELSE With(CHOOSE a \in Outcomes[k].analysis : TRUE)

Unseen == UNCHANGED <<drafts, appVars, fresh>>
Stores == /\ UNCHANGED <<drafts, appVars>>
          /\ fresh' = (fresh /\ entry' = entry)

\* The frame, the analysis and the contract; a record that breaks it is not written.
MeasureFrame(p) ==
  /\ AcquireFrame(p)
  /\ \/ pc'[p] = "idle" /\ UNCHANGED drafts      \* the camera failed
     \/ \E k \in DOMAIN Setups :
          LET record == Enrich(BaseRecord(p, Setups[k].scene.frame), k)
          IN  /\ pc'[p] = IF Violations(record) = {} THEN "mkdir" ELSE "idle"
              /\ drafts' = [drafts EXCEPT ![num[p]] = {[setup |-> k, record |-> record]}]
  /\ UNCHANGED <<appVars, fresh>>

Capture(p) ==
  \/ Begin(p) /\ pc'[p] = "scan" /\ Unseen
  \/ (TryNextId(p) \/ CheckConfig(p)) /\ Unseen
  \/ MeasureFrame(p)
  \/ (MakeDirectory(p) \/ WriteImage(p) \/ OpenRecord(p) \/ WriteRecord(p) \/ Abort(p) \/ Killed(p))
       /\ Stores

-----------------------------------------------------------------------------
(* EngineeringScoutApp: loading                                            *)

RecordOf(n) == (CHOOSE d \in drafts[n] : TRUE).record
Document(i) == ToJson(RecordOf(entry[i].by))

Recorded == {i \in Ids : entry[i].record # "none"}

\* (Oldest: the first record in the order of the ids.)
Oldest(S) == IF S = {} THEN 0 ELSE Min(S)
Newest(S) == IF S = {} THEN 0 ELSE Max(S)

\* loadNewest() up to the end of the directory iteration.
ListRecords ==
  /\ listed' = Newest(Recorded) /\ fresh' = TRUE
  /\ loaded' = Nothing
  /\ app' = IF Recorded = {} THEN "loaded" ELSE "reading"
  /\ UNCHANGED <<vars, drafts, card>>

Start  == app = "stopped" /\ ListRecords                   \* onStart()
Reload == app \in {"loaded", "shown"} /\ ListRecords       \* onButton(), button 1

IsPnm(a) == a.kind \in {"image/x-portable-pixmap", "image/x-portable-graymap"}

\* The image is read when a netpbm file of its whole size is there.
HasThumbnail(record, e) == e.image = "whole" /\ \E a \in ToSet(record.artifacts) : IsPnm(a)

\* The newest record: it may be torn, or gone by now.
ReadNewest ==
  /\ app = "reading" /\ app' = "loaded"
  /\ loaded' = IF entry[listed].record = "whole" /\ Accepts(Document(listed))
               THEN LET r == Read(Document(listed))
                        t == HasThumbnail(r, entry[listed])
                    IN  [record |-> {r}, thumbnail |-> t, detail |-> ""]
               ELSE [Nothing EXCEPT !.detail = "failed to parse"]
  /\ UNCHANGED <<vars, drafts, listed, card, fresh>>

-----------------------------------------------------------------------------
(* EngineeringScoutApp: the card                                           *)

\* The cells of a line: of its words, and one between two.
LineLength(words) ==
  LET cells[n \in 0 .. Len(words)] == IF n = 0 THEN -1 ELSE cells[n - 1] + 1 + Len(words[n])
  IN  cells[Len(words)]

\* A word goes on the line if it fits, else it starts the next one.
Place(s, word, maxChars, maxLines) ==
  IF s.truncated THEN s
  ELSE IF s.line = <<>> THEN [s EXCEPT !.line = <<word>>]
  ELSE IF LineLength(Append(s.line, word)) <= maxChars THEN [s EXCEPT !.line = Append(@, word)]
  ELSE [lines |-> Append(s.lines, s.line), line |-> <<word>>,
        truncated |-> Len(s.lines) + 1 = maxLines]

\* wrap(): the last line ends in dots when words were dropped and it has room for them.
Wrap(words, maxChars, maxLines) ==
  LET place[n \in 0 .. Len(words)] ==
        IF n = 0 THEN [lines |-> <<>>, line |-> <<>>, truncated |-> FALSE]
        ELSE Place(place[n - 1], words[n], maxChars, maxLines)
      end   == place[Len(words)]
      lines == IF end.truncated \/ end.line = <<>> THEN end.lines ELSE Append(end.lines, end.line)
  IN  [lines |-> lines, dots |-> end.truncated /\ LineLength(Last(lines)) > 3]

\* findClaim(): the first with the name, if there is one.
FindClaim(claims, name) ==
  LET hits == {i \in DOMAIN claims : claims[i].name = name}
  IN  IF hits = {} THEN {} ELSE {claims[Min(hits)]}

\* The filled pixels of a confidence bar.
Bar(confidences, width) ==
  LET c == IF confidences = {} THEN 0 ELSE CHOOSE x \in confidences : TRUE
  IN  (Max({0, Min({c, 100})}) * (width - 2)) \div 100

\* drawObservationCard(), section by section.  A thumbnail narrows the text column.
ObservationCard(r, thumbnail) ==
  LET full   == CardWidth - 20
      beside == thumbnail /\ full > 220
      chars  == (IF beside THEN full - 140 ELSE full) \div 6
      length == FindClaim(r.derived, "subject_length")
      width  == FindClaim(r.derived, "subject_width")
      class  == FindClaim(r.inferred, "fastener_class")
      size   == FindClaim(r.inferred, "nominal_size")
  IN  [stamp      |-> <<r.observationId, r.timestampUtc>>,
       thumbnail  |-> beside,
       headline   |-> {<<l.value, w.value>> : l \in length, w \in width},
       identity   |-> {<<c.value, {s.value : s \in size}, Bar(c.confidence, 50)>> : c \in class},
       observed   |-> Len(r.observed),
       derived    |-> Each(LAMBDA c : <<c.name, c.value, c.unit>>, r.derived),
       inferred   |-> Each(LAMBDA c : <<c.name, c.value, Bar(c.confidence, 40)>>, r.inferred),
       unresolved |-> Wrap(Each(LAMBDA u : u.name, r.unresolved), chars, 2),
       next       |-> IF r.recommended = <<>> THEN "" ELSE r.recommended[1].action]

NoObservationCard(detail) == [message |-> detail]

\* onFrame() with needsRedraw_.
Draw ==
  /\ app = "loaded" /\ app' = "shown"
  /\ card' = IF loaded.record = {} THEN NoObservationCard(loaded.detail)
             ELSE ObservationCard(CHOOSE r \in loaded.record : TRUE, loaded.thumbnail)
  /\ UNCHANGED <<vars, drafts, listed, loaded, fresh>>

\* Any other button, and the next onFrame(): back to the launcher.
Leave ==
  /\ app \in {"loaded", "shown"} /\ app' = "stopped"
  /\ card' = <<>>
  /\ UNCHANGED <<vars, drafts, listed, loaded, fresh>>

ScoutNext == (\E p \in Procs : Capture(p)) \/ Start \/ Reload \/ ReadNewest \/ Draw \/ Leave

ScoutSpec == ScoutInit /\ [][ScoutNext]_scoutVars

-----------------------------------------------------------------------------
(* Properties                                                              *)

Drafted == {CHOOSE d \in drafts[n] : TRUE : n \in {n \in 1 .. MaxCaptures : drafts[n] # {}}}

\* The objects that are wholly in the frame and not dust; and an exact square.
WholeObjects(setup) ==
  LET edge == Edge(Grid(setup.scene.frame))
  IN  {o \in setup.scene.objects : Cardinality(o) >= MinBlobArea /\ o \cap edge = {}}

\* The pixels of a square of n by n with its first corner at c.
SquareAt(g, c, n) == {c + x + g.w * y : x, y \in 0 .. n - 1}

SquareOn(g, o) ==
  \E n \in 2 .. g.w : Cardinality(o) = n * n /\ \E c \in o : o = SquareAt(g, c, n)

\* A scene tells what lies on the paper, once its light is evened out: its objects are each
\* in one piece and end where the dark ends; what else is dark is shade that runs off the
\* frame; and what passes for a square is one.
Legible(setup) ==
  LET f    == setup.scene.frame
      g    == Grid(f)
      flat == FlattenIllumination(g, ToGray(f))
      dark == Dark(flat, OtsuThreshold(flat))
  IN  /\ f.pixels # <<>> /\ f.width # 0 /\ f.height # 0 /\ setup.side > 0
      /\ f.format \in {"rgb888", "gray8", "yuyv"} /\ ~ Damaged(f)
      /\ \A o \in setup.scene.objects :
           /\ o # {} /\ o \subseteq dark
           /\ \A i \in o : Linked(g, i) \cap dark \subseteq o /\ Flood(g, o, {i}) = o
      /\ \A i \in dark \ UNION setup.scene.objects : Flood(g, dark, {i}) \cap Edge(g) # {}
      /\ \A o \in WholeObjects(setup) : IsSquareCandidate(BlobStats(g, o, 0, 0)) => SquareOn(g, o)

ASSUME Scenes == \A k \in DOMAIN Setups : \/ Setups[k].scene.frame.format = "mjpeg"
                                          \/ Legible(Setups[k])

\* What is measured is what lies on the paper: the subject is the largest object that
\* is wholly in the frame besides the only square, and not too small to be a part; a
\* scene without such a pair is refused, whatever else, clipped or tiny, lies there.
SceneSound(setup, outcome) ==
  LET g     == Grid(setup.scene.frame)
      whole == WholeObjects(setup)
      Pair(r, s) == /\ r # s /\ SquareOn(g, r)
                    /\ \A o \in whole \ {r} :
                         /\ SquareOn(g, o) => 2 * Cardinality(o) < Cardinality(r)
                         /\ Cardinality(o) <= Cardinality(s)
                    /\ Cardinality(s) * setup.side * setup.side >= MinSubject * Cardinality(r)
  IN  IF outcome.analysis = {}
      THEN setup.scene.frame.format = "mjpeg" \/ \A r, s \in whole : ~ Pair(r, s)
      ELSE \A a \in outcome.analysis : /\ {a.reference.px, a.subject.px} \subseteq whole
                                       /\ Pair(a.reference.px, a.subject.px)

SoundSetups  == {k \in DOMAIN Setups : SceneSound(Setups[k], Outcomes[k])}
SubjectSound == \A d \in Drafted : d.setup \in SoundSetups

Open(r)    == {u.name : u \in ToSet(r.unresolved)}
Claimed(r) == {c.name : c \in ToSet(r.inferred)}

\* The nominal size is the nearest of its table, and within 15 percent.
SizeRight(r) ==
  \A size  \in FindClaim(r.inferred, "nominal_size"),
     class \in FindClaim(r.inferred, "fastener_class"),
     width \in FindClaim(r.derived, "subject_width") :
       LET table == IF class.value = Str("bolt_or_screw") THEN ShaftDiameters ELSE HexAcrossFlats
           Gap(e) == Off(Of(width.value), e)
       IN  \E e \in ToSet(table) : /\ Str(e.designation) = size.value
                                   /\ \A other \in ToSet(table) : Gap(e) <= Gap(other)
                                   /\ 100 * Gap(e) <= 15 * e.mm

RoundTrip(r) == Accepts(ToJson(r)) /\ Read(ToJson(r)) = r

\* The comment of wrap() says "at most maxLines lines of maxChars monospace cells; the last
\* line is ellipsized when the text does not fit": no line is longer, and words are missing
\* only behind dots.  The code does not do so: a word that begins a line is not looked at,
\* and a last line of three cells or fewer has no room for dots.
LinesFit(words, maxChars, maxLines) ==
  \A line \in ToSet(Wrap(words, maxChars, maxLines).lines) : LineLength(line) <= maxChars
DotsTell(words, maxChars, maxLines) ==
  LET w == Wrap(words, maxChars, maxLines)
  IN  Len(FlattenSeq(w.lines)) < Len(words) => w.dots

\* What the code does: no line is too long unless it is one word, no more lines than
\* allowed, nothing is reordered, and words are missing only at the end and behind dots or
\* a short line.
WrapRight(words, maxChars, maxLines) ==
  LET w   == Wrap(words, maxChars, maxLines)
      all == FlattenSeq(w.lines)
  IN  /\ Len(w.lines) <= maxLines /\ IsPrefix(all, words)
      /\ \A k \in DOMAIN w.lines : Len(w.lines[k]) = 1 \/ LineLength(w.lines[k]) <= maxChars
      /\ Len(all) < Len(words) => w.dots \/ LineLength(Last(w.lines)) <= 3
      /\ w.dots => Len(all) < Len(words)

AllAlgorithms ==
  /\ \A p \in Pictures : LabelsRight(p.grid, p.dark)
  /\ \A gray \in Grays : OtsuRight(gray)
  /\ \A words \in Phrases : WrapRight(words, 5, 2)

\* With any record in the making: labels, holes, threshold and line breaks are right, a
\* hole being that of some blob beside it.
AlgorithmsRight == Drafted # {} => AllAlgorithms

\* A capture never refuses what its own analysis built; what is about to be written is
\* what will be read; and of a measured scene the class and the size are each either
\* inferred or unresolved, the size is the nearest one, and advice is about something
\* unresolved.
RecordSound ==
  /\ \A d \in Drafted : Violations(d.record) = {}
  /\ \A p \in Procs : pc[p] = "mkdir" => \A d \in drafts[num[p]] :
       LET r == d.record
       IN  /\ RoundTrip(r) /\ SizeRight(r)
           /\ r.observed # <<>> => \A name \in {"fastener_class", "nominal_size"} :
                                     name \in (Open(r) \ Claimed(r)) \cup (Claimed(r) \ Open(r))
           /\ \A a \in ToSet(r.recommended) : ToSet(a.resolves) \subseteq Open(r)

\* The last capture, in the order they began, whose record file is there.
LastCapture == Max({0} \cup {entry[i].by : i \in Recorded})

\* When nothing was recorded since the app looked, its card is that of the last
\* capture that left a record, or says that this record is damaged; and at any other
\* time it is the card of some capture, never of a part of one.
CardIsNewest ==
  app = "shown" =>
    LET CardOf(n) == {ObservationCard(d.record, IsPnm(d.record.artifacts[1])) : d \in drafts[n]}
        whole(n)  == \E i \in Recorded : entry[i].by = n /\ entry[i].record = "whole"
    IN  /\ \/ card \in {NoObservationCard("capture one"), NoObservationCard("failed to parse")}
           \/ \E n \in 1 .. MaxCaptures : card \in CardOf(n)
        /\ fresh => card \in IF LastCapture = 0 THEN {NoObservationCard("capture one")}
                             ELSE IF whole(LastCapture) THEN CardOf(LastCapture)
                             ELSE {NoObservationCard("failed to parse")}
=============================================================================
