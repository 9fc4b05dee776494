----------------------------- MODULE Kiosk_proofs -----------------------------
(***************************************************************************)
(* Proofs about Kiosk, for any webcams, ring, display and bounds.          *)
(*                                                                         *)
(* The input thread handles one tap at a time, so a tap made on a card     *)
(* that is still being handled when the card is gone keeps every later tap *)
(* from being handled before it: no new card can come up under it          *)
(* (OneTapAtATime).  From this follows that no tap is kept for a later     *)
(* card or measurement, although nothing but the order of the program's    *)
(* assignments separates them.                                             *)
(*                                                                         *)
(* The last part is about the layout, on any display that is large enough. *)
(***************************************************************************)
EXTENDS Kiosk, WellFoundedInduction, TLAPS

\* What is kept of the camera has the mode its driver granted; nothing is kept of a
\* camera that is gone.
ViewOK ==
  /\ got \in {None, mode} /\ lastRgb \in {None, mode}
  /\ pc = "acquire" => got = None /\ lastRgb = None

\* Every capture, made or under way, has a tap of its own.
Once(b) == IF b THEN 1 ELSE 0

Asked ==
  /\ captured + Once(captureRequested) + Once(pc = "measure") <= answered
  /\ answered + Once(handler = "capture") <= taps

\* Where main() is tells what is on the screen.
Placed ==
  /\ pc \in {"forget", "measure", "card", "show"} => screen = "Preview"
  /\ pc = "leave" => screen = "Card"

\* A tap on the card whose handler outlives the card blocks the taps behind it, so
\* nothing is measured; one on CAPTURE whose handler outlives the preview blocks
\* those on the card, so the card stays.
OneTapAtATime ==
  /\ pc \in {"measure", "card", "show"} => handler # "dismiss"
  /\ pc # "forget" /\ screen = "Preview" /\ handler = "dismiss" => ~captureRequested
  /\ screen = "Card" /\ handler = "capture" => ~dismissRequested /\ pc # "leave"
  /\ pc = "show" => ~dismissRequested

\* What a handler or main() is about to act on was asked for on this screen.
Fresh ==
  /\ screen = "Preview" /\ handler = "capture" => ~handlerOld
  /\ screen = "Card" /\ handler = "dismiss" => ~handlerOld
  /\ pc # "forget" /\ screen = "Preview" /\ captureRequested => ~captureOld
  /\ screen = "Card" /\ dismissRequested => ~dismissOld

TapsOK == ~carried => Placed /\ OneTapAtATime /\ Fresh

KioskInv == TypeOK /\ ViewOK /\ Asked /\ TapsOK /\ JoinedBeforeReturn

-----------------------------------------------------------------------------
(* The camera                                                               *)

\* A non-empty set of positions has a first one.
LEMMA FirstIn == ASSUME NEW S \in SUBSET Nat, S # {} PROVE First(S) \in S
<1> DEFINE R == OpToRel(<, Nat)
<1>1. \A x, y \in Nat : <<y, x>> \notin R => x <= y
  BY DEF OpToRel
<1>2. IsWellFoundedOn(R, Nat)
  BY NatLessThanWellFounded DEF OpToRel
<1> HIDE DEF R
<1>3. PICK x \in S : \A y \in S : <<y, x>> \notin R
  BY <1>2, WFMin
<1>4. \A y \in S : x <= y
  BY <1>1, <1>3, Zenon
<1> QED
  BY <1>4, Zenon DEF First

\* findCamera() takes a mode that the webcam offers, or none.
LEMMA FindCameraType == ASSUME nodes \in Webcams \cup {None} PROVE FindCamera \in Frames
<1> DEFINE Mode == [format : {"yuyv", "mjpeg"}, width : Nat]
<1>1. nodes \in Seq(Seq(Mode))
  <2>1. Webcams \subseteq Seq(Seq(Mode))
    BY CameraAssumption
  <2> HIDE DEF Mode
  <2>2. <<>> \in Seq(Seq(Mode))
    OBVIOUS
  <2> QED
    BY <2>1, <2>2 DEF None
<1>2. ASSUME NEW n \in DOMAIN nodes PROVE BestMode(nodes[n]) \in Frames
  <2> DEFINE node       == nodes[n]
             measurable == {i \in DOMAIN node : node[i].format = "yuyv"}
             validated  == {i \in measurable : node[i].width = 640}
             chosen     == IF validated # {} THEN validated ELSE measurable
  <2>1. CASE measurable = {}
    BY <2>1 DEF BestMode, Frames
  <2>2. CASE measurable # {}
    <3>1. node \in Seq(Mode)
      BY <1>1, <1>2
    <3>2. DOMAIN node \subseteq Nat
      BY <3>1
    <3>3. chosen \in SUBSET Nat /\ chosen # {} /\ chosen \subseteq DOMAIN node
      BY <2>2, <3>2
    <3>4. First(chosen) \in DOMAIN node
      BY <3>3, FirstIn
    <3>5. BestMode(node) = node[First(chosen)]
      BY <2>2 DEF BestMode
    <3>6. nodes \in Webcams
      BY <1>2 DEF None
    <3>7. node[First(chosen)] \in {nodes[n][i] : i \in DOMAIN nodes[n]}
      BY <3>4, Zenon
    <3> DEFINE Offered(w) == {{w[k][i] : i \in DOMAIN w[k]} : k \in DOMAIN w}
    <3>8. {nodes[n][i] : i \in DOMAIN nodes[n]} \in Offered(nodes)
      BY <1>2
    <3> HIDE DEF node, chosen
    <3>9. node[First(chosen)] \in UNION Offered(nodes)
      BY <3>7, <3>8
    <3>10. UNION Offered(nodes) \in {UNION Offered(w) : w \in Webcams}
      BY <3>6
    <3>11. Modes = UNION {UNION Offered(w) : w \in Webcams}
      BY DEF Modes, ModesOf
    <3> HIDE DEF Offered
    <3>12. node[First(chosen)] \in Modes
      BY <3>9, <3>10, <3>11
    <3> QED
      BY <3>5, <3>12 DEF Frames, node
  <2> QED
    BY <2>1, <2>2
<1> DEFINE usable == {n \in DOMAIN nodes : BestMode(nodes[n]) # None}
<1>3. CASE usable = {}
  BY <1>3 DEF FindCamera, Frames
<1>4. CASE usable # {}
  <2>1. usable \in SUBSET Nat
    BY <1>1
  <2>2. First(usable) \in DOMAIN nodes
    BY <1>4, <2>1, FirstIn
  <2> QED
    BY <1>2, <1>4, <2>2 DEF FindCamera
<1> QED
  BY <1>3, <1>4

\* The ring never holds more buffers than were mapped, whatever the driver refuses.
LEMMA OpenType == ASSUME CameraTypeOK, NEW m \in Frames, Open(m) PROVE CameraTypeOK'
<1>1. mode' \in Frames
  <2>1. mode' \in ModesOf(nodes)
    BY DEF Open
  <2>2. nodes # None
    BY <2>1 DEF ModesOf, None
  <2>3. nodes \in Webcams
    BY <2>2 DEF CameraTypeOK
  <2> QED
    BY <2>1, <2>3 DEF Frames, Modes
<1> QED
  BY <1>1, CameraAssumption DEF CameraTypeOK, Open, Fault

LEMMA CloseType == ASSUME CameraTypeOK, Close PROVE CameraTypeOK'
  BY CameraAssumption DEF CameraTypeOK, Close

LEMMA OpenFailsType == ASSUME CameraTypeOK, OpenFails PROVE CameraTypeOK'
  BY CameraAssumption DEF CameraTypeOK, OpenFails, Fault, ringVars

LEMMA DequeueType == ASSUME CameraTypeOK, NEW f \in Frames, Dequeue(f) PROVE CameraTypeOK'
<1>1. CASE fd = "open" /\ filled > 0 /\ filled' = filled - 1 /\ queued' = queued + 1 /\ UNCHANGED faults
  BY <1>1, CameraAssumption DEF CameraTypeOK, Dequeue
<1>2. CASE filled > 0 /\ Fault /\ filled' \in {filled - 1, filled} /\ UNCHANGED queued
  <2>1. /\ filled \in 0 .. Ring /\ queued \in 0 .. Ring /\ queued + filled <= Ring
        /\ faults \in 0 .. MaxFaults /\ Ring \in Nat /\ MaxFaults \in Nat
    BY CameraAssumption DEF CameraTypeOK
  <2>2. filled' \in 0 .. Ring /\ queued' \in 0 .. Ring /\ queued' + filled' <= Ring
    <3>1. CASE filled' = filled - 1
      BY <1>2, <2>1, <3>1
    <3>2. CASE filled' = filled
      BY <1>2, <2>1, <3>2
    <3> QED
      BY <1>2, <3>1, <3>2
  <2>3. faults' \in 0 .. MaxFaults
    BY <1>2, <2>1 DEF Fault
  <2> QED
    BY <2>2, <2>3 DEF CameraTypeOK, Dequeue
<1>3. CASE UNCHANGED ringVars /\ (UNCHANGED faults \/ Fault)
  BY <1>3, CameraAssumption DEF CameraTypeOK, Dequeue, Fault, ringVars
<1> QED
  BY <1>1, <1>2, <1>3 DEF Dequeue

LEMMA CamType == ASSUME CameraTypeOK, Plug \/ Unplug \/ Expose PROVE CameraTypeOK'
<1>1. CASE Plug
  BY <1>1, CameraAssumption DEF CameraTypeOK, Plug, ringVars
<1>2. CASE Unplug
  BY <1>2, CameraAssumption DEF CameraTypeOK, Unplug, ringVars
<1>3. CASE Expose
  BY <1>3, CameraAssumption DEF CameraTypeOK, Expose
<1> QED
  BY <1>1, <1>2, <1>3

-----------------------------------------------------------------------------
(* The preview                                                              *)

\* Steps that touch neither the camera's mode nor what is kept of its frames.
Elsewhere ==
  \/ Tap \/ TapElsewhere \/ SetCapture \/ SetDismiss \/ Signal \/ Cam
  \/ UNCHANGED vars

LEMMA ViewStep == ASSUME ViewOK, [Next]_vars PROVE ViewOK'
<1>1. CASE Acquire
  BY <1>1 DEF ViewOK, Acquire, Open
<1>2. CASE AcquireWaits
  BY <1>2 DEF ViewOK, AcquireWaits, OpenFails, camVars
<1>3. CASE AcquireStops \/ LoopEnds
  BY <1>3 DEF ViewOK, AcquireStops, LoopEnds, camVars, viewVars
<1>4. CASE Register
  BY <1>4 DEF ViewOK, Register, camVars, viewVars
<1>5. CASE Capture
  <2>1. PICK f \in Frames : Dequeue(f) /\ got' = f
    BY <1>5 DEF Capture
  <2>2. f \in {None, mode} /\ mode' = mode
    BY <2>1 DEF Dequeue
  <2>3. pc = "capture" /\ pc' \in {"lost", "branch"} /\ UNCHANGED lastRgb
    BY <1>5 DEF Capture
  <2> QED
    BY <2>1, <2>2, <2>3 DEF ViewOK
<1>6. CASE CameraLost
  BY <1>6 DEF ViewOK, CameraLost, Close, ForgetPicture
<1>7. CASE OnCard
  BY <1>7 DEF ViewOK, OnCard, camVars
<1>8. CASE LeaveCard \/ Forget \/ CardDrawn \/ ShowCard
  BY <1>8 DEF ViewOK, LeaveCard, Forget, CardDrawn, ShowCard, camVars, viewVars
<1>9. CASE OnPreview
  <2>1. pc = "branch" /\ pc' \in {"measure", "capture"} /\ got' = None
    BY <1>9 DEF OnPreview
  <2>2. UNCHANGED mode /\ lastRgb' \in {None, lastRgb, got}
    BY <1>9 DEF OnPreview, Rgb, camVars
  <2> QED
    BY <2>1, <2>2 DEF ViewOK
<1>10. CASE CaptureOnce
  <2>1. PICK f \in Frames : Dequeue(f) /\ (Explained \/ MeasuredCard)
    BY <1>10 DEF CaptureOnce
  <2>2. mode' = mode
    BY <2>1 DEF Dequeue
  <2>3. pc = "measure" /\ pc' \in {"capture", "card"} /\ UNCHANGED <<got, lastRgb>>
    BY <1>10, <2>1 DEF CaptureOnce, Explained, MeasuredCard
  <2> QED
    BY <2>2, <2>3 DEF ViewOK
<1>11. CASE CloseAll
  BY <1>11 DEF ViewOK, CloseAll, Close, viewVars
<1>12. CASE Elsewhere
  BY <1>12 DEF ViewOK, Elsewhere, Tap, TapElsewhere, SetCapture, SetDismiss, Signal, Cam, Plug,
               Unplug, Expose, vars, camVars, viewVars
<1> QED
  BY <1>1, <1>2, <1>3, <1>4, <1>5, <1>6, <1>7, <1>8, <1>9, <1>10, <1>11, <1>12
     DEF Next, Main, Handlers, Elsewhere

-----------------------------------------------------------------------------
(* The end                                                                  *)

LEMMA JoinedStep == ASSUME JoinedBeforeReturn, [Next]_vars PROVE JoinedBeforeReturn'
<1>1. CASE CloseAll
  BY <1>1 DEF JoinedBeforeReturn, CloseAll, JoinInput, Close
<1>2. CASE Main /\ ~CloseAll
  <2>1. pc' # "done"
    BY <1>2 DEF Main, Acquire, AcquireWaits, AcquireStops, Register, Capture, LoopEnds, CameraLost,
                OnCard, LeaveCard, Forget, OnPreview, CaptureOnce, CardDrawn, ShowCard, Explained,
                MeasuredCard
  <2> QED
    BY <2>1 DEF JoinedBeforeReturn
<1>3. CASE Handlers
  BY <1>3 DEF JoinedBeforeReturn, Handlers, SetCapture, SetDismiss
<1>4. CASE Tap \/ TapElsewhere
  BY <1>4 DEF JoinedBeforeReturn, Tap, TapElsewhere
<1>5. CASE Cam
  BY <1>5 DEF JoinedBeforeReturn, Cam, Plug, Unplug, Expose
<1>6. CASE Signal \/ UNCHANGED vars
  BY <1>6 DEF JoinedBeforeReturn, Signal, vars, camVars
<1> QED
  BY <1>1, <1>2, <1>3, <1>4, <1>5, <1>6 DEF Next

-----------------------------------------------------------------------------
(* Counting                                                                 *)

\* The flags and counters have their types.
Counters ==
  /\ captureRequested \in BOOLEAN
  /\ taps \in Nat /\ answered \in Nat /\ captured \in Nat

LEMMA AskedStep == ASSUME Asked, Counters, [Next]_vars PROVE Asked' /\ Counters'
<1>1. CASE Tap
  <2>1. /\ taps' = taps + 1 /\ handler = "idle"
        /\ UNCHANGED <<captured, answered, captureRequested, pc>>
    BY <1>1 DEF Tap, flagVars
  <2> QED
    BY <2>1 DEF Asked, Counters, Once
<1>2. CASE TapElsewhere
  <2>1. /\ taps' = taps + 1 /\ handler' = "dismiss"
        /\ UNCHANGED <<captured, answered, captureRequested, pc>>
    BY <1>2 DEF TapElsewhere, flagVars
  <2> QED
    BY <2>1 DEF Asked, Counters, Once
<1>3. CASE SetCapture
  <2>1. /\ handler = "capture" /\ handler' = "idle" /\ captureRequested' = TRUE
        /\ answered' = answered + 1 /\ UNCHANGED <<captured, taps, pc>>
    BY <1>3 DEF SetCapture
  <2> QED
    BY <2>1 DEF Asked, Counters, Once
<1>4. CASE SetDismiss
  <2>1. handler' = "idle" /\ UNCHANGED <<captureRequested, captured, answered, taps, pc>>
    BY <1>4 DEF SetDismiss, countVars
  <2> QED
    BY <2>1 DEF Asked, Counters, Once
<1>5. CASE OnPreview
  <2>1. /\ pc = "branch" /\ captureRequested' = FALSE
        /\ pc' = IF captureRequested THEN "measure" ELSE "capture"
        /\ UNCHANGED <<handler, captured, answered, taps>>
    BY <1>5 DEF OnPreview, TakeRequest, countVars
  <2>2. Once(captureRequested') = 0 /\ Once(pc = "measure") = 0
    BY <2>1 DEF Once
  <2>3. Once(pc' = "measure") = Once(captureRequested) /\ Once(captureRequested) \in {0, 1}
    BY <2>1 DEF Once
  <2>4. captured' + Once(captureRequested') + Once(pc' = "measure") <= answered'
    BY <2>1, <2>2, <2>3 DEF Asked, Counters
  <2>5. answered' + Once(handler' = "capture") <= taps'
    BY <2>1 DEF Asked, Once
  <2>6. Counters'
    BY <2>1 DEF Counters
  <2> QED
    BY <2>4, <2>5, <2>6 DEF Asked
<1>6. CASE CaptureOnce
  <2>1. /\ pc = "measure" /\ pc' # "measure" /\ captured' = captured + 1
        /\ UNCHANGED <<handler, captureRequested, answered, taps>>
    BY <1>6 DEF CaptureOnce, Explained, MeasuredCard, flagVars
  <2> QED
    BY <2>1 DEF Asked, Counters, Once
<1>7. CASE Forget
  <2>1. /\ captureRequested' = FALSE /\ pc' = "capture"
        /\ UNCHANGED <<handler, captured, answered, taps>>
    BY <1>7 DEF Forget, ForgetTaps, countVars
  <2>2. Once(captureRequested') = 0 /\ Once(pc' = "measure") = 0
    BY <2>1 DEF Once
  <2>3. Once(captureRequested) \in {0, 1} /\ Once(pc = "measure") \in {0, 1}
    BY DEF Once
  <2>4. captured' + Once(captureRequested') + Once(pc' = "measure") <= answered'
    BY <2>1, <2>2, <2>3 DEF Asked, Counters
  <2>5. answered' + Once(handler' = "capture") <= taps'
    BY <2>1 DEF Asked, Once
  <2>6. Counters'
    BY <2>1 DEF Counters
  <2> QED
    BY <2>4, <2>5, <2>6 DEF Asked
<1>8. CASE Main /\ ~OnPreview /\ ~CaptureOnce /\ ~Forget
  <2>1. pc' # "measure" /\ UNCHANGED <<handler, captureRequested, captured, answered, taps>>
    BY <1>8 DEF Main, Acquire, AcquireWaits, AcquireStops, Register, Capture, LoopEnds, CameraLost,
                OnCard, LeaveCard, CardDrawn, ShowCard, CloseAll, JoinInput, countVars, flagVars
  <2> QED
    BY <2>1 DEF Asked, Counters, Once
<1>9. CASE Signal \/ Cam \/ UNCHANGED vars
  <2>1. UNCHANGED <<pc, handler, captureRequested, captured, answered, taps>>
    BY <1>9 DEF Signal, Cam, vars, countVars, flagVars
  <2> QED
    BY <2>1 DEF Asked, Counters, Once
<1> QED
  BY <1>1, <1>2, <1>3, <1>4, <1>5, <1>6, <1>7, <1>8, <1>9 DEF Next, Main, Handlers

-----------------------------------------------------------------------------
(* Taps                                                                     *)

\* Steps that change no flag, no handler and not the screen, and stay out of the
\* places that are about a card.
LEMMA TapsQuiet ==
  ASSUME TapsOK, UNCHANGED <<flagVars, handler, oldVars>>,
         pc' = pc \/ (/\ pc \notin {"leave", "forget"}
                     /\ pc' \notin {"leave", "forget", "measure", "card", "show"})
  PROVE  TapsOK'
  BY DEF TapsOK, Placed, OneTapAtATime, Fresh, flagVars, oldVars

LEMMA TapsStep ==
  ASSUME TapsOK, screen \in {"Preview", "Card"}, handler \in {"idle", "capture", "dismiss"},
         [Next]_vars
  PROVE  TapsOK'
<1>1. CASE Tap
  BY <1>1 DEF TapsOK, Placed, OneTapAtATime, Fresh, Tap, Asks, flagVars
<1>2. CASE TapElsewhere
  BY <1>2 DEF TapsOK, Placed, OneTapAtATime, Fresh, TapElsewhere, flagVars
<1>3. CASE SetCapture
  BY <1>3 DEF TapsOK, Placed, OneTapAtATime, Fresh, SetCapture
<1>4. CASE SetDismiss
  BY <1>4 DEF TapsOK, Placed, OneTapAtATime, Fresh, SetDismiss
<1>5. CASE CameraLost
  BY <1>5 DEF TapsOK, Placed, OneTapAtATime, Fresh, CameraLost
<1>6. CASE OnCard
  BY <1>6 DEF TapsOK, Placed, OneTapAtATime, Fresh, OnCard
<1>7. CASE LeaveCard
  BY <1>7 DEF TapsOK, Placed, OneTapAtATime, Fresh, LeaveCard, ScreenChanges
<1>8. CASE Forget
  BY <1>8 DEF TapsOK, Placed, OneTapAtATime, Fresh, Forget, ForgetTaps
<1>9. CASE OnPreview
  BY <1>9 DEF TapsOK, Placed, OneTapAtATime, Fresh, OnPreview, TakeRequest
<1>10. CASE CaptureOnce
  BY <1>10 DEF TapsOK, Placed, OneTapAtATime, Fresh, CaptureOnce, Explained, MeasuredCard,
               flagVars, oldVars
<1>11. CASE CardDrawn
  BY <1>11 DEF TapsOK, Placed, OneTapAtATime, Fresh, CardDrawn, ResetDismiss
<1>12. CASE ShowCard
  BY <1>12 DEF TapsOK, Placed, OneTapAtATime, Fresh, ShowCard, ScreenChanges
<1>13. CASE Acquire \/ AcquireWaits \/ AcquireStops \/ Register \/ Capture \/ LoopEnds \/ CloseAll
  <2>1. UNCHANGED <<flagVars, handler, oldVars>>
    BY <1>13 DEF Acquire, AcquireWaits, AcquireStops, Register, Capture, LoopEnds, CloseAll, JoinInput
  <2>2. /\ pc \notin {"leave", "forget"}
        /\ pc' \notin {"leave", "forget", "measure", "card", "show"}
    BY <1>13 DEF Acquire, AcquireWaits, AcquireStops, Register, Capture, LoopEnds, CloseAll
  <2> QED
    BY <2>1, <2>2, TapsQuiet
<1>14. CASE Signal \/ Cam \/ UNCHANGED vars
  <2>1. UNCHANGED <<flagVars, handler, oldVars, pc>>
    BY <1>14 DEF Signal, Cam, vars
  <2> QED
    BY <2>1, TapsQuiet
<1> QED
  BY <1>1, <1>2, <1>3, <1>4, <1>5, <1>6, <1>7, <1>8, <1>9, <1>10, <1>11, <1>12, <1>13, <1>14
     DEF Next, Main, Handlers

-----------------------------------------------------------------------------
(* Types                                                                    *)

\* The loop's own variables; the camera's and the counters are treated above.
LoopTypeOK ==
  /\ running \in BOOLEAN
  /\ pc \in {"acquire", "register", "capture", "lost", "branch", "leave", "forget", "measure",
             "card", "show", "close", "done"}
  /\ {got, lastRgb, camMode} \subseteq Frames /\ missed \in 0 .. MissLimit
  /\ picture \in {"nothing", "waiting", "preview", "measuring", "card"}
  /\ screen \in {"Preview", "Card"}
  /\ captureRequested \in BOOLEAN /\ dismissRequested \in BOOLEAN
  /\ input \in {"off", "deaf", "on"}
  /\ handler \in {"idle", "capture", "dismiss"}
  /\ {handlerOld, captureOld, dismissOld, carried} \subseteq BOOLEAN

TapCount == taps \in 0 .. MaxTaps

LEMMA TypeParts ==
  ASSUME Asked, Counters
  PROVE  TypeOK <=> CameraTypeOK /\ LoopTypeOK /\ TapCount
<1>1. captured <= answered /\ answered <= taps
  <2>1. Once(captureRequested) \in {0, 1} /\ Once(pc = "measure") \in {0, 1}
        /\ Once(handler = "capture") \in {0, 1}
    BY DEF Once
  <2> QED
    BY <2>1 DEF Asked, Counters
<1> QED
  BY <1>1 DEF TypeOK, LoopTypeOK, TapCount

LEMMA TapCountStep == ASSUME TapCount, [Next]_vars PROVE TapCount'
<1>1. CASE Tap \/ TapElsewhere
  <2>1. taps < MaxTaps /\ taps' = taps + 1
    BY <1>1 DEF Tap, TapElsewhere
  <2> QED
    BY <2>1, KioskAssumption DEF TapCount
<1>2. CASE ~Tap /\ ~TapElsewhere
  <2>1. UNCHANGED taps
    BY <1>2 DEF Next, Main, Handlers, Acquire, AcquireWaits, AcquireStops, Register, Capture, LoopEnds,
                CameraLost, OnCard, LeaveCard, Forget, OnPreview, CaptureOnce, CardDrawn, ShowCard,
                CloseAll, SetCapture, SetDismiss, Signal, Cam, vars, countVars
  <2> QED
    BY <2>1 DEF TapCount
<1> QED
  BY <1>1, <1>2

LEMMA CameraStep == ASSUME CameraTypeOK, [Next]_vars PROVE CameraTypeOK'
<1>1. CASE Acquire
  <2>1. FindCamera \in Frames /\ Open(FindCamera)
    BY <1>1, FindCameraType DEF Acquire, CameraTypeOK
  <2> QED
    BY <2>1, OpenType
<1>2. CASE Capture \/ CaptureOnce
  BY <1>2, DequeueType DEF Capture, CaptureOnce
<1>3. CASE CameraLost \/ CloseAll
  BY <1>3, CloseType DEF CameraLost, CloseAll
<1>4. CASE OpenFails
  BY <1>4, OpenFailsType
<1>5. CASE Cam
  BY <1>5, CamType DEF Cam
<1>6. CASE UNCHANGED camVars
  BY <1>6 DEF CameraTypeOK, camVars, ringVars
<1> QED
  BY <1>1, <1>2, <1>3, <1>4, <1>5, <1>6
     DEF Next, Main, Handlers, AcquireWaits, AcquireStops, Register, LoopEnds, OnCard, LeaveCard,
         Forget, OnPreview, CardDrawn, ShowCard, Tap, TapElsewhere, SetCapture, SetDismiss, Signal,
         vars

LEMMA LoopTypeStep ==
  ASSUME LoopTypeOK, CameraTypeOK, [Next]_vars
  PROVE  LoopTypeOK'
<1>1. CASE Acquire
  <2>1. FindCamera \in Frames
    BY FindCameraType DEF CameraTypeOK
  <2> QED
    BY <1>1, <2>1, KioskAssumption DEF LoopTypeOK, Acquire, flagVars, oldVars
<1>2. CASE AcquireWaits \/ AcquireStops \/ Register \/ LoopEnds
  BY <1>2 DEF LoopTypeOK, AcquireWaits, AcquireStops, Register, LoopEnds, flagVars, oldVars, viewVars
<1>3. CASE Capture
  <2>1. PICK f \in Frames :
          /\ got' = f
          /\ missed' = Smaller(IF f = None THEN missed + 1 ELSE 0, MissLimit)
          /\ pc' \in {"lost", "branch"}
    BY <1>3 DEF Capture
  <2>2. missed' \in 0 .. MissLimit
    BY <2>1, KioskAssumption DEF LoopTypeOK, Smaller
  <2>3. UNCHANGED <<running, lastRgb, camMode, picture, flagVars, input, handler, oldVars>>
    BY <1>3 DEF Capture
  <2> QED
    BY <2>1, <2>2, <2>3 DEF LoopTypeOK, flagVars, oldVars
<1>4. CASE CameraLost
  BY <1>4 DEF LoopTypeOK, CameraLost, ForgetPicture, Frames
<1>5. CASE OnCard \/ LeaveCard \/ Forget
  BY <1>5 DEF LoopTypeOK, OnCard, LeaveCard, Forget, ForgetTaps, ScreenChanges, Frames, viewVars
<1>6. CASE OnPreview
  BY <1>6 DEF LoopTypeOK, OnPreview, Rgb, TakeRequest, Frames
<1>7. CASE CaptureOnce
  BY <1>7 DEF LoopTypeOK, CaptureOnce, Explained, MeasuredCard, flagVars, oldVars
<1>8. CASE CardDrawn \/ ShowCard
  BY <1>8 DEF LoopTypeOK, CardDrawn, ShowCard, ResetDismiss, ScreenChanges, viewVars
<1>9. CASE CloseAll
  BY <1>9 DEF LoopTypeOK, CloseAll, JoinInput, flagVars, oldVars, viewVars
<1>10. CASE Tap \/ TapElsewhere
  BY <1>10 DEF LoopTypeOK, Tap, TapElsewhere, Asks, flagVars, viewVars
<1>11. CASE SetCapture \/ SetDismiss
  BY <1>11 DEF LoopTypeOK, SetCapture, SetDismiss, viewVars
<1>12. CASE Signal \/ Cam \/ UNCHANGED vars
  BY <1>12 DEF LoopTypeOK, Signal, Cam, vars, flagVars, oldVars, viewVars
<1> QED
  BY <1>1, <1>2, <1>3, <1>4, <1>5, <1>6, <1>7, <1>8, <1>9, <1>10, <1>11, <1>12
     DEF Next, Main, Handlers

-----------------------------------------------------------------------------
LEMMA InitInv == Init => KioskInv /\ Counters
<1> SUFFICES ASSUME Init PROVE KioskInv /\ Counters
  OBVIOUS
<1>1. CameraTypeOK
  BY CameraAssumption DEF Init, CameraInit, CameraTypeOK, Frames
<1>2. LoopTypeOK
  <2>1. missed \in 0 .. MissLimit
    BY KioskAssumption DEF Init
  <2> QED
    BY <2>1 DEF Init, LoopTypeOK, Frames
<1>3. TapCount /\ Counters
  <2>1. taps = 0 /\ answered = 0 /\ captured = 0 /\ captureRequested = FALSE
    BY DEF Init
  <2>2. TapCount
    BY <2>1, KioskAssumption DEF TapCount
  <2> QED
    BY <2>1, <2>2 DEF Counters
<1>4. Asked
  BY DEF Init, Asked, Once
<1>5. ViewOK /\ TapsOK /\ JoinedBeforeReturn
  BY DEF Init, ViewOK, TapsOK, Placed, OneTapAtATime, Fresh, JoinedBeforeReturn
<1> QED
  BY <1>1, <1>2, <1>3, <1>4, <1>5, TypeParts DEF KioskInv

LEMMA NextInv == KioskInv /\ Counters /\ [Next]_vars => (KioskInv /\ Counters)'
<1> SUFFICES ASSUME KioskInv, Counters, [Next]_vars PROVE (KioskInv /\ Counters)'
  OBVIOUS
<1>1. CameraTypeOK /\ LoopTypeOK /\ TapCount /\ Asked
  BY TypeParts DEF KioskInv
<1>2. CameraTypeOK' /\ LoopTypeOK' /\ TapCount'
  BY <1>1, CameraStep, LoopTypeStep, TapCountStep
<1>3. Asked' /\ Counters'
  BY <1>1, AskedStep
<1>4. TypeOK'
  <2>1. captured' <= answered' /\ answered' <= taps'
    <3>1. Once(captureRequested)' \in {0, 1} /\ Once(pc = "measure")' \in {0, 1}
          /\ Once(handler = "capture")' \in {0, 1}
      BY DEF Once
    <3> QED
      BY <1>3, <3>1 DEF Asked, Counters
  <2> QED
    BY <1>2, <2>1 DEF TypeOK, LoopTypeOK, TapCount
<1>5. ViewOK' /\ JoinedBeforeReturn'
  BY ViewStep, JoinedStep DEF KioskInv
<1>6. TapsOK'
  BY <1>1, TapsStep DEF KioskInv, LoopTypeOK
<1> QED
  BY <1>3, <1>4, <1>5, <1>6 DEF KioskInv

\* Whatever is tapped, plugged and unplugged, the invariant holds.
THEOREM Invariance == Spec => []KioskInv
<1>1. Spec => [](KioskInv /\ Counters)
  BY InitInv, NextInv, PTL DEF Spec
<1> QED
  BY <1>1, PTL

\* No more buffers are with the driver or filled than were mapped, and no capture is
\* made that no tap asked for.
THEOREM TypeCorrect == Spec => []TypeOK
<1>1. KioskInv => TypeOK
  BY DEF KioskInv
<1> QED
  BY Invariance, <1>1, PTL

\* A card is dismissed, and a measurement started, only by a tap made on what is shown
\* (unless a tap was pending when the camera was lost).
THEOREM TapsAreFresh == Spec => []FreshTaps
<1>1. KioskInv => FreshTaps
  BY DEF KioskInv, TapsOK, Fresh, FreshTaps
<1> QED
  BY Invariance, <1>1, PTL

\* The picture kept for the preview is of the camera that is open, in the mode its driver
\* granted, whatever webcam was exchanged for whatever other.
THEOREM PreviewIsOfThisCamera == Spec => []PreviewMatches
<1>1. KioskInv => PreviewMatches
  BY DEF KioskInv, ViewOK, PreviewMatches
<1> QED
  BY Invariance, <1>1, PTL

\* When main() returns, nothing is left that refers to its locals.
THEOREM NothingOutlivesMain == Spec => []JoinedBeforeReturn
<1>1. KioskInv => JoinedBeforeReturn
  BY DEF KioskInv
<1> QED
  BY Invariance, <1>1, PTL
-----------------------------------------------------------------------------
(* The layout                                                               *)

\* Quotients, for the arithmetic of the layout.
LEMMA Quotient ==
  ASSUME NEW n \in Nat, NEW c \in Nat \ {0}
  PROVE  n \div c \in Nat /\ (n \div c) * c <= n /\ n < (n \div c) * c + c
  BY SMT

LEMMA Quotients ==
  ASSUME NEW p \in Nat, NEW q \in Nat, NEW c \in Nat \ {0}, p * c < q * c + c
  PROVE  p <= q
  BY SMT

LEMMA Products ==
  ASSUME NEW a \in Nat, NEW b \in Nat, NEW c \in Nat, a <= b
  PROVE  a * c \in Nat /\ b * c \in Nat /\ a * c <= b * c
  BY SMT

LEMMA Commuted == ASSUME NEW a \in Nat, NEW b \in Nat PROVE a * b = b * a
  BY SMT

\* A length a scaled by p to q, and, when that is more than b, b scaled back.
LEMMA Scaled ==
  ASSUME NEW a \in Nat \ {0}, NEW b \in Nat \ {0}, NEW p \in Nat \ {0}, NEW q \in Nat \ {0},
         q <= a * p, p <= b * q
  PROVE  /\ (a * p) \div q \in Nat \ {0}
         /\ (a * p) \div q > b => (b * q) \div p \in 1 .. a
<1> DEFINE x == (a * p) \div q
           y == (b * q) \div p
<1>1. a * p \in Nat /\ b * q \in Nat
  BY Products
<1>2. x \in Nat /\ x * q <= a * p /\ a * p < x * q + q
  BY <1>1, Quotient
<1>3. y \in Nat /\ y * p <= b * q /\ b * q < y * p + p
  BY <1>1, Quotient
<1> HIDE DEF x, y
<1>4. x # 0
  <2>1. x = 0 => x * q = 0
    OBVIOUS
  <2> QED
    BY <1>1, <1>2, <2>1
<1>5. y # 0
  <2>1. y = 0 => y * p = 0
    OBVIOUS
  <2> QED
    BY <1>1, <1>3, <2>1
<1>6. ASSUME x > b PROVE y <= a
  <2>1. b * q <= x * q /\ x * q \in Nat /\ y * p \in Nat
    BY <1>2, <1>3, <1>6, Products
  <2>2. y * p < a * p + p
    BY <1>1, <1>2, <1>3, <2>1
  <2> QED
    BY <1>3, <2>2, Quotients
<1> QED
  BY <1>2, <1>3, <1>4, <1>5, <1>6 DEF x, y

\* A camera's picture: any but a strip, more than 16 times as long as it is thick.
Shape(cam) == /\ cam.w \in Nat \ {0} /\ cam.h \in Nat \ {0}
              /\ cam.w <= 16 * cam.h /\ cam.h <= 16 * cam.w

\* 16 steps are enough to give either side of the picture a length.
LEMMA Stretch == ASSUME NEW a \in Nat, NEW p \in Nat, NEW q \in Nat, a >= 16, q <= 16 * p
                 PROVE  q <= a * p
<1>1. 16 * p \in Nat /\ a * p \in Nat /\ 16 * p <= a * p
  BY Products
<1> QED
  BY <1>1

\* The preview is not empty and stays within what it is given.
LEMMA FittedIn ==
  ASSUME NEW high \in Nat, NEW most \in Nat, NEW cam, high >= 16, most >= 16, Shape(cam)
  PROVE  /\ Fitted(high, most, cam).w \in 1 .. most /\ Fitted(high, most, cam).h \in 1 .. high
         /\ FittedPortrait(high, most, cam).w \in 1 .. high
         /\ FittedPortrait(high, most, cam).h \in 1 .. most
<1>1. Larger(1, cam.h) = cam.h /\ Larger(1, cam.w) = cam.w
  BY DEF Larger, Shape
<1> DEFINE cw == cam.w
           ch == cam.h
<1>2. cw \in Nat \ {0} /\ ch \in Nat \ {0} /\ cw <= 16 * ch /\ ch <= 16 * cw
  BY DEF Shape
<1>3. /\ Fitted(high, most, cam) =
           IF (high * cw) \div ch > most THEN [w |-> most, h |-> (most * ch) \div cw]
                                         ELSE [w |-> (high * cw) \div ch, h |-> high]
      /\ FittedPortrait(high, most, cam) =
           IF (high * ch) \div cw > most THEN [w |-> (most * cw) \div ch, h |-> most]
                                         ELSE [w |-> high, h |-> (high * ch) \div cw]
  BY <1>1 DEF Fitted, FittedPortrait
<1> HIDE DEF cw, ch
<1>4. ch <= high * cw /\ cw <= most * ch /\ cw <= high * ch /\ ch <= most * cw
  BY <1>2, Stretch
<1>5. /\ (high * cw) \div ch \in Nat \ {0}
      /\ (high * cw) \div ch > most => (most * ch) \div cw \in 1 .. high
  BY <1>2, <1>4, Scaled
<1>6. /\ (high * ch) \div cw \in Nat \ {0}
      /\ (high * ch) \div cw > most => (most * cw) \div ch \in 1 .. high
  BY <1>2, <1>4, Scaled
<1> QED
  BY <1>3, <1>5, <1>6

\* A display that is large enough for a button of 20 by 20 beside the preview, or under it.
Enough(w, h) == IF h > w THEN w >= 44 /\ h >= 173 ELSE w >= 205 /\ h >= 80

\* On a portrait display panel and button are under the preview.
LEMMA PortraitUsable ==
  ASSUME NEW w \in Nat, NEW h \in Nat, NEW cam, Shape(cam), h > w, w >= 44, h >= 173
  PROVE  Usable(PortraitLayout(w, h, cam), w, h)
<1> DEFINE m == Larger(8, w \div 18)
           p == FittedPortrait(w - 2 * m, h \div 2, cam)
           pw == p.w
           ph == p.h
           top == m + p.h + m
           panelH == h - top - m
           b == Smaller(h \div 6, panelH \div 3)
           half == m \div 2
           indent == (w - p.w) \div 2
<1>1. m \in Nat /\ m >= 8 /\ (m = 8 \/ 18 * m <= w)
  BY DEF Larger
<1>2. h \div 2 \in Nat /\ 2 * (h \div 2) <= h /\ h < 2 * (h \div 2) + 2
  OBVIOUS
<1>3. PortraitLayout(w, h, cam)
        = [preview |-> Box(indent, m, pw, ph), panel |-> Box(m, top, w - 2 * m, panelH),
           button |-> Box(m + half, top + panelH - b - half, w - 2 * m - m, b)]
  BY DEF PortraitLayout, ButtonIn, Box
<1>4. pw \in 1 .. w - 2 * m /\ ph \in 1 .. h \div 2
  <2> HIDE DEF m
  <2>1. w - 2 * m \in Nat /\ w - 2 * m >= 16 /\ h \div 2 >= 16
    BY <1>1, <1>2
  <2> QED
    BY <1>2, <2>1, FittedIn
<1> HIDE DEF p
<1>5. half \in Nat /\ 2 * half <= m /\ m < 2 * half + 2
  <2> HIDE DEF m
  <2> QED
    BY <1>1
<1>6. indent \in Nat /\ 2 * indent <= w - pw
  <2> HIDE DEF m
  <2> QED
    BY <1>1, <1>4
<1> HIDE DEF m, half, indent, pw, ph
<1>7. top \in Nat /\ top = 2 * m + ph /\ panelH = h - 3 * m - ph /\ panelH \in Nat /\ panelH >= 60
  BY <1>1, <1>2, <1>4 DEF ph
<1>8. b \in Nat /\ 3 * b <= panelH /\ b >= 20
  <2> HIDE DEF panelH, top
  <2>1. h \div 6 \in Nat /\ h \div 6 >= 20 /\ panelH \div 3 \in Nat /\ panelH \div 3 >= 20
        /\ 3 * (panelH \div 3) <= panelH
    BY <1>7
  <2> QED
    BY <1>7, <2>1 DEF Smaller
<1> HIDE DEF top, panelH, b
<1> QED
  BY <1>1, <1>2, <1>3, <1>4, <1>5, <1>6, <1>7, <1>8 DEF Usable, Within, Disjoint, Box

\* On a landscape display they are beside it.
LEMMA LandscapeUsable ==
  ASSUME NEW w \in Nat, NEW h \in Nat, NEW cam, Shape(cam), h <= w, w >= 205, h >= 80
  PROVE  Usable(LandscapeLayout(w, h, cam), w, h)
<1> DEFINE m == Larger(8, h \div 30)
           most == (w * 3) \div 4
           p == Fitted(h - 2 * m, most, cam)
           pw == p.w
           ph == p.h
           left == m + p.w + m
           b == h \div 4
           half == m \div 2
           indent == (h - p.h) \div 2
<1>1. m \in Nat /\ m >= 8 /\ (m = 8 \/ 30 * m <= h)
  BY DEF Larger
<1>2. most \in Nat /\ 4 * most <= 3 * w /\ 3 * w < 4 * most + 4
  OBVIOUS
<1>3. LandscapeLayout(w, h, cam)
        = [preview |-> Box(m, indent, pw, ph), panel |-> Box(left, m, w - left - m, h - 2 * m),
           button |-> Box(left + half, m + (h - 2 * m) - b - half, w - left - m - m, b)]
  BY DEF LandscapeLayout, ButtonIn, Box
<1>4. pw \in 1 .. most /\ ph \in 1 .. h - 2 * m
  <2> HIDE DEF m, most
  <2>1. h - 2 * m \in Nat /\ h - 2 * m >= 16 /\ most >= 16
    BY <1>1, <1>2
  <2> QED
    BY <1>2, <2>1, FittedIn
<1> HIDE DEF p
<1>5. half \in Nat /\ 2 * half <= m /\ m < 2 * half + 2
  <2> HIDE DEF m
  <2> QED
    BY <1>1
<1>6. indent \in Nat /\ 2 * indent <= h - ph /\ h - ph < 2 * indent + 2
  <2> HIDE DEF m
  <2> QED
    BY <1>1, <1>4
<1>7. b \in Nat /\ 4 * b <= h /\ b >= 20
  OBVIOUS
<1>8. left = 2 * m + pw
  BY <1>1, <1>4 DEF pw
<1> HIDE DEF m, half, indent, pw, ph, b, left, most
<1>9. w - left - m - m >= 20
  BY <1>1, <1>2, <1>4, <1>8
<1> QED
  BY <1>1, <1>2, <1>3, <1>4, <1>5, <1>6, <1>7, <1>8, <1>9 DEF Usable, Within, Disjoint, Box

\* computeLayout() gives a layout the operator can use on every display that is large
\* enough, of either orientation, and for the picture of every camera: all of it is on
\* the display, the preview is not empty and clear of the panel, and the button is in
\* the panel and large enough for a finger.
THEOREM EveryLayoutUsable ==
  ASSUME NEW w \in Nat, NEW h \in Nat, NEW cam, Shape(cam), Enough(w, h)
  PROVE  Usable(Layout(w, h, cam), w, h)
  BY PortraitUsable, LandscapeUsable DEF Layout, Enough

\* Whenever a touch can come the layout is one the operator can use, whatever the
\* displays are, if they are large enough.
THEOREM LayoutAlwaysFits ==
  ASSUME \A d \in Displays : d \in Nat \X Nat /\ Enough(d[1], d[2])
  PROVE  Spec => []LayoutFits
<1>1. Shape([w |-> 640, h |-> 480])
  BY DEF Shape
<1>2. ASSUME NEW d \in Displays
      PROVE  Usable(Layout(d[1], d[2], [w |-> 640, h |-> 480]), d[1], d[2])
  <2>1. d[1] \in Nat /\ d[2] \in Nat /\ Enough(d[1], d[2])
    OBVIOUS
  <2> QED
    BY <1>1, <2>1, EveryLayoutUsable
<1>3. LayoutFits
  BY <1>2 DEF LayoutFits, AllUsable
<1> QED
  BY <1>3, PTL
=============================================================================
