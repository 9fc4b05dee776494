-------------------------------- MODULE Kiosk --------------------------------
(***************************************************************************)
(* The Scout kiosk (tools/scout_kiosk/main.cpp): the loop that shows the   *)
(* camera and measures on demand, the display's input thread whose         *)
(* handlers set its flags, the webcam that comes and goes, and the signal  *)
(* that ends it.                                                           *)
(*                                                                         *)
(* A picture is the mode it was taken in, a screen what it shows; colours, *)
(* texts and pixels are left out.  Every access to one of the atomics      *)
(* screen, captureRequested and dismissRequested is a step of its own.     *)
(* Ghosts: captured counts captures, answered the taps that asked for one; *)
(* handlerOld, captureOld and dismissOld say that a card has come or gone  *)
(* since the tap being handled, or the one behind the flag, was made;      *)
(* carried that a tap was pending when the camera was lost.                *)
(***************************************************************************)
EXTENDS V4l2Camera, KioskLayout

CONSTANTS
  MissLimit,  \* captures without a frame after which the camera is lost (25)
  MaxTaps,    \* bound on the touches and button presses
  Displays    \* the display sizes the layout is checked on

ASSUME KioskAssumption == MissLimit \in Nat \ {0} /\ MaxTaps \in Nat

VARIABLES
  running,                            \* g_running
  pc,                                 \* where main() is
  got,                                \* the frame of this round of the loop
  missed,                             \* missedFrames
  lastRgb, camMode,                   \* lastRgb; camW and camH, of the mode asked for
  picture,                            \* what the display shows
  screen,                             \* Screen::Preview or Card
  captureRequested, dismissRequested,
  input,                              \* "off", "deaf" (no handler yet), "on"
  handler,                            \* the flag a handler is about to set, or "idle"
  taps, answered, captured,
  handlerOld, captureOld, dismissOld, carried

flagVars  == <<screen, captureRequested, dismissRequested>>
oldVars   == <<handlerOld, captureOld, dismissOld, carried>>
countVars == <<taps, answered, captured>>
viewVars  == <<got, missed, lastRgb, camMode, picture>>
vars == <<camVars, running, pc, viewVars, flagVars, input, handler, countVars, oldVars>>

TypeOK ==
  /\ CameraTypeOK
  /\ running \in BOOLEAN
  /\ pc \in {"acquire", "register", "capture", "lost", "branch", "leave", "forget", "measure",
             "card", "show", "close", "done"}
  /\ {got, lastRgb, camMode} \subseteq Frames /\ missed \in 0 .. MissLimit
  /\ picture \in {"nothing", "waiting", "preview", "measuring", "card"}
  /\ screen \in {"Preview", "Card"}
  /\ captureRequested \in BOOLEAN /\ dismissRequested \in BOOLEAN
  /\ input \in {"off", "deaf", "on"}
  /\ handler \in {"idle", "capture", "dismiss"}
  /\ taps \in 0 .. MaxTaps
  /\ captured <= answered /\ answered <= taps  \* at most one capture for a tap
  /\ {handlerOld, captureOld, dismissOld, carried} \subseteq BOOLEAN

\* The display is open; the camera comes next.
Init ==
  /\ CameraInit
  /\ running = TRUE /\ pc = "acquire"
  /\ got = None /\ missed = 0 /\ lastRgb = None /\ camMode = None /\ picture = "nothing"
  /\ screen = "Preview" /\ captureRequested = FALSE /\ dismissRequested = FALSE
  /\ input = "deaf" /\ handler = "idle"
  /\ taps = 0 /\ answered = 0 /\ captured = 0
  /\ handlerOld = FALSE /\ captureOld = FALSE /\ dismissOld = FALSE /\ carried = FALSE

-----------------------------------------------------------------------------
(* Input thread: onTouch and onButton.  A handler reads the screen and sets *)
(* a flag; main() may take any number of steps in between.                  *)

\* A Down inside the button, or a button pressed: what it asks for.
Asks == IF screen = "Card" THEN "dismiss" ELSE "capture"

Tap ==
  /\ input = "on" /\ handler = "idle" /\ taps < MaxTaps
  /\ taps' = taps + 1
  /\ handler' = Asks /\ handlerOld' = FALSE
  /\ UNCHANGED <<camVars, running, pc, viewVars, flagVars, input, answered, captured,
                 captureOld, dismissOld, carried>>

\* A Down elsewhere: it only dismisses.
TapElsewhere ==
  /\ input = "on" /\ handler = "idle" /\ taps < MaxTaps /\ screen = "Card"
  /\ taps' = taps + 1
  /\ handler' = "dismiss" /\ handlerOld' = FALSE
  /\ UNCHANGED <<camVars, running, pc, viewVars, flagVars, input, answered, captured,
                 captureOld, dismissOld, carried>>

SetCapture ==
  /\ handler = "capture"
  /\ captureRequested' = TRUE /\ captureOld' = handlerOld /\ answered' = answered + 1
  /\ handler' = "idle" /\ handlerOld' = FALSE
  /\ UNCHANGED <<camVars, running, pc, viewVars, screen, dismissRequested, input, taps,
                 captured, dismissOld, carried>>

SetDismiss ==
  /\ handler = "dismiss"
  /\ dismissRequested' = TRUE /\ dismissOld' = handlerOld
  /\ handler' = "idle" /\ handlerOld' = FALSE
  /\ UNCHANGED <<camVars, running, pc, viewVars, screen, captureRequested, input, countVars,
                 captureOld, carried>>

Signal ==
  /\ running /\ running' = FALSE
  /\ UNCHANGED <<camVars, pc, viewVars, flagVars, input, handler, countVars, oldVars>>

Cam == /\ Plug \/ Unplug \/ Expose
       /\ UNCHANGED <<running, pc, viewVars, flagVars, input, handler, countVars, oldVars>>

-----------------------------------------------------------------------------
(* main(): acquireCamera()                                                  *)

\* (ForEver: the wait does not look at g_running.)
ForEver == TRUE
Wanted  == running

Acquire ==
  /\ pc = "acquire" /\ Wanted /\ FindCamera # None
  /\ Open(FindCamera) /\ camMode' = FindCamera
  /\ missed' = 0
  /\ pc' = IF input = "deaf" THEN "register" ELSE "capture"
  /\ UNCHANGED <<running, got, lastRgb, picture, flagVars, input, handler, countVars, oldVars>>

\* No camera, or none that opens: the display says so, and after a second it
\* tries again.
AcquireWaits ==
  /\ pc = "acquire" /\ Wanted
  /\ IF FindCamera = None THEN UNCHANGED camVars ELSE OpenFails
  /\ picture' = "waiting"
  /\ UNCHANGED <<running, pc, got, missed, lastRgb, camMode, flagVars, input, handler,
                 countVars, oldVars>>

AcquireStops ==
  /\ pc = "acquire" /\ ~Wanted
  /\ pc' = "close"
  /\ UNCHANGED <<camVars, running, viewVars, flagVars, input, handler, countVars, oldVars>>

Register ==
  /\ pc = "register" /\ input' = "on" /\ pc' = "capture"
  /\ UNCHANGED <<camVars, running, viewVars, flagVars, handler, countVars, oldVars>>

-----------------------------------------------------------------------------
(* main(): the loop                                                         *)

\* (NeverLost: the frames missed are not counted.)
NeverLost(m) == FALSE
IsLost(m)    == m >= MissLimit

Capture ==
  /\ pc = "capture" /\ running
  /\ \E f \in Frames :
       /\ Dequeue(f)
       /\ got' = f
       /\ LET m == IF f = None THEN missed + 1 ELSE 0
          IN  /\ missed' = Smaller(m, MissLimit)
              /\ pc' = IF IsLost(m) THEN "lost" ELSE "branch"
  /\ UNCHANGED <<running, lastRgb, camMode, picture, flagVars, input, handler, countVars, oldVars>>

LoopEnds ==
  /\ pc = "capture" /\ ~running
  /\ pc' = "close"
  /\ UNCHANGED <<camVars, running, viewVars, flagVars, input, handler, countVars, oldVars>>

\* (KeepPicture: lastRgb.clear() forgotten.)
KeepPicture   == UNCHANGED lastRgb
ForgetPicture == lastRgb' = None

CameraLost ==
  /\ pc = "lost"
  /\ Close /\ ForgetPicture
  /\ screen' = "Preview"
  /\ carried' = (carried \/ handler # "idle" \/ captureRequested \/ dismissRequested)
  /\ got' = None /\ pc' = "acquire"
  /\ UNCHANGED <<running, missed, camMode, picture, captureRequested, dismissRequested, input,
                 handler, countVars, handlerOld, captureOld, dismissOld>>

\* A card or its end: what the pending taps were made on is gone.
ScreenChanges ==
  /\ handlerOld' = (handler # "idle")
  /\ captureOld' = captureRequested
  /\ dismissOld' = dismissRequested
  /\ UNCHANGED carried

\* The card stays until it is dismissed.
OnCard ==
  /\ pc = "branch" /\ screen = "Card"
  /\ dismissRequested' = FALSE /\ dismissOld' = FALSE
  /\ pc' = IF dismissRequested THEN "leave" ELSE "capture"
  /\ got' = None
  /\ UNCHANGED <<camVars, running, missed, lastRgb, camMode, picture, screen,
                 captureRequested, input, handler, countVars,
                 handlerOld, captureOld, carried>>

LeaveCard ==
  /\ pc = "leave" /\ screen' = "Preview" /\ ScreenChanges
  /\ pc' = "forget"
  /\ UNCHANGED <<camVars, running, viewVars, captureRequested, dismissRequested, input, handler,
                 countVars>>

\* (RememberTaps: captureRequested keeps what was tapped before the card.)
RememberTaps == UNCHANGED <<captureRequested, captureOld>>
ForgetTaps   == captureRequested' = FALSE /\ captureOld' = FALSE

Forget ==
  /\ pc = "forget" /\ ForgetTaps
  /\ pc' = "capture"
  /\ UNCHANGED <<camVars, running, viewVars, screen, dismissRequested, input, handler,
                 countVars, handlerOld, dismissOld, carried>>

\* (Peek: the request is looked at and left set.)
Peek        == UNCHANGED <<captureRequested, captureOld>>
TakeRequest == captureRequested' = FALSE /\ captureOld' = FALSE

\* yuyvToRgb(): two bytes a pixel or no picture; a frame may be short.
Rgb(f) == IF f.format = "yuyv" THEN {f, None} ELSE {None}

OnPreview ==
  /\ pc = "branch" /\ screen = "Preview"
  /\ lastRgb' \in IF got = None THEN {lastRgb} ELSE Rgb(got)
  /\ got' = None
  /\ TakeRequest
  /\ IF captureRequested THEN picture' = "measuring" /\ pc' = "measure"
                         ELSE picture' = "preview" /\ pc' = "capture"
  /\ UNCHANGED <<camVars, running, missed, camMode, screen, dismissRequested, input,
                 handler, countVars, handlerOld, dismissOld, carried>>

\* captureOnce(): no frame, or a record that cannot be written (status shown);
\* a scene or a mode that cannot be measured (guidance shown); or a card.
MeasuredCard == picture' = "card" /\ pc' = "card"
Explained    == picture' = "preview" /\ pc' = "capture"

CaptureOnce ==
  /\ pc = "measure"
  /\ captured' = captured + 1
  /\ \E f \in Frames : Dequeue(f) /\ (Explained \/ (f # None /\ f.format = "yuyv" /\ MeasuredCard))
  /\ UNCHANGED <<running, got, missed, lastRgb, camMode, flagVars, input, handler, taps,
                 answered, oldVars>>

ResetDismiss == dismissRequested' = FALSE /\ dismissOld' = FALSE

CardDrawn ==
  /\ pc = "card" /\ ResetDismiss
  /\ pc' = "show"
  /\ UNCHANGED <<camVars, running, viewVars, screen, captureRequested, input, handler,
                 countVars, handlerOld, captureOld, carried>>

ShowCard ==
  /\ pc = "show" /\ screen' = "Card" /\ ScreenChanges
  /\ pc' = "capture"
  /\ UNCHANGED <<camVars, running, viewVars, captureRequested, dismissRequested, input, handler,
                 countVars>>

\* (LeaveThread: the input thread is not joined.)
LeaveThread == UNCHANGED <<input, handler>>
JoinInput   == handler = "idle" /\ input' = "off" /\ UNCHANGED handler

\* drmDisplay->close() joins the input thread, then the camera is closed.
CloseAll ==
  /\ pc = "close"
  /\ JoinInput /\ Close
  /\ pc' = "done"
  /\ UNCHANGED <<running, viewVars, flagVars, countVars, oldVars>>

Main == \/ Acquire \/ AcquireWaits \/ AcquireStops \/ Register
        \/ Capture \/ LoopEnds \/ CameraLost \/ OnCard \/ LeaveCard \/ Forget \/ OnPreview
        \/ CaptureOnce \/ CardDrawn \/ ShowCard \/ CloseAll

Handlers == SetCapture \/ SetDismiss

Next == Main \/ Handlers \/ Tap \/ TapElsewhere \/ Signal \/ Cam

Spec == Init /\ [][Next]_vars

\* main() and the input thread are scheduled, and a streaming webcam exposes
\* frames.  Taps, plugs, faults and signals need not happen.
FairSpec == Spec /\ WF_vars(Main) /\ WF_vars(Handlers) /\ WF_vars(Expose /\ Cam)

-----------------------------------------------------------------------------
(* Properties                                                               *)

\* A card is dismissed only by a tap made on that card, and a measurement
\* started only by a tap made since the last card went: a second tap on the
\* button or on the card is not kept for the next one.  (Except once a tap was
\* pending when the camera was lost: the waiting screen clears no flag.)
FreshTaps ==
  ~carried => /\ screen = "Card" /\ dismissRequested => ~dismissOld
              /\ pc = "branch" /\ screen = "Preview" /\ captureRequested => ~captureOld

\* The picture kept for the preview is of the camera that is open now, in the mode its
\* driver granted, never of the webcam that was there before: so it has the size it is
\* drawn with whenever the driver granted what was asked for.  Where it did not, the preview
\* stays blank, and not "scaled into the same preview rect" as a comment of main() says.
PreviewMatches == lastRgb # None => lastRgb = mode

\* When main() returns no handler runs or can run: they refer to its locals.
JoinedBeforeReturn == pc = "done" => handler = "idle" /\ input = "off" /\ fd = "closed"

AllUsable == \A d \in Displays : Usable(Layout(d[1], d[2], [w |-> 640, h |-> 480]), d[1], d[2])

\* Whenever a touch can come: on any display from a small panel to a large monitor,
\* in both orientations, preview, panel and button are on the display and do not overlap.
LayoutFits == input = "on" => AllUsable

CameraStays == <>[](running /\ FindCamera # None)

\* With a usable webcam in place, frames come again after it was exchanged, after
\* driver calls failed, after the ring lost its buffers one by one; and a tap on
\* CAPTURE is measured, or dropped with the card that replaced the button.
Recovers ==
  CameraStays => /\ []<>(pc = "branch" /\ got # None)
                 /\ captureRequested ~> (~captureRequested \/ screen = "Card")

\* SIGTERM ends the program, also while it waits for a webcam.
Stops == ~running ~> pc = "done"
=============================================================================
