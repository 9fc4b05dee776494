----------------------------- MODULE DrmDisplay -----------------------------
(***************************************************************************)
(* The local display (platform/display/src/drm/DrmDisplay.cpp): open() and *)
(* close() with every driver call that may fail between them, the CRTC     *)
(* that a console or a display server showed before, the touchscreen and   *)
(* the input thread, and the renderer of the program that opened it.       *)
(*                                                                         *)
(* There is one CRTC.  A touch position is one axis.  A packet is what the *)
(* kernel writes up to a SYN_REPORT; an axis or a key whose value did not  *)
(* change is not in it.  An unnamed run of the program follows another.    *)
(* Ghosts: before is what GETCRTC answered, "none" when it failed, and     *)
(* once the driver has refused the SETCRTC that puts it back; contact and  *)
(* tip are what the touch handler was told; doubt names what the thread    *)
(* cannot know of the finger: since the device was opened, or the kernel's *)
(* buffer overflowed, no packet has told it.                               *)
(***************************************************************************)
EXTENDS Renderer, KmsHelpers

CONSTANTS
  Outputs,      \* what may be plugged in: sequences of connectors
  Preferred,    \* preferredConnectorType
  RawMin, RawMax, \* what EVIOCGABS says of the axis
  Readings,     \* raw readings, which may overshoot the axis
  QueueLen      \* packets the kernel holds for a reader

ASSUME DrmAssumption == /\ QueueLen \in Nat \ {0} /\ Readings \subseteq Int
                        /\ {RawMin, RawMax} \subseteq Int /\ RawMin < RawMax
ASSUME OutputLists == Outputs \subseteq Seq(Connectors)

VARIABLES
  pc,                       \* where main() is in open(), close() or between
  held,                     \* what the process holds: files, buffers, thread
  savedCrtc, selected,      \* savedCrtc_; is selection_.connectorId set?
  wake,                     \* wakeFd_ was written
  crtc, master,             \* what the CRTC scans out; who is DRM master
  before,
  finger, device,           \* is it down; the kernel's last reading of the axis
  queue, batch,             \* packets in the kernel; those read and not yet handled
  loop                      \* locals of inputLoop(), and its ghosts

kmsVars   == <<savedCrtc, selected, crtc, master, before>>
inputVars == <<finger, device, queue, batch, loop>>
vars == <<pc, held, wake, kmsVars, inputVars, renderVars>>

Opening == {"card", "choose", "save", "create", "addfb", "map", "set", "input"}
Closing == {"wake", "join", "inputs", "restore", "unmap", "rmfb", "destroy", "cardclose"}
Same    == "same"   \* a packet without the key
Unknown == {"contact", "place"}

TypeOK ==
  /\ pc \in Opening \cup Closing \cup {"off", "open"}
  /\ held \subseteq {"card", "dumb", "fb", "map", "touch", "wakefd", "thread"}
  /\ savedCrtc \in {"nothing", "none", "console", "server"}
  /\ crtc \in {"none", "console", "server", "ours"} /\ before \in {"none", "console", "server"}
  /\ master \in {"free", "us", "server"}
  /\ crtc = "ours" => {"fb", "dumb"} \subseteq held
  /\ Len(queue) <= QueueLen
  /\ loop.touching \in BOOLEAN /\ loop.contact = loop.wasTouching
  /\ loop.raw \in Readings \cup {0} /\ {loop.last, loop.tip} \subseteq 0 .. Width - 1
  /\ stale \subseteq Screen /\ (dirtyRect # Clean => Clip(dirtyRect) = dirtyRect)

\* inputLoop() as it starts.
Fresh == [raw |-> 0, touching |-> FALSE, wasTouching |-> FALSE, last |-> 0,
          contact |-> FALSE, tip |-> 0, doubt |-> Unknown]

Init ==
  /\ pc = "off" /\ held = {} /\ wake = FALSE
  /\ savedCrtc = "nothing" /\ selected = FALSE
  /\ crtc \in {"none", "console"} /\ master = "free" /\ before = "none"
  /\ finger = FALSE /\ device \in Readings
  /\ queue = <<>> /\ batch = <<>> /\ loop = Fresh
  /\ RendererInit

-----------------------------------------------------------------------------
(* A display server that comes and goes, and the finger                    *)

ServerStarts == /\ master = "free"
                /\ master' = "server" /\ crtc' = "server"
                /\ UNCHANGED <<pc, held, wake, savedCrtc, selected, before, inputVars, renderVars>>

ServerStops  == /\ master = "server"
                /\ master' = "free" /\ crtc' = "console"
                /\ UNCHANGED <<pc, held, wake, savedCrtc, selected, before, inputVars, renderVars>>

\* The kernel gives a packet to whoever has the device open.  One that does not
\* fit takes the place of all that wait, and may lose a part: it comes after a
\* SYN_DROPPED, which the code skips.
Emit(key, x) ==
  LET moved == IF x = device THEN {} ELSE {x}
  IN  /\ device' = x
      /\ IF "touch" \notin held THEN UNCHANGED queue
         ELSE IF Len(queue) < QueueLen
         THEN queue' = Append(queue, [key |-> key, x |-> moved, dropped |-> FALSE])
         ELSE \E k \in {key, Same}, m \in {moved, {}} :
                queue' = <<[key |-> k, x |-> m, dropped |-> TRUE]>>
      /\ UNCHANGED <<pc, held, wake, kmsVars, batch, loop, renderVars>>

FingerDown == ~ finger /\ finger' = TRUE /\ \E x \in Readings : Emit("down", x)
FingerMove == finger /\ UNCHANGED finger /\ \E x \in Readings \ {device} : Emit(Same, x)
FingerUp   == finger /\ finger' = FALSE /\ Emit("up", device)

-----------------------------------------------------------------------------
(* main(): open()                                                          *)

Go(from, to) == pc = from /\ pc' = to

Open == /\ Go("off", "card")
        /\ selected' = FALSE /\ savedCrtc' = "nothing" /\ before' = "none"
        /\ UNCHANGED <<held, wake, crtc, master, inputVars, renderVars>>

\* open() of the node makes us master when nobody is.
OpenCard == /\ Go("card", "choose")
            /\ held' = held \cup {"card"}
            /\ master' = IF master = "free" THEN "us" ELSE master
            /\ UNCHANGED <<wake, savedCrtc, selected, crtc, before, inputVars, renderVars>>

\* Resources, connector, mode and CRTC: a missing one fails.
Choose == /\ \E cs \in Outputs :
               LET c == ChooseConnector(cs, Preferred)
               IN  c # 0 /\ ChooseMode(cs[c].modes) # 0
          /\ Go("choose", "save")
          /\ UNCHANGED <<held, wake, kmsVars, inputVars, renderVars>>

SaveCrtc == /\ Go("save", "create")
            /\ \/ savedCrtc' = crtc /\ before' = crtc
               \/ UNCHANGED <<savedCrtc, before>>          \* GETCRTC failed
            /\ UNCHANGED <<held, wake, selected, crtc, master, inputVars, renderVars>>

Allocate(from, to, what) == /\ Go(from, to)
                            /\ held' = held \cup {what}
                            /\ UNCHANGED <<wake, kmsVars, inputVars, renderVars>>

CreateDumb == Allocate("create", "addfb", "dumb")
AddFb      == Allocate("addfb", "map", "fb")
MapDumb    == Allocate("map", "set", "map")

\* (ForgetSelection: selection_ is not filled in.)
ForgetSelection == /\ Go("set", "input") /\ master = "us" /\ crtc' = "ours"
                   /\ UNCHANGED <<held, wake, savedCrtc, selected, master, before,
                                  inputVars, renderVars>>

SetCrtc == /\ Go("set", "input") /\ master = "us"
           /\ crtc' = "ours" /\ selected' = TRUE
           /\ UNCHANGED <<held, wake, savedCrtc, master, before, inputVars, renderVars>>

\* The errors of open(): close() releases what the steps before took.
Fails == /\ pc \in Opening \ {"save", "input"}
         /\ pc' = "wake"
         /\ savedCrtc' = IF pc = "set" /\ master # "us" THEN "nothing" ELSE savedCrtc
         /\ UNCHANGED <<held, wake, selected, crtc, master, before, inputVars, renderVars>>

\* A touchscreen may be found or not, and eventfd() may fail, which leaves the
\* touchscreen open and no thread.  The program then makes its renderer.
StartInput ==
  /\ Go("input", "open")
  /\ \E found \in {{}, {"touch"}, {"touch", "wakefd", "thread"}} : held' = held \cup found
  /\ wake' = FALSE /\ loop' = Fresh
  /\ NewRenderer
  /\ UNCHANGED <<kmsVars, finger, device, queue, batch>>

-----------------------------------------------------------------------------
(* main(): drawing and presenting                                          *)

CONSTANTS Draws   \* arguments for the drawing calls: rectangles, points, a glyph's bits

ASSUME DrawsAssumption == /\ Draws.rects \subseteq Int \X Int \X Int \X Int
                          /\ Draws.ends \subseteq Int \X Int
                          /\ Draws.glyph \subseteq Int \X Int

Draw == /\ pc = "open"
        /\ \/ Clear
           \/ \E r \in Draws.rects : FillRect(r) \/ DrawImage(r)
           \/ \E a, b \in Draws.ends : DrawLine(a, b)
           \/ \E a \in Draws.ends : DrawRect(a[1], a[2], 2, 3)
           \/ \E a \in Draws.ends, n \in {1, 2} : DrawText(a[1], a[2], Draws.glyph, n)
        /\ UNCHANGED <<pc, held, wake, kmsVars, inputVars>>

Present == /\ pc = "open"
           /\ PresentNothing \/ PresentOk \/ PresentFails
           /\ UNCHANGED <<pc, held, wake, kmsVars, inputVars>>

-----------------------------------------------------------------------------
(* main(): close()                                                         *)

Close == /\ Go("open", "wake")
         /\ RendererGone
         /\ UNCHANGED <<held, wake, kmsVars, inputVars>>

\* (NoWake: the thread is not told.)
NoWake == wake' = wake

SetWake == wake' = ("wakefd" \in held \/ wake)

WriteWake == /\ Go("wake", "join") /\ SetWake
             /\ UNCHANGED <<held, kmsVars, inputVars, renderVars>>

Join == /\ Go("join", "inputs") /\ "thread" \notin held
        /\ UNCHANGED <<held, wake, kmsVars, inputVars, renderVars>>

CloseInputs == /\ Go("inputs", IF "card" \in held THEN "restore" ELSE "off")
               /\ held' = held \ {"touch", "wakefd"}
               /\ queue' = <<>> /\ loop' = Fresh
               /\ UNCHANGED <<wake, kmsVars, finger, device, batch, renderVars>>

\* The saved mode is valid when something was shown.
PutsBack == savedCrtc \notin {"nothing", "none"} /\ selected

\* The SETCRTC of close() may fail (the saved framebuffer may be gone): nobody looks.
RestoreCrtc ==
  /\ Go("restore", "unmap")
  /\ \/ PutsBack /\ crtc' = savedCrtc /\ UNCHANGED before
     \/ PutsBack /\ before' = "none" /\ UNCHANGED crtc
     \/ ~ PutsBack /\ UNCHANGED <<crtc, before>>
  /\ savedCrtc' = "nothing"
  /\ UNCHANGED <<held, wake, selected, master, inputVars, renderVars>>

Release(from, to, what) ==
  /\ Go(from, to)
  /\ held' = held \ {what}
  \* The kernel turns a CRTC off whose framebuffer is removed.
  /\ crtc' = IF what = "fb" /\ crtc = "ours" THEN "none" ELSE crtc
  /\ UNCHANGED <<wake, savedCrtc, selected, master, before, inputVars, renderVars>>

\* (KeepMap: the mapping is forgotten, not undone.)
KeepMap == Release("unmap", "rmfb", "nothing")

Unmap   == Release("unmap", "rmfb", "map")
RmFb    == Release("rmfb", "destroy", "fb")
Destroy == Release("destroy", "cardclose", "dumb")

CloseCard == /\ Go("cardclose", "off")
             /\ held' = held \ {"card", "dumb", "fb"}   \* the kernel drops what is left
             /\ crtc' = IF crtc = "ours" THEN "none" ELSE crtc
             /\ master' = IF master = "us" THEN "free" ELSE master
             /\ UNCHANGED <<wake, savedCrtc, selected, before, inputVars, renderVars>>

-----------------------------------------------------------------------------
(* The input thread                                                        *)

\* poll() reports the wake first.
ThreadEnds == /\ "thread" \in held /\ batch = <<>> /\ wake
              /\ held' = held \ {"thread"}
              /\ UNCHANGED <<pc, wake, kmsVars, inputVars, renderVars>>

\* (NeverKept: the place of the last touch is not kept.)
NeverKept(l, now, x) == l.last

NextLast(l, now, x) == IF now THEN x ELSE l.last

\* One packet: its events are taken over, then SYN_REPORT tells the handler.
Report(l, p) ==
  LET now  == IF p.key = Same THEN l.touching ELSE p.key = "down"
      val  == IF p.x = {} THEN l.raw ELSE Max(p.x)
      x    == ScaleAxis(val, RawMin, RawMax, Width)
      down == now /\ ~ l.wasTouching
      move == now /\ l.wasTouching /\ x # l.last
      up   == ~ now /\ l.wasTouching
  IN  [raw |-> val, touching |-> now, wasTouching |-> now, last |-> NextLast(l, now, x),
       contact |-> (l.contact \/ down) /\ ~ up,
       tip     |-> IF down \/ move THEN x ELSE IF up THEN l.last ELSE l.tip,
       doubt   |-> (IF p.dropped THEN Unknown ELSE l.doubt)
                   \ ((IF p.key = Same THEN {} ELSE {"contact"})
                      \cup (IF p.x = {} THEN {} ELSE {"place"}))]

\* Otherwise all that waits is read, and reported although close() may begin.
Read == /\ "thread" \in held /\ batch = <<>> /\ ~ wake /\ queue # <<>>
        /\ batch' = queue /\ queue' = <<>>
        /\ UNCHANGED <<pc, held, wake, kmsVars, finger, device, loop, renderVars>>

Handle == /\ "thread" \in held /\ batch # <<>>
          /\ loop' = Report(loop, Head(batch)) /\ batch' = Tail(batch)
          /\ UNCHANGED <<pc, held, wake, kmsVars, finger, device, queue, renderVars>>

InputThread == ThreadEnds \/ Read \/ Handle

CloseSteps == \/ WriteWake \/ Join \/ CloseInputs \/ RestoreCrtc
              \/ Unmap \/ RmFb \/ Destroy \/ CloseCard

Main == \/ Open \/ OpenCard \/ Choose \/ SaveCrtc \/ CreateDumb \/ AddFb \/ MapDumb
        \/ SetCrtc \/ Fails \/ StartInput \/ Draw \/ Present \/ Close \/ CloseSteps

Finger == FingerDown \/ FingerMove \/ FingerUp

Next == ServerStarts \/ ServerStops \/ Finger \/ Main \/ InputThread

Spec     == Init /\ [][Next]_vars
FairSpec == Spec /\ WF_vars(CloseSteps) /\ WF_vars(InputThread)
-----------------------------------------------------------------------------
(* Properties                                                              *)

\* Idempotent failure (DrmDisplay.hpp): after close(), or an open() that failed at
\* any of its steps, nothing stays allocated or mapped and no thread runs.
NothingLeft == pc = "off" => held = {}

\* close() hands the CRTC back before it removes the framebuffer: the panel of a
\* console or display server never goes dark, unless the driver did not tell what it
\* showed, or does not take it back.
NeverDark == [][before # "none" => crtc' # "none"]_vars

\* Once the input thread has caught up, the program has been told whether a finger
\* is down and where, except for what the kernel did not tell the thread: a position
\* or contact unchanged since the device was opened, or lost in an overflow.
InputFaithful ==
  "thread" \in held /\ queue \o batch = <<>> =>
    /\ "contact" \notin loop.doubt => loop.contact = finger
    /\ loop.doubt = {} /\ loop.contact => loop.tip = ScaleAxis(device, RawMin, RawMax, Width)

\* The dirty rectangle covers every pixel on which panel and framebuffer differ, so
\* the next present that succeeds shows all that was drawn, whatever failed before.
DirtyCovers == stale \subseteq Pixels(dirtyRect)

AllRight ==
  /\ \A cs \in Outputs : OutputRight(cs, Preferred)
  /\ EveryHelper(0 .. 2, 1 .. 2)
  /\ \A a, b \in (0 .. 5) \X (0 .. 5) : LineRight(a, b)

\* While the card is in use: the panel is preferred whatever else is plugged in, every
\* helper does what its comment says on small inputs, and every line is one.
HelpersRight == "card" \in held => AllRight

\* close() returns: the thread in poll() is woken and joined.
CloseReturns == pc = "wake" ~> pc = "off"
=============================================================================
