----------------------------- MODULE V4l2Camera -----------------------------
(***************************************************************************)
(* The USB camera of the kiosk: the webcam that may be unplugged and       *)
(* exchanged, and V4l2Camera, which opens a node of it and moves a ring of *)
(* mapped buffers between the driver and itself                            *)
(* (platform/camera/src/v4l2/V4l2Camera.cpp; findCamera of                 *)
(* tools/scout_kiosk/main.cpp).                                            *)
(*                                                                         *)
(* This module has no next-state relation: Kiosk extends it and takes its  *)
(* actions.  A frame is the mode it was taken in; "mjpeg" stands for every *)
(* format of less than two bytes a pixel.  Buffers are counted: one is     *)
(* with the driver (queued), holds a frame nobody took yet (filled), or is *)
(* lost, when the driver refused to take it back.                          *)
(***************************************************************************)
EXTENDS Integers, Sequences

CONSTANTS
  Webcams,    \* what can be plugged in: sequences of nodes, a node its modes
  Ring,       \* kBufferCount
  MaxPlugs,   \* bound on the webcams plugged in
  MaxFaults   \* bound on the driver calls that fail while the webcam is there

ASSUME CameraAssumption ==
  /\ Ring \in Nat \ {0} /\ MaxPlugs \in Nat /\ MaxFaults \in Nat
  /\ Webcams \subseteq Seq(Seq([format : {"yuyv", "mjpeg"}, width : Nat]))

VARIABLES
  nodes,          \* the /dev/video nodes that exist; <<>>: no webcam
  fd,             \* "closed", "open", or "dead": open, its device is gone
  mode,           \* mode_: what the driver granted, not what was asked for
  queued, filled, \* buffers with the driver, buffers holding a frame
  plugs, faults   \* counted for the bounds

ringVars == <<queued, filled>>
camVars  == <<nodes, fd, mode, ringVars, plugs, faults>>

None   == <<>>        \* no mode, no frame, no webcam
\* The modes a webcam has.
ModesOf(w) == UNION {{w[n][i] : i \in DOMAIN w[n]} : n \in DOMAIN w}
Modes      == UNION {ModesOf(w) : w \in Webcams}
Frames     == Modes \cup {None}

CameraTypeOK ==
  /\ nodes \in Webcams \cup {None}
  /\ fd \in {"closed", "open", "dead"}
  /\ mode \in Frames
  /\ queued \in 0 .. Ring /\ filled \in 0 .. Ring /\ queued + filled <= Ring
  /\ plugs \in 0 .. MaxPlugs /\ faults \in 0 .. MaxFaults

CameraInit ==
  /\ nodes = None /\ fd = "closed" /\ mode = None
  /\ queued = 0 /\ filled = 0
  /\ plugs = 0 /\ faults = 0

-----------------------------------------------------------------------------
(* The webcam and its driver                                               *)

Plug ==
  /\ nodes = None /\ plugs < MaxPlugs
  /\ \E w \in Webcams : nodes' = w
  /\ plugs' = plugs + 1
  /\ UNCHANGED <<fd, mode, ringVars, faults>>

Unplug ==
  /\ nodes # None
  /\ nodes' = None
  /\ fd' = IF fd = "open" THEN "dead" ELSE fd
  /\ UNCHANGED <<mode, ringVars, plugs, faults>>

\* A frame is exposed into a queued buffer; without one it is dropped.
Expose ==
  /\ fd = "open" /\ queued > 0
  /\ queued' = queued - 1 /\ filled' = filled + 1
  /\ UNCHANGED <<nodes, fd, mode, plugs, faults>>

-----------------------------------------------------------------------------
(* findCamera(): the modes a node offers that can be measured, and the one *)
(* taken of them                                                           *)

First(S) == CHOOSE i \in S : \A j \in S : i <= j

BestMode(node) ==
  LET measurable == {i \in DOMAIN node : node[i].format = "yuyv"}
      validated  == {i \in measurable : node[i].width = 640}
  IN  IF measurable = {} THEN None
      ELSE node[First(IF validated # {} THEN validated ELSE measurable)]

\* None: no node of the webcam offers such a mode.
FindCamera ==
  LET usable == {n \in DOMAIN nodes : BestMode(nodes[n]) # None}
  IN  IF usable = {} THEN None ELSE BestMode(nodes[First(usable)])

-----------------------------------------------------------------------------
(* V4l2Camera                                                              *)

Fault == faults < MaxFaults /\ faults' = faults + 1

\* open(): format, buffers mapped and queued, stream on.  The driver grants the mode
\* that was asked for or another one, which is recorded.  The warm-up frames
\* go round the ring; when one of them cannot be requeued the warm-up ends and the
\* camera is open with a buffer less.
Open(asked) ==
  /\ fd = "closed" /\ asked # None
  /\ fd' = "open" /\ mode' \in ModesOf(nodes) /\ filled' = 0
  /\ \/ queued' = Ring /\ UNCHANGED faults
     \/ queued' = Ring - 1 /\ Fault
  /\ UNCHANGED <<nodes, plugs>>

\* Every error path of open() ends in close(), which leaves nothing open.
OpenFails ==
  /\ fd = "closed" /\ Fault
  /\ UNCHANGED <<nodes, fd, mode, ringVars, plugs>>

\* close(): stream off, buffers unmapped.
Close ==
  /\ fd' = "closed" /\ queued' = 0 /\ filled' = 0
  /\ UNCHANGED <<nodes, mode, plugs, faults>>

\* dequeueFrame(): the frame it returns, None for every error.  select() waits
\* while the driver has a buffer to fill; a camera that is too slow, or refuses
\* a call, is a fault.
Dequeue(frame) ==
  /\ \/ fd = "open" /\ filled > 0 /\ frame = mode
        /\ filled' = filled - 1 /\ queued' = queued + 1 /\ UNCHANGED faults
     \/ fd = "open" /\ filled > 0 /\ frame = None /\ Fault
        /\ filled' \in {filled - 1, filled} /\ UNCHANGED queued
     \/ fd = "open" /\ filled = 0 /\ frame = None
        /\ (IF queued = 0 THEN UNCHANGED faults ELSE Fault) /\ UNCHANGED ringVars
     \/ fd = "dead" /\ frame = None /\ UNCHANGED <<ringVars, faults>>
  /\ UNCHANGED <<nodes, fd, mode, plugs>>
=============================================================================
