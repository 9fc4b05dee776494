----------------------------- MODULE KmsHelpers -----------------------------
(***************************************************************************)
(* The portable logic of the DRM display (platform/display/src/drm/        *)
(* KmsHelpers.hpp): which connector and mode to drive, what part of a      *)
(* region is on the panel, how colours widen and how a raw touch reading   *)
(* becomes a pixel.  0 stands for an empty optional, indices start at 1.   *)
(***************************************************************************)
EXTENDS Integers, SequencesExt

Least(S) == IF S = {} THEN 0 ELSE Min(S)

\* A connector is its type, whether something is plugged in, and its modes.
Modes      == [width : Nat, height : Nat, hz : Nat, preferred : BOOLEAN]
Connectors == [type : STRING, connected : BOOLEAN, modes : Seq(Modes)]

Drivable(c) == c.connected /\ c.modes # <<>>

ChooseConnector(cs, preferredType) ==
  LET usable == {i \in DOMAIN cs : Drivable(cs[i])}
      wanted == {i \in usable : cs[i].type = preferredType}
  IN  IF wanted # {} THEN Min(wanted) ELSE Least(usable)

Area(m) == m.width * m.height

\* (LastBest: a mode that is only as good as the best replaces it.)
LastBest(m, best) == Area(m) > Area(best) \/ (Area(m) = Area(best) /\ m.hz >= best.hz)

Better(m, best) == Area(m) > Area(best) \/ (Area(m) = Area(best) /\ m.hz > best.hz)

\* A mode in the loop: one without an area is skipped, and a preferred one ends it.
Consider(modes, best, i) ==
  IF Area(modes[i]) = 0 \/ (best # 0 /\ modes[best].preferred) THEN best
  ELSE IF modes[i].preferred \/ best = 0 \/ Better(modes[i], modes[best]) THEN i
  ELSE best

ChooseMode(modes) ==
  LET best[i \in 0 .. Len(modes)] == IF i = 0 THEN 0 ELSE Consider(modes, best[i - 1], i)
  IN  best[Len(modes)]

Region(x, y, w, h) == [x |-> x, y |-> y, w |-> w, h |-> h]

ClampRegion(r, width, height) ==
  IF r.x >= width \/ r.y >= height THEN Region(0, 0, 0, 0)
  ELSE Region(r.x, r.y, Min({r.w, width - r.x}), Min({r.h, height - r.y}))

\* One channel of n bits, widened to 8 by repeating its high bits, and cut back.
Widen(v, n)  == v * 2^(8 - n) + v \div 2^(2 * n - 8)
Narrow(v, n) == v \div 2^(8 - n)

\* A pixel's channels: red and blue have 5 bits, green 6.
Rgb565ToXrgb8888(p) == [r |-> Widen(p.r, 5), g |-> Widen(p.g, 6), b |-> Widen(p.b, 5)]
ToRgb565(c)         == [r |-> Narrow(c.r, 5), g |-> Narrow(c.g, 6), b |-> Narrow(c.b, 5)]

ScaleAxis(value, min, max, size) ==
  IF size = 0 \/ max <= min THEN 0
  ELSE LET inside == Max({min, Min({value, max})})
       IN  ((inside - min) * (size - 1)) \div (max - min)

-----------------------------------------------------------------------------
(* What each of them is for, on every input of a small set                 *)

RegionPixels(r) == (r.x .. r.x + r.w - 1) \X (r.y .. r.y + r.h - 1)

\* The mode chosen is the first preferred one or, without one, the first of the
\* largest, fastest modes; none is chosen only when none has an area.
ModeRight(modes) ==
  LET some   == {i \in DOMAIN modes : Area(modes[i]) > 0}
      wanted == {i \in some : modes[i].preferred}
      large  == {i \in some : \A j \in some : Area(modes[i]) >= Area(modes[j])}
      fast   == {i \in large : \A j \in large : modes[i].hz >= modes[j].hz}
  IN  IF wanted # {} THEN ChooseMode(modes) = Min(wanted)
      ELSE ChooseMode(modes) = Least(fast)

\* A clipped region is the part of the region that is on the panel.
ClampRight(r, w, h) ==
  RegionPixels(ClampRegion(r, w, h)) = RegionPixels(r) \cap RegionPixels(Region(0, 0, w, h))

\* The axis is covered from end to end, in order, and never left.
AxisRight(min, max, size) ==
  /\ ScaleAxis(min, min, max, size) = 0 /\ ScaleAxis(max, min, max, size) = size - 1
  /\ \A v \in min - 2 .. max + 1 :
       /\ ScaleAxis(v, min, max, size) \in 0 .. size - 1
       /\ ScaleAxis(v, min, max, size) <= ScaleAxis(v + 1, min, max, size)

\* A colour survives the way to the panel and back; full scale stays full scale.
ColoursRight ==
  \A n \in {5, 6} : /\ Widen(0, n) = 0 /\ Widen(2^n - 1, n) = 255
                    /\ \A v \in 0 .. 2^n - 1 : Narrow(Widen(v, n), n) = v

\* The output chosen can be driven, and is of the preferred type whatever else is
\* plugged in; none is chosen only when none can be driven.
OutputRight(cs, preferredType) ==
  LET c == ChooseConnector(cs, preferredType)
  IN  IF c = 0 THEN \A i \in DOMAIN cs : ~ Drivable(cs[i])
      ELSE /\ c \in DOMAIN cs /\ Drivable(cs[c])
           /\ \A i \in DOMAIN cs : Drivable(cs[i]) /\ i < c =>
                cs[c].type = preferredType /\ cs[i].type # preferredType
           /\ cs[c].type # preferredType =>
                \A i \in DOMAIN cs : Drivable(cs[i]) => cs[i].type # preferredType

\* Every helper does what its comment says, on modes, regions and ranges of a small set.
EveryHelper(sizes, rates) ==
  LET modes == [width : sizes, height : sizes, hz : rates, preferred : BOOLEAN]
      some  == {m \in modes : m.width >= m.height}
  IN  /\ \A m \in BoundedSeq(some, 3) : ModeRight(m)
      /\ \A x, y, w, h \in 0 .. 4 : ClampRight(Region(x, y, w, h), 3, 2)
      /\ \A min \in -1 .. 0, max \in 1 .. 5, size \in 2 .. 4 : AxisRight(min, max, size)
      /\ ColoursRight
=============================================================================
