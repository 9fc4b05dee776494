------------------------------ MODULE Renderer ------------------------------
(***************************************************************************)
(* The renderer (services/renderer/src/Renderer.cpp): the framebuffer the  *)
(* apps draw into, the rectangle of it that is dirty, and present().       *)
(*                                                                         *)
(* Colours are abstracted to what present() depends on: a pixel is stale   *)
(* when the panel shows another colour than the framebuffer holds.         *)
(* Drawing may make a pixel stale, or give it the panel's colour again.    *)
(***************************************************************************)
EXTENDS Integers, FiniteSetsExt, SequencesExt

CONSTANTS Width, Height   \* info_

ASSUME RendererAssumption == Width \in Nat \ {0} /\ Height \in Nat \ {0}

VARIABLES stale,      \* the pixels on which framebuffer and panel differ
          dirtyRect   \* dirtyRect_: corners <<x0, y0, x1, y1>>, or <<>>

renderVars == <<stale, dirtyRect>>

Clean  == <<>>
Whole  == <<0, 0, Width, Height>>
Pixels(r) == IF r = Clean THEN {} ELSE (r[1] .. r[3] - 1) \X (r[2] .. r[4] - 1)
Screen == Pixels(Whole)

\* A rectangle cut to the screen; Clean when nothing is left.
Clip(r) ==
  LET c == <<Max({r[1], 0}), Max({r[2], 0}), Min({r[3], Width}), Min({r[4], Height})>>
  IN  IF c[1] >= c[3] \/ c[2] >= c[4] THEN Clean ELSE c

\* (Latest: the new rectangle replaces the dirty one.)
Latest(r, d) == IF r = Clean THEN d ELSE r

\* The smallest rectangle around both.
Merge(r, d) ==
  IF r = Clean THEN d
  ELSE IF d = Clean THEN r
  ELSE <<Min({r[1], d[1]}), Min({r[2], d[2]}), Max({r[3], d[3]}), Max({r[4], d[4]})>>

\* (Unclipped: what is off the screen is marked as well.)
Unclipped(r, d) == Merge(r, d)

MarkDirty(r, d) == Merge(Clip(r), d)

\* What markDirty() makes of the pixels of a set, one after the other.
Around(S) ==
  LET xs == {p[1] : p \in S}
      ys == {p[2] : p \in S}
  IN  IF S = {} THEN Clean ELSE <<Min(xs), Min(ys), Max(xs) + 1, Max(ys) + 1>>

\* No renderer yet; then the constructor: a black framebuffer over a black panel, all of it dirty.
RendererInit == stale = {} /\ dirtyRect = Clean
NewRenderer  == stale' = {} /\ dirtyRect' = Whole

\* The program draws no more.
RendererGone == stale' = {} /\ dirtyRect' = Clean

\* setPixel() on each of a set of points: those whose colour changes are marked.
SetPixels(points) ==
  \E changed \in SUBSET (points \cap Screen) : \E same \in SUBSET (changed \cap stale) :
    /\ stale' = (stale \cup changed) \ same
    /\ dirtyRect' = Merge(Around(changed), dirtyRect)

\* fillRect(): no pixel is compared, and the rectangle is marked as a whole.
FillRect(r) ==
  /\ \E other \in SUBSET Pixels(Clip(r)) : stale' = (stale \ Pixels(Clip(r))) \cup other
  /\ dirtyRect' = MarkDirty(r, dirtyRect)

Clear == FillRect(Whole)

Magnitude(n) == IF n < 0 THEN -n ELSE n
Steps(a, b)  == Max({Magnitude(b[1] - a[1]), Magnitude(b[2] - a[2])})

\* A round of the loop of drawLine() after its first point.
LineStep(a, b, s) ==
  LET dx == Magnitude(b[1] - a[1])
      dy == - Magnitude(b[2] - a[2])
      sx == IF a[1] < b[1] THEN 1 ELSE -1
      sy == IF a[2] < b[2] THEN 1 ELSE -1
      h  == 2 * s.err >= dy
      v  == 2 * s.err <= dx
  IN  [err |-> s.err + (IF h THEN dy ELSE 0) + (IF v THEN dx ELSE 0),
       p   |-> <<s.p[1] + (IF h THEN sx ELSE 0), s.p[2] + (IF v THEN sy ELSE 0)>>]

\* drawLine(): Bresenham's points from a to b, as the loop visits them.
LinePoints(a, b) ==
  LET first == [err |-> Magnitude(b[1] - a[1]) - Magnitude(b[2] - a[2]), p |-> a]
      walk[i \in 0 .. Steps(a, b)] == IF i = 0 THEN first ELSE LineStep(a, b, walk[i - 1])
  IN  {walk[i].p : i \in 0 .. Steps(a, b)}

DrawLine(a, b) == SetPixels(LinePoints(a, b))

\* drawRect(): four lines around x, y, w, h.
DrawRect(x, y, w, h) ==
  LET right  == x + w - 1
      bottom == y + h - 1
      first  == <<x, y>>
      last   == <<right, bottom>>
  IN  SetPixels(UNION {LinePoints(first, <<right, y>>), LinePoints(<<x, bottom>>, last),
                       LinePoints(first, <<x, bottom>>), LinePoints(<<right, y>>, last)})

\* drawImage() into a rectangle, when the image has the size it claims.
DrawImage(r) == SetPixels(Pixels(r))

\* drawText(): the set bits of a glyph, a pixel each, or a filled block each.
DrawText(x, y, bits, scale) ==
  IF scale = 1 THEN SetPixels({<<x + b[1], y + b[2]>> : b \in bits})
  ELSE LET block(b) == <<x + b[1] * scale, y + b[2] * scale,
                         x + (b[1] + 1) * scale, y + (b[2] + 1) * scale>>
           area     == UNION {Pixels(Clip(block(b))) : b \in bits}
       IN  /\ \E other \in SUBSET area : stale' = (stale \ area) \cup other
           /\ dirtyRect' = Merge(Around(area), dirtyRect)

\* present(): nothing to do, or the dirty rectangle goes to the display.
PresentNothing == dirtyRect = Clean /\ UNCHANGED renderVars

PresentOk == /\ dirtyRect # Clean
             /\ stale' = stale \ Pixels(dirtyRect)
             /\ dirtyRect' = Clean

\* (ForgetRect: the rectangle is forgotten although the display failed.)
ForgetRect == \E shown \in SUBSET Pixels(dirtyRect) : stale' = stale \ shown /\ dirtyRect' = Clean

\* A display that fails may have shown any part of the rectangle (DisplaySink).
PresentFails == /\ dirtyRect # Clean
                /\ \E shown \in SUBSET Pixels(dirtyRect) : stale' = stale \ shown
                /\ UNCHANGED dirtyRect

\* A line has both its ends, one point for each step along its longer side, and no gap.
LineRight(a, b) ==
  LET line == LinePoints(a, b)
  IN  /\ {a, b} \subseteq line
      /\ Cardinality(line) = Steps(a, b) + 1
      /\ \A p \in line \ {b} : \E q \in line \ {p} :
           /\ Magnitude(q[1] - p[1]) <= 1 /\ Magnitude(q[2] - p[2]) <= 1
           /\ Steps(q, b) < Steps(p, b)
=============================================================================
