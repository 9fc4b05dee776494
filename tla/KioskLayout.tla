---------------------------- MODULE KioskLayout ----------------------------
(***************************************************************************)
(* Where the kiosk puts its preview, its panel and its button, for a       *)
(* display of any size (computeLayout of tools/scout_kiosk/main.cpp).      *)
(***************************************************************************)
EXTENDS Integers

Larger(a, b)  == IF a > b THEN a ELSE b
Smaller(a, b) == IF a < b THEN a ELSE b

Box(x, y, w, h) == [x |-> x, y |-> y, w |-> w, h |-> h]

\* The button: along the bottom of the panel.
ButtonIn(panel, margin, height) ==
  Box(panel.x + margin \div 2, panel.y + panel.h - height - margin \div 2,
      panel.w - margin, height)

\* (WideFirst: the preview is as high as the display allows, and as wide as that makes it.)
WideFirst(high, most, cam) == [w |-> (high * cam.w) \div cam.h, h |-> high]

\* The preview keeps the camera's shape: as high as it may be, unless that is too wide.
Fitted(high, most, cam) ==
  LET wide == (high * cam.w) \div Larger(1, cam.h)
  IN  IF wide > most THEN [w |-> most, h |-> (most * cam.h) \div Larger(1, cam.w)]
                     ELSE [w |-> wide, h |-> high]

FittedPortrait(wide, most, cam) ==
  LET high == (wide * cam.h) \div Larger(1, cam.w)
  IN  IF high > most THEN [w |-> (most * cam.w) \div Larger(1, cam.h), h |-> most]
                     ELSE [w |-> wide, h |-> high]

PortraitLayout(w, h, cam) ==
  LET margin == Larger(8, w \div 18)
      p      == FittedPortrait(w - 2 * margin, h \div 2, cam)
      top    == margin + p.h + margin
      panel  == Box(margin, top, w - 2 * margin, h - top - margin)
  IN  [preview |-> Box((w - p.w) \div 2, margin, p.w, p.h),
       panel   |-> panel,
       button  |-> ButtonIn(panel, margin, Smaller(h \div 6, panel.h \div 3))]

LandscapeLayout(w, h, cam) ==
  LET margin == Larger(8, h \div 30)
      p      == Fitted(h - 2 * margin, (w * 3) \div 4, cam)
      left   == margin + p.w + margin
      panel  == Box(left, margin, w - left - margin, h - 2 * margin)
  IN  [preview |-> Box(margin, (h - p.h) \div 2, p.w, p.h),
       panel   |-> panel,
       button  |-> ButtonIn(panel, margin, h \div 4)]

Layout(w, h, cam) == IF h > w THEN PortraitLayout(w, h, cam) ELSE LandscapeLayout(w, h, cam)

\* inside(): does a touch at (x, y) hit the box?
Inside(b, x, y) == x >= b.x /\ y >= b.y /\ x < b.x + b.w /\ y < b.y + b.h

-----------------------------------------------------------------------------
Within(b, c)   == /\ b.x >= c.x /\ b.x + b.w <= c.x + c.w
                  /\ b.y >= c.y /\ b.y + b.h <= c.y + c.h
Disjoint(b, c) == \/ b.x + b.w <= c.x \/ c.x + c.w <= b.x
                  \/ b.y + b.h <= c.y \/ c.y + c.h <= b.y

\* A layout the operator can use: everything on the display, the preview clear
\* of the panel, and a button large enough for a finger inside the panel.
Usable(l, w, h) ==
  /\ Within(l.preview, Box(0, 0, w, h)) /\ l.preview.w > 0 /\ l.preview.h > 0
  /\ Within(l.panel, Box(0, 0, w, h)) /\ Within(l.button, l.panel)
  /\ l.button.w >= 20 /\ l.button.h >= 20
  /\ Disjoint(l.preview, l.panel)
=============================================================================
