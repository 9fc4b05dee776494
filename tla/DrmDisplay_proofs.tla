-------------------------- MODULE DrmDisplay_proofs --------------------------
(***************************************************************************)
(* Proofs about DrmDisplay: what open() took is given back whatever it was *)
(* that failed, and the CRTC is never left to a framebuffer that is        *)
(* removed; what was drawn stays marked until the panel shows it; and the  *)
(* program is told what the finger does.  They hold for any panel, axis,   *)
(* connectors and drawing, with all of this going on at the same time.     *)
(* The helpers for the touch axis, regions, outputs and modes are proved   *)
(* for every axis, panel, region, list of outputs and list of modes, and   *)
(* drawLine() for every two points.                                        *)
(*                                                                         *)
(* First the renderer's rectangles, for every size of the screen: what     *)
(* clipping and merging keep, and that the rectangle markDirty() leaves    *)
(* covers what was drawn.                                                  *)
(***************************************************************************)
EXTENDS DrmDisplay, SequenceTheorems, FiniteSetTheorems, WellFoundedInduction, TLAPS

Corners == Int \X Int \X Int \X Int

\* A rectangle with pixels, all of them on the screen; or none.
OnScreen(r) ==
  r # Clean => /\ r \in Corners
               /\ 0 <= r[1] /\ r[1] < r[3] /\ r[3] <= Width
               /\ 0 <= r[2] /\ r[2] < r[4] /\ r[4] <= Height

-----------------------------------------------------------------------------
(* The least and the greatest of some numbers                              *)

\* A non-empty set of natural numbers has a least element.
LEMMA LeastOf ==
  ASSUME NEW S \in SUBSET Nat, S # {}
  PROVE  Min(S) \in S /\ \A y \in S : Min(S) <= y
<1> DEFINE R == OpToRel(<, Nat)
<1>1. \A x, y \in Nat : <<y, x>> \notin R => x <= y
  BY DEF OpToRel
<1>2. IsWellFoundedOn(R, Nat)
  BY NatLessThanWellFounded DEF OpToRel
<1> HIDE DEF R
<1>3. PICK x \in S : \A y \in S : <<y, x>> \notin R
  BY <1>2, WFMin
<1>4. \A y \in S : x <= y
  BY <1>1, <1>3, Zenon
<1> QED
  BY <1>4, Zenon DEF Min

\* A non-empty set of numbers up to n has a greatest element.
LEMMA GreatestOf ==
  ASSUME NEW n \in Nat, NEW S \in SUBSET (0 .. n), S # {}
  PROVE  Max(S) \in S /\ \A y \in S : y <= Max(S)
<1> DEFINE T == {n - x : x \in S}
<1>1. T \in SUBSET Nat /\ T # {}
  <2>1. \A x \in S : n - x \in Nat
    OBVIOUS
  <2> QED
    BY <2>1
<1>2. Min(T) \in T /\ \A t \in T : Min(T) <= t
  BY <1>1, LeastOf
<1>3. PICK x \in S : Min(T) = n - x
  BY <1>2
<1>4. \A y \in S : y <= x
  <2> TAKE y \in S
  <2>1. n - y \in T
    OBVIOUS
  <2>2. n - x <= n - y
    BY <1>2, <1>3, <2>1
  <2> QED
    BY <2>2
<1>5. \A y \in S : x >= y
  BY <1>4
<1>6. Max(S) \in S /\ \A y \in S : Max(S) >= y
  BY <1>5, Zenon DEF Max
<1> QED
  BY <1>6

\* Of two numbers.
LEMMA OfTwo ==
  ASSUME NEW a \in Int, NEW b \in Int
  PROVE  /\ Min({a, b}) = IF a <= b THEN a ELSE b
         /\ Max({a, b}) = IF a >= b THEN a ELSE b
<1>1. PICK x \in {a, b} : \A y \in {a, b} : x <= y
  OBVIOUS
<1>2. Min({a, b}) \in {a, b} /\ \A y \in {a, b} : Min({a, b}) <= y
  BY <1>1, Zenon DEF Min
<1>3. PICK z \in {a, b} : \A y \in {a, b} : z >= y
  OBVIOUS
<1>4. Max({a, b}) \in {a, b} /\ \A y \in {a, b} : Max({a, b}) >= y
  BY <1>3, Zenon DEF Max
<1>5. Min({a, b}) = IF a <= b THEN a ELSE b
  BY <1>2
<1>6. Max({a, b}) = IF a >= b THEN a ELSE b
  BY <1>4
<1> QED
  BY <1>5, <1>6

-----------------------------------------------------------------------------
(* Rectangles                                                              *)

\* A pixel of a rectangle, by its corners.
LEMMA InRect ==
  ASSUME NEW r \in Corners
  PROVE  /\ r # Clean
         /\ r[1] \in Int /\ r[2] \in Int /\ r[3] \in Int /\ r[4] \in Int
         /\ \A p : p \in Pixels(r) <=>
              /\ p \in Int \X Int
              /\ r[1] <= p[1] /\ p[1] < r[3] /\ r[2] <= p[2] /\ p[2] < r[4]
<1>1. r # Clean
  <2>1. PICK a, b, c, d \in Int : r = <<a, b, c, d>>
    BY DEF Corners
  <2>2. Len(r) = 4 /\ Len(Clean) = 0
    BY <2>1 DEF Clean
  <2> QED
    BY <2>2
<1>2. r[1] \in Int /\ r[2] \in Int /\ r[3] \in Int /\ r[4] \in Int
  BY DEF Corners
<1>3. Pixels(r) = (r[1] .. r[3] - 1) \X (r[2] .. r[4] - 1)
  BY <1>1 DEF Pixels
<1>4. ASSUME NEW p
      PROVE  p \in Pixels(r) <=>
               /\ p \in Int \X Int
               /\ r[1] <= p[1] /\ p[1] < r[3] /\ r[2] <= p[2] /\ p[2] < r[4]
  BY <1>2, <1>3
<1> QED
  BY <1>1, <1>2, <1>4

\* The pixels of the screen.
LEMMA InScreen ==
  /\ Whole \in Corners /\ OnScreen(Whole)
  /\ \A p : p \in Screen <=> /\ p \in Int \X Int
                             /\ 0 <= p[1] /\ p[1] < Width /\ 0 <= p[2] /\ p[2] < Height
<1>1. Whole \in Corners
  BY RendererAssumption DEF Whole, Corners
<1>2. Whole[1] = 0 /\ Whole[2] = 0 /\ Whole[3] = Width /\ Whole[4] = Height
  BY DEF Whole
<1>3. OnScreen(Whole)
  BY <1>1, <1>2, RendererAssumption DEF OnScreen
<1> QED
  BY <1>1, <1>2, <1>3, InRect DEF Screen

\* Clipping leaves the pixels of the rectangle that are on the screen, no more and no less.
LEMMA ClipKeeps ==
  ASSUME NEW r \in Corners
  PROVE  OnScreen(Clip(r)) /\ Pixels(Clip(r)) = Pixels(r) \cap Screen
<1> DEFINE c == <<Max({r[1], 0}), Max({r[2], 0}), Min({r[3], Width}), Min({r[4], Height})>>
<1>1. r[1] \in Int /\ r[2] \in Int /\ r[3] \in Int /\ r[4] \in Int
  BY InRect
<1>2. /\ c[1] = (IF r[1] >= 0 THEN r[1] ELSE 0) /\ c[2] = (IF r[2] >= 0 THEN r[2] ELSE 0)
      /\ c[3] = (IF r[3] <= Width THEN r[3] ELSE Width)
      /\ c[4] = (IF r[4] <= Height THEN r[4] ELSE Height)
  <2>1. 0 \in Int /\ Width \in Int /\ Height \in Int
    BY RendererAssumption
  <2>2. Max({r[1], 0}) = (IF r[1] >= 0 THEN r[1] ELSE 0)
    BY <1>1, <2>1, OfTwo
  <2>3. Max({r[2], 0}) = (IF r[2] >= 0 THEN r[2] ELSE 0)
    BY <1>1, <2>1, OfTwo
  <2>4. Min({r[3], Width}) = (IF r[3] <= Width THEN r[3] ELSE Width)
    BY <1>1, <2>1, OfTwo
  <2>5. Min({r[4], Height}) = (IF r[4] <= Height THEN r[4] ELSE Height)
    BY <1>1, <2>1, OfTwo
  <2> QED
    BY <2>2, <2>3, <2>4, <2>5
<1>3. c \in Corners
  BY <1>1, <1>2, RendererAssumption DEF Corners
<1>4. Clip(r) = IF c[1] >= c[3] \/ c[2] >= c[4] THEN Clean ELSE c
  BY DEF Clip
<1> HIDE DEF c
<1>5. \A p : p \in Pixels(c) <=> p \in Pixels(r) \cap Screen
  BY <1>1, <1>2, <1>3, InRect, InScreen, RendererAssumption
<1>6. CASE c[1] >= c[3] \/ c[2] >= c[4]
  <2>1. Pixels(c) = {}
    BY <1>2, <1>3, <1>6, InRect
  <2> QED
    BY <1>4, <1>5, <1>6, <2>1 DEF OnScreen, Pixels
<1>7. CASE ~(c[1] >= c[3] \/ c[2] >= c[4])
  <2>1. OnScreen(c)
    BY <1>1, <1>2, <1>3, <1>7, RendererAssumption DEF OnScreen
  <2> QED
    BY <1>4, <1>5, <1>7, <2>1
<1> QED
  BY <1>6, <1>7

\* A rectangle on the screen is its own clip.
LEMMA ClipSame ==
  ASSUME NEW r, OnScreen(r), r # Clean
  PROVE  Clip(r) = r
<1>1. /\ r \in Corners /\ r[1] \in Int /\ r[2] \in Int /\ r[3] \in Int /\ r[4] \in Int
      /\ 0 <= r[1] /\ r[1] < r[3] /\ r[3] <= Width
      /\ 0 <= r[2] /\ r[2] < r[4] /\ r[4] <= Height
  BY InRect DEF OnScreen
<1>2. r = <<r[1], r[2], r[3], r[4]>>
  BY <1>1 DEF Corners
<1>3. /\ Max({r[1], 0}) = r[1] /\ Max({r[2], 0}) = r[2]
      /\ Min({r[3], Width}) = r[3] /\ Min({r[4], Height}) = r[4]
  <2>1. 0 \in Int /\ Width \in Int /\ Height \in Int
    BY RendererAssumption
  <2>2. Max({r[1], 0}) = (IF r[1] >= 0 THEN r[1] ELSE 0)
    BY <1>1, <2>1, OfTwo
  <2>3. Max({r[2], 0}) = (IF r[2] >= 0 THEN r[2] ELSE 0)
    BY <1>1, <2>1, OfTwo
  <2>4. Min({r[3], Width}) = (IF r[3] <= Width THEN r[3] ELSE Width)
    BY <1>1, <2>1, OfTwo
  <2>5. Min({r[4], Height}) = (IF r[4] <= Height THEN r[4] ELSE Height)
    BY <1>1, <2>1, OfTwo
  <2> QED
    BY <1>1, <2>2, <2>3, <2>4, <2>5
<1> QED
  BY <1>1, <1>2, <1>3 DEF Clip

\* The merge of two rectangles on the screen is on the screen and covers both.
LEMMA MergeCovers ==
  ASSUME NEW r, NEW d, OnScreen(r), OnScreen(d)
  PROVE  OnScreen(Merge(r, d)) /\ Pixels(r) \cup Pixels(d) \subseteq Pixels(Merge(r, d))
<1>1. CASE r = Clean \/ d = Clean
  BY <1>1 DEF Merge, Pixels
<1>2. CASE r # Clean /\ d # Clean
  <2> DEFINE m == <<Min({r[1], d[1]}), Min({r[2], d[2]}), Max({r[3], d[3]}), Max({r[4], d[4]})>>
  <2>1. r \in Corners /\ d \in Corners
    BY <1>2 DEF OnScreen
  <2>2. /\ r[1] \in Int /\ r[2] \in Int /\ r[3] \in Int /\ r[4] \in Int
        /\ d[1] \in Int /\ d[2] \in Int /\ d[3] \in Int /\ d[4] \in Int
    BY <2>1, InRect
  <2>3. /\ m[1] = (IF r[1] <= d[1] THEN r[1] ELSE d[1])
        /\ m[2] = (IF r[2] <= d[2] THEN r[2] ELSE d[2])
        /\ m[3] = (IF r[3] >= d[3] THEN r[3] ELSE d[3])
        /\ m[4] = (IF r[4] >= d[4] THEN r[4] ELSE d[4])
    BY <2>2, OfTwo
  <2>4. m \in Corners
    BY <2>2, <2>3 DEF Corners
  <2>5. Merge(r, d) = m
    BY <1>2 DEF Merge
  <2> HIDE DEF m
  <2>6. OnScreen(m)
    BY <1>2, <2>2, <2>3, <2>4 DEF OnScreen
  <2>7. \A p : p \in Pixels(r) \/ p \in Pixels(d) => p \in Pixels(m)
    BY <2>1, <2>2, <2>3, <2>4, InRect
  <2> QED
    BY <2>5, <2>6, <2>7
<1> QED
  BY <1>1, <1>2

\* The rectangle around pixels of the screen is on the screen and covers them.
LEMMA AroundCovers ==
  ASSUME NEW S \in SUBSET Screen
  PROVE  OnScreen(Around(S)) /\ S \subseteq Pixels(Around(S))
<1>1. CASE S = {}
  BY <1>1 DEF Around, OnScreen
<1>2. CASE S # {}
  <2> DEFINE xs == {p[1] : p \in S}
             ys == {p[2] : p \in S}
             c  == <<Min(xs), Min(ys), Max(xs) + 1, Max(ys) + 1>>
  <2>1. /\ Width - 1 \in Nat /\ xs \in SUBSET (0 .. Width - 1) /\ xs # {}
        /\ Height - 1 \in Nat /\ ys \in SUBSET (0 .. Height - 1) /\ ys # {}
    BY <1>2, InScreen, RendererAssumption
  <2>2. /\ \A p \in S : p \in Int \X Int /\ p[1] \in xs /\ p[2] \in ys
        /\ xs \in SUBSET Nat /\ ys \in SUBSET Nat
    BY <2>1, InScreen
  <2>3. Around(S) = c
    BY <1>2 DEF Around
  <2> HIDE DEF xs, ys
  <2>4. /\ Min(xs) \in xs /\ Max(xs) \in xs
        /\ \A x \in xs : Min(xs) <= x /\ x <= Max(xs)
    BY <2>1, <2>2, LeastOf, GreatestOf
  <2>5. /\ Min(ys) \in ys /\ Max(ys) \in ys
        /\ \A y \in ys : Min(ys) <= y /\ y <= Max(ys)
    BY <2>1, <2>2, LeastOf, GreatestOf
  <2>a. /\ \A x \in xs : x \in Int /\ 0 <= x /\ x + 1 <= Width
        /\ \A y \in ys : y \in Int /\ 0 <= y /\ y + 1 <= Height
    BY <2>1, RendererAssumption
  <2>6. c[1] = Min(xs) /\ c[2] = Min(ys) /\ c[3] = Max(xs) + 1 /\ c[4] = Max(ys) + 1
    OBVIOUS
  <2>7. c \in Corners
    BY <2>a, <2>4, <2>5 DEF Corners
  <2> HIDE DEF c
  <2>8. OnScreen(c)
    <3>1. /\ 0 <= c[1] /\ c[1] < c[3] /\ c[3] <= Width
          /\ 0 <= c[2] /\ c[2] < c[4] /\ c[4] <= Height
      BY <2>a, <2>4, <2>5, <2>6, RendererAssumption
    <3> QED
      BY <2>7, <3>1 DEF OnScreen
  <2>9. \A p \in S : p \in Pixels(c)
    <3> SUFFICES ASSUME NEW p \in S PROVE p \in Pixels(c)
      OBVIOUS
    <3>1. /\ p \in Int \X Int /\ p[1] \in Int /\ p[2] \in Int
          /\ Min(xs) \in Int /\ Max(xs) \in Int /\ Min(ys) \in Int /\ Max(ys) \in Int
          /\ Min(xs) <= p[1] /\ p[1] <= Max(xs) /\ Min(ys) <= p[2] /\ p[2] <= Max(ys)
      BY <2>a, <2>2, <2>4, <2>5
    <3>2. c[1] <= p[1] /\ p[1] < c[3] /\ c[2] <= p[2] /\ p[2] < c[4]
      BY <2>6, <3>1
    <3> QED
      BY <2>7, <3>1, <3>2, InRect
  <2> QED
    BY <2>3, <2>8, <2>9
<1> QED
  BY <1>1, <1>2

-----------------------------------------------------------------------------
(* Drawing and presenting                                                  *)

\* The dirty rectangle is on the screen and covers what the panel does not show.
RenderOK == OnScreen(dirtyRect) /\ stale \subseteq Pixels(dirtyRect)

\* Covered pixels are on the screen, and the rectangle is its own clip.
LEMMA RenderType ==
  ASSUME RenderOK
  PROVE  stale \subseteq Screen /\ (dirtyRect # Clean => Clip(dirtyRect) = dirtyRect)
<1>1. Pixels(dirtyRect) \subseteq Screen
  <2>1. CASE dirtyRect = Clean
    BY <2>1 DEF Pixels
  <2>2. CASE dirtyRect # Clean
    <3>1. dirtyRect \in Corners
      BY <2>2 DEF RenderOK, OnScreen
    <3> QED
      BY <2>2, <3>1, ClipSame, ClipKeeps DEF RenderOK
  <2> QED
    BY <2>1, <2>2
<1> QED
  BY <1>1, ClipSame DEF RenderOK

\* Drawing pixels of the screen and marking the rectangle around them.
LEMMA Drawn ==
  ASSUME RenderOK, NEW S \in SUBSET Screen, stale' \subseteq stale \cup S,
         dirtyRect' = Merge(Around(S), dirtyRect)
  PROVE  RenderOK'
<1>1. OnScreen(Around(S)) /\ S \subseteq Pixels(Around(S))
  BY AroundCovers
<1>2. /\ OnScreen(dirtyRect')
      /\ Pixels(Around(S)) \cup Pixels(dirtyRect) \subseteq Pixels(dirtyRect')
  BY <1>1, MergeCovers DEF RenderOK
<1>3. OnScreen(dirtyRect)'
  BY <1>2 DEF OnScreen
<1>4. Pixels(dirtyRect)' = Pixels(dirtyRect')
  BY DEF Pixels
<1> QED
  BY <1>1, <1>2, <1>3, <1>4 DEF RenderOK

\* setPixel(), drawLine(), drawRect(), drawImage(): any set of points.
LEMMA SetPixelsOK == ASSUME RenderOK, NEW points, SetPixels(points) PROVE RenderOK'
<1>1. PICK changed \in SUBSET (points \cap Screen) : \E same \in SUBSET (changed \cap stale) :
        stale' = (stale \cup changed) \ same /\ dirtyRect' = Merge(Around(changed), dirtyRect)
  BY DEF SetPixels
<1> QED
  BY <1>1, Drawn

\* fillRect(): a rectangle anywhere.
LEMMA FillRectOK == ASSUME RenderOK, NEW r \in Corners, FillRect(r) PROVE RenderOK'
<1>1. PICK other \in SUBSET Pixels(Clip(r)) :
        stale' = (stale \ Pixels(Clip(r))) \cup other /\ dirtyRect' = Merge(Clip(r), dirtyRect)
  BY DEF FillRect, MarkDirty
<1>2. /\ OnScreen(dirtyRect')
      /\ Pixels(Clip(r)) \cup Pixels(dirtyRect) \subseteq Pixels(dirtyRect')
  BY <1>1, ClipKeeps, MergeCovers DEF RenderOK
<1>3. OnScreen(dirtyRect)'
  BY <1>2 DEF OnScreen
<1>4. Pixels(dirtyRect)' = Pixels(dirtyRect')
  BY DEF Pixels
<1> QED
  BY <1>1, <1>2, <1>3, <1>4 DEF RenderOK

\* drawText(): the bits of a glyph anywhere, at any scale.
LEMMA DrawTextOK ==
  ASSUME RenderOK, NEW x \in Int, NEW y \in Int, NEW bits \in SUBSET (Int \X Int),
         NEW scale \in Int, DrawText(x, y, bits, scale)
  PROVE  RenderOK'
<1>1. CASE scale = 1
  BY <1>1, SetPixelsOK DEF DrawText
<1>2. CASE scale # 1
  <2> DEFINE block(b) == <<x + b[1] * scale, y + b[2] * scale,
                           x + (b[1] + 1) * scale, y + (b[2] + 1) * scale>>
             area     == UNION {Pixels(Clip(block(b))) : b \in bits}
  <2>1. PICK other \in SUBSET area :
          stale' = (stale \ area) \cup other /\ dirtyRect' = Merge(Around(area), dirtyRect)
    BY <1>2 DEF DrawText
  <2>2. ASSUME NEW b \in bits PROVE Pixels(Clip(block(b))) \subseteq Screen
    <3>1. b[1] \in Int /\ b[2] \in Int
      OBVIOUS
    <3>2. /\ x + b[1] * scale \in Int /\ y + b[2] * scale \in Int
          /\ x + (b[1] + 1) * scale \in Int /\ y + (b[2] + 1) * scale \in Int
      BY <3>1
    <3>3. block(b) \in Corners
      BY <3>2 DEF Corners
    <3> HIDE DEF block
    <3> QED
      BY <3>3, ClipKeeps
  <2>3. area \in SUBSET Screen
    BY <2>2
  <2> HIDE DEF area
  <2> QED
    BY <2>1, <2>3, Drawn
<1> QED
  BY <1>1, <1>2

\* present(): shown pixels are no longer stale, and the rectangle of a present that
\* failed stays dirty.
LEMMA PresentOK ==
  ASSUME RenderOK, PresentNothing \/ PresentOk \/ PresentFails
  PROVE  RenderOK'
<1>1. CASE PresentNothing
  BY <1>1 DEF PresentNothing, renderVars, RenderOK, OnScreen, Pixels
<1>2. CASE PresentOk
  <2>1. stale' = {} /\ dirtyRect' = Clean
    BY <1>2 DEF PresentOk, RenderOK
  <2> QED
    BY <2>1 DEF RenderOK, OnScreen
<1>3. CASE PresentFails
  <2>1. stale' \subseteq stale /\ dirtyRect' = dirtyRect
    BY <1>3 DEF PresentFails
  <2> QED
    BY <2>1 DEF RenderOK, OnScreen, Pixels
<1> QED
  BY <1>1, <1>2, <1>3

-----------------------------------------------------------------------------
(* What the display holds, and what the CRTC shows                         *)

Scanout == {"card", "dumb", "fb", "map"}
Inputs  == {"touch", "wakefd", "thread"}

\* What the process may hold at each step; while close() has not looked for the card,
\* it may hold anything, but nothing without it.
HeldOK ==
  /\ pc \in Opening \cup Closing \cup {"off", "open"}
  /\ held \subseteq Scanout \cup Inputs
  /\ pc \in {"off", "card"} => held = {}
  /\ pc \in Opening \ {"card"} => held \cap Inputs = {}
  /\ "card" \notin held => held = {}
  /\ pc \in {"choose", "save", "create", "addfb", "map", "set", "input", "open", "restore"}
       => "card" \in held
  /\ pc = "inputs" => "thread" \notin held
  /\ pc = "restore" => held \subseteq {"card", "dumb", "fb", "map"}
  /\ pc = "unmap" => held \subseteq {"card", "dumb", "fb", "map"}
  /\ pc = "rmfb" => held \subseteq {"card", "dumb", "fb"}
  /\ pc = "destroy" => held \subseteq {"card", "dumb"}
  /\ pc = "cardclose" => held \subseteq {"card"}

\* Our framebuffer is shown only between SETCRTC and the end of close(); until it is
\* handed back, what was there before is known, if the driver told it.
Shown ==
  /\ before \in {"none", "console", "server"} /\ crtc \in {"none", "console", "server", "ours"}
  /\ savedCrtc \in {"nothing", "none", "console", "server"}
  /\ pc \in {"card", "choose", "save"} => before = "none"
  /\ crtc = "ours" => pc \in Closing \cup {"input", "open"} /\ "card" \in held
  /\ crtc = "ours" /\ before # "none" =>
       /\ pc \in {"input", "open", "wake", "join", "inputs", "restore"}
       /\ selected /\ savedCrtc = before
  /\ pc \in {"create", "addfb", "map", "set"} /\ before # "none" => savedCrtc = before
  /\ before # "none" => crtc # "none"

DisplayInv == HeldOK /\ Shown

-----------------------------------------------------------------------------
LEMMA InitInv == Init => DisplayInv
  BY DEF Init, DisplayInv, HeldOK, Shown, Opening, Closing, Scanout

\* Steps of the finger, the renderer and a reader touch none of it.
LEMMA QuietInv ==
  ASSUME DisplayInv, UNCHANGED <<pc, held, kmsVars>>
  PROVE  DisplayInv'
  BY DEF DisplayInv, HeldOK, Shown, kmsVars

LEMMA QuietSteps ==
  ASSUME Finger \/ Draw \/ Present \/ Read \/ Handle
  PROVE  UNCHANGED <<pc, held, kmsVars>>
  BY DEF Finger, FingerDown, FingerMove, FingerUp, Emit, Draw, Present, Read, Handle

\* A display server changes what is shown only when nobody is master.
LEMMA ServerInv == ASSUME DisplayInv, ServerStarts \/ ServerStops PROVE DisplayInv'
<1>1. UNCHANGED <<pc, held, savedCrtc, selected, before>> /\ crtc' \in {"server", "console"}
  BY DEF ServerStarts, ServerStops
<1> QED
  BY <1>1 DEF DisplayInv, HeldOK, Shown

\* open(): each step has taken what the steps before it took.
LEMMA OpenInv ==
  ASSUME DisplayInv,
         Open \/ OpenCard \/ Choose \/ SaveCrtc \/ CreateDumb \/ AddFb \/ MapDumb \/ SetCrtc
  PROVE  DisplayInv'
<1>1. CASE Open
  BY <1>1 DEF DisplayInv, HeldOK, Shown, Open, Go, Opening, Closing
<1>2. CASE OpenCard
  BY <1>2 DEF DisplayInv, HeldOK, Shown, OpenCard, Go, Opening, Closing, Scanout, Inputs
<1>3. CASE Choose
  BY <1>3 DEF DisplayInv, HeldOK, Shown, Choose, Go, Opening, Closing, kmsVars
<1>4. CASE SaveCrtc
  <2>1. /\ pc = "save" /\ pc' = "create" /\ UNCHANGED <<held, selected, crtc>>
        /\ \/ savedCrtc' = crtc /\ before' = crtc
           \/ UNCHANGED <<savedCrtc, before>>
    BY <1>4 DEF SaveCrtc, Go
  <2>2. crtc # "ours" /\ before = "none"
    BY <2>1 DEF DisplayInv, Shown, Closing
  <2>3. HeldOK'
    BY <2>1 DEF DisplayInv, HeldOK, Opening, Closing
  <2>4. Shown'
    BY <2>1, <2>2 DEF DisplayInv, Shown, Closing
  <2> QED
    BY <2>3, <2>4 DEF DisplayInv
<1>5. CASE CreateDumb \/ AddFb \/ MapDumb
  BY <1>5 DEF DisplayInv, HeldOK, Shown, CreateDumb, AddFb, MapDumb, Allocate, Go, Opening, Closing,
              Scanout, Inputs, kmsVars
<1>6. CASE SetCrtc
  BY <1>6 DEF DisplayInv, HeldOK, Shown, SetCrtc, Go, Opening, Closing
<1> QED
  BY <1>1, <1>2, <1>3, <1>4, <1>5, <1>6

\* Every failure of open() goes the way of close().
LEMMA FailsInv == ASSUME DisplayInv, Fails PROVE DisplayInv'
  BY DEF DisplayInv, HeldOK, Shown, Fails, Opening, Closing

LEMMA StartInputInv == ASSUME DisplayInv, StartInput PROVE DisplayInv'
<1>1. PICK found \in {{}, {"touch"}, {"touch", "wakefd", "thread"}} : held' = held \cup found
  BY DEF StartInput
<1>2. pc = "input" /\ pc' = "open" /\ UNCHANGED <<savedCrtc, selected, crtc, before>>
  BY DEF StartInput, Go, kmsVars
<1>3. HeldOK'
  BY <1>1, <1>2 DEF DisplayInv, HeldOK, Inputs, Scanout, Opening, Closing
<1>4. Shown'
  BY <1>1, <1>2 DEF DisplayInv, HeldOK, Shown, Closing
<1> QED
  BY <1>3, <1>4 DEF DisplayInv

\* close(): the CRTC is handed back before the framebuffer goes.
LEMMA CloseInv ==
  ASSUME DisplayInv, Close \/ CloseSteps
  PROVE  DisplayInv'
<1>1. CASE Close \/ WriteWake \/ Join
  BY <1>1 DEF DisplayInv, HeldOK, Shown, Close, WriteWake, Join, Go, Opening, Closing, kmsVars
<1>2. CASE CloseInputs
  <2>1. /\ pc = "inputs" /\ pc' = IF "card" \in held THEN "restore" ELSE "off"
        /\ held' = held \ {"touch", "wakefd"}
        /\ UNCHANGED <<savedCrtc, selected, crtc, before>>
    BY <1>2 DEF CloseInputs, Go, kmsVars
  <2>2. HeldOK'
    BY <2>1 DEF DisplayInv, HeldOK, Opening, Closing, Scanout, Inputs
  <2>3. Shown'
    BY <2>1 DEF DisplayInv, HeldOK, Shown, Opening, Closing
  <2> QED
    BY <2>2, <2>3 DEF DisplayInv
<1>3. CASE RestoreCrtc
  <2>1. /\ pc = "restore" /\ pc' = "unmap" /\ UNCHANGED <<held, selected>>
        /\ \/ PutsBack /\ crtc' = savedCrtc /\ before' = before
           \/ crtc' = crtc /\ before' = "none"
           \/ ~ PutsBack /\ crtc' = crtc /\ before' = before
        /\ savedCrtc' = "nothing"
    BY <1>3 DEF RestoreCrtc, Go
  <2>2. HeldOK'
    BY <2>1 DEF DisplayInv, HeldOK, Opening, Closing
  <2>3. Shown'
    <3>1. crtc' = "ours" => crtc = "ours" /\ before' = "none"
      BY <2>1 DEF DisplayInv, Shown, PutsBack
    <3> QED
      BY <2>1, <3>1 DEF DisplayInv, Shown, Closing, PutsBack
  <2> QED
    BY <2>2, <2>3 DEF DisplayInv
<1>4. CASE Unmap \/ RmFb \/ Destroy
  BY <1>4 DEF DisplayInv, HeldOK, Shown, Unmap, RmFb, Destroy, Release, Go, Opening, Closing, Scanout
<1>5. CASE CloseCard
  BY <1>5 DEF DisplayInv, HeldOK, Shown, CloseCard, Go, Opening, Closing
<1> QED
  BY <1>1, <1>2, <1>3, <1>4, <1>5 DEF CloseSteps

LEMMA ThreadEndsInv == ASSUME DisplayInv, ThreadEnds PROVE DisplayInv'
  BY DEF DisplayInv, HeldOK, Shown, ThreadEnds, kmsVars, Scanout, Inputs

LEMMA NextInv == DisplayInv /\ [Next]_vars => DisplayInv'
<1> SUFFICES ASSUME DisplayInv, [Next]_vars PROVE DisplayInv'
  OBVIOUS
<1>1. CASE Finger \/ Draw \/ Present \/ Read \/ Handle
  BY <1>1, QuietSteps, QuietInv
<1>2. CASE UNCHANGED vars
  BY <1>2, QuietInv DEF vars
<1> QED
  BY <1>1, <1>2, ServerInv, OpenInv, FailsInv, StartInputInv, CloseInv, ThreadEndsInv
     DEF Next, Main, InputThread

\* In every state: what is held fits the step main() is at, and the CRTC shows our
\* framebuffer only while what to put back is known.
THEOREM Invariance == Spec => []DisplayInv
  BY InitInv, NextInv, PTL DEF Spec

\* After close(), or an open() that failed at any of its steps, nothing stays allocated,
\* mapped or open and no thread runs.
THEOREM NothingStays == Spec => []NothingLeft
<1>1. DisplayInv => NothingLeft
  BY DEF DisplayInv, HeldOK, NothingLeft
<1> QED
  BY Invariance, <1>1, PTL

\* When the driver told what a console or a display server showed and takes it back, no
\* step turns the CRTC off, however far open() came.
THEOREM PanelStaysLit == Spec => NeverDark
<1>1. DisplayInv /\ DisplayInv' /\ [Next]_vars => [before # "none" => crtc' # "none"]_vars
  <2> SUFFICES ASSUME DisplayInv, DisplayInv', Next, before # "none" PROVE crtc' # "none"
    OBVIOUS
  <2>1. CASE Open
    BY <2>1 DEF Open, DisplayInv, Shown
  <2>2. CASE ~Open /\ ~SaveCrtc /\ ~RestoreCrtc
    <3>1. before' = before
      BY <2>2 DEF Next, Main, InputThread, ServerStarts, ServerStops, Finger, FingerDown, FingerMove,
                  FingerUp, Emit, OpenCard, Choose, CreateDumb, AddFb, MapDumb, Allocate, SetCrtc,
                  Fails, StartInput, Draw, Present, Close, CloseSteps, WriteWake, Join, CloseInputs,
                  Unmap, RmFb, Destroy, Release, CloseCard, ThreadEnds, Read, Handle, kmsVars
    <3> QED
      BY <3>1 DEF DisplayInv, Shown
  <2>3. CASE SaveCrtc
    BY <2>3 DEF SaveCrtc, DisplayInv, Shown
  <2>4. CASE RestoreCrtc
    BY <2>4 DEF RestoreCrtc, PutsBack, DisplayInv, Shown
  <2> QED
    BY <2>1, <2>2, <2>3, <2>4
<1> QED
  BY Invariance, <1>1, PTL DEF Spec, NeverDark

-----------------------------------------------------------------------------
(* The touch axis                                                          *)

\* Quotients, for the arithmetic of scaleAxis().
LEMMA Quotient ==
  ASSUME NEW n \in Nat, NEW c \in Nat \ {0}
  PROVE  n \div c \in Nat /\ (n \div c) * c <= n /\ n < (n \div c) * c + c
  BY SMT

LEMMA Quotients ==
  ASSUME NEW p \in Nat, NEW q \in Nat, NEW c \in Nat \ {0}, p * c < q * c + c
  PROVE  p <= q
  BY SMT

LEMMA Products ==
  ASSUME NEW a \in Nat, NEW b \in Nat, NEW c \in Nat, a <= b
  PROVE  a * c \in Nat /\ b * c \in Nat /\ a * c <= b * c
  BY SMT

\* Quotients are in the order of what is divided.
LEMMA QuotientOrder ==
  ASSUME NEW m \in Nat, NEW n \in Nat, NEW c \in Nat \ {0}, m <= n
  PROVE  m \div c <= n \div c
<1> DEFINE p == m \div c
           q == n \div c
<1>1. p \in Nat /\ q \in Nat /\ p * c <= m /\ n < q * c + c
  BY Quotient
<1> HIDE DEF p, q
<1>2. p * c \in Nat /\ q * c \in Nat
  BY <1>1, Products
<1>3. p * c < q * c + c
  BY <1>1, <1>2
<1>4. p <= q
  BY <1>1, <1>3, Quotients
<1> QED
  BY <1>4 DEF p, q

LEMMA QuotientExact ==
  ASSUME NEW b \in Nat, NEW c \in Nat \ {0}
  PROVE  (c * b) \div c = b /\ 0 \div c = 0 /\ 0 * b = 0
  BY SMT

\* A reading is brought inside the axis before it is scaled.
LEMMA ScaleIs ==
  ASSUME NEW v \in Int, NEW min \in Int, NEW max \in Int, NEW size \in Nat \ {0}, min < max
  PROVE  LET inside == IF v <= min THEN min ELSE IF v >= max THEN max ELSE v
         IN  /\ inside - min \in 0 .. max - min
             /\ ScaleAxis(v, min, max, size)
                  = ((inside - min) * (size - 1)) \div (max - min)
<1>1. Min({v, max}) = IF v <= max THEN v ELSE max
  BY OfTwo
<1>2. Min({v, max}) \in Int
  BY <1>1
<1>3. Max({min, Min({v, max})}) = IF min >= Min({v, max}) THEN min ELSE Min({v, max})
  BY <1>2, OfTwo
<1> DEFINE inside == IF v <= min THEN min ELSE IF v >= max THEN max ELSE v
<1>4. Max({min, Min({v, max})}) = inside
  BY <1>1, <1>3
<1>5. size # 0 /\ ~(max <= min)
  OBVIOUS
<1>6. ScaleAxis(v, min, max, size)
        = ((Max({min, Min({v, max})}) - min) * (size - 1)) \div (max - min)
  BY <1>5 DEF ScaleAxis
<1>7. inside - min \in 0 .. max - min
  OBVIOUS
<1> QED
  BY <1>4, <1>6, <1>7

\* scaleAxis() never leaves the panel, reaches both its ends, and keeps the order of
\* the readings: for every axis the kernel may report and every size of the panel.
THEOREM AxisScaled ==
  ASSUME NEW min \in Int, NEW max \in Int, NEW size \in Nat \ {0}, min < max
  PROVE  AxisRight(min, max, size)
<1> DEFINE In(v) == IF v <= min THEN min ELSE IF v >= max THEN max ELSE v
           c == max - min
           S(v) == ScaleAxis(v, min, max, size)
<1>1. c \in Nat \ {0} /\ size - 1 \in Nat
  OBVIOUS
<1>2. ASSUME NEW v \in Int
      PROVE  /\ In(v) - min \in Nat /\ In(v) - min <= c
             /\ S(v) = ((In(v) - min) * (size - 1)) \div c
  BY ScaleIs
<1>3. In(min) - min = 0 /\ In(max) - min = c
  OBVIOUS
<1>4. ASSUME NEW v \in Int PROVE In(v) - min <= In(v + 1) - min
  OBVIOUS
<1> HIDE DEF In, c, S
<1>5. S(min) = 0 /\ S(max) = size - 1
  <2>1. S(min) = (0 * (size - 1)) \div c /\ S(max) = (c * (size - 1)) \div c
    BY <1>2, <1>3
  <2> QED
    BY <1>1, <2>1, QuotientExact
<1>6. ASSUME NEW v \in Int PROVE S(v) \in 0 .. size - 1
  <2>1. /\ (In(v) - min) * (size - 1) \in Nat /\ c * (size - 1) \in Nat
        /\ (In(v) - min) * (size - 1) <= c * (size - 1)
    BY <1>1, <1>2, Products
  <2>2. S(v) \in Nat /\ S(v) <= (c * (size - 1)) \div c
    BY <1>1, <1>2, <2>1, Quotient, QuotientOrder
  <2> QED
    BY <1>1, <2>2, QuotientExact
<1>7. ASSUME NEW v \in Int PROVE S(v) <= S(v + 1)
  <2>1. v + 1 \in Int
    OBVIOUS
  <2>2. /\ (In(v) - min) * (size - 1) \in Nat /\ (In(v + 1) - min) * (size - 1) \in Nat
        /\ (In(v) - min) * (size - 1) <= (In(v + 1) - min) * (size - 1)
    BY <1>1, <1>2, <1>4, <2>1, Products
  <2> QED
    BY <1>1, <1>2, <2>1, <2>2, QuotientOrder
<1>8. \A v \in min - 2 .. max + 1 : v \in Int
  OBVIOUS
<1> QED
  BY <1>5, <1>6, <1>7, <1>8 DEF AxisRight, S

\* A reading gives a column of the panel.
LEMMA ScaleRange ==
  ASSUME NEW v \in Int
  PROVE  ScaleAxis(v, RawMin, RawMax, Width) \in 0 .. Width - 1
<1>1. /\ RawMin \in Int /\ RawMax \in Int /\ RawMin < RawMax /\ Width \in Nat \ {0}
  BY DrmAssumption, RendererAssumption
<1> DEFINE In == IF v <= RawMin THEN RawMin ELSE IF v >= RawMax THEN RawMax ELSE v
<1>2. In - RawMin \in 0 .. RawMax - RawMin
  BY <1>1
<1>3. ScaleAxis(v, RawMin, RawMax, Width)
        = ((In - RawMin) * (Width - 1)) \div (RawMax - RawMin)
  BY <1>1, ScaleIs
<1>4. /\ In - RawMin \in Nat /\ RawMax - RawMin \in Nat \ {0} /\ Width - 1 \in Nat
      /\ In - RawMin <= RawMax - RawMin
  BY <1>1, <1>2
<1> DEFINE a == In - RawMin
           c == RawMax - RawMin
           b == Width - 1
<1> HIDE DEF In
<1>5. a \in Nat /\ c \in Nat \ {0} /\ b \in Nat /\ a <= c
  BY <1>4
<1>6. ScaleAxis(v, RawMin, RawMax, Width) = (a * b) \div c
  BY <1>3
<1> HIDE DEF a, b, c
<1>7. a * b \in Nat /\ c * b \in Nat /\ a * b <= c * b
  BY <1>5, Products
<1>8. (a * b) \div c \in Nat /\ (a * b) \div c <= (c * b) \div c
  BY <1>5, <1>7, Quotient, QuotientOrder
<1>9. (a * b) \div c \in 0 .. b
  BY <1>5, <1>8, QuotientExact
<1> QED
  BY <1>6, <1>9 DEF b

\* clampRegion() gives the part of a region that is on the panel, for every region
\* and every panel.
THEOREM RegionClamped ==
  ASSUME NEW x \in Nat, NEW y \in Nat, NEW w \in Nat, NEW h \in Nat,
         NEW width \in Nat, NEW height \in Nat
  PROVE  ClampRight(Region(x, y, w, h), width, height)
<1> DEFINE r == Region(x, y, w, h)
           c == ClampRegion(r, width, height)
<1>1. r.x = x /\ r.y = y /\ r.w = w /\ r.h = h
  BY DEF Region
<1>2. RegionPixels(r) = (x .. x + w - 1) \X (y .. y + h - 1)
  BY <1>1 DEF RegionPixels
<1>3. RegionPixels(Region(0, 0, width, height)) = (0 .. width - 1) \X (0 .. height - 1)
  BY DEF RegionPixels, Region
<1>4. CASE x >= width \/ y >= height
  <2>1. c = Region(0, 0, 0, 0)
    BY <1>1, <1>4 DEF ClampRegion
  <2>2. RegionPixels(c) = {}
    BY <2>1 DEF RegionPixels, Region
  <2>3. RegionPixels(r) \cap RegionPixels(Region(0, 0, width, height)) = {}
    BY <1>2, <1>3, <1>4
  <2> QED
    BY <2>2, <2>3 DEF ClampRight
<1>5. CASE ~(x >= width \/ y >= height)
  <2>1. c = Region(x, y, Min({w, width - x}), Min({h, height - y}))
    BY <1>1, <1>5 DEF ClampRegion
  <2>2. Min({w, width - x}) = IF w <= width - x THEN w ELSE width - x
    BY OfTwo
  <2>3. Min({h, height - y}) = IF h <= height - y THEN h ELSE height - y
    BY OfTwo
  <2>4. RegionPixels(c) = (x .. x + Min({w, width - x}) - 1) \X (y .. y + Min({h, height - y}) - 1)
    <3>1. ASSUME NEW a, NEW b
          PROVE  RegionPixels(Region(x, y, a, b)) = (x .. x + a - 1) \X (y .. y + b - 1)
      BY DEF RegionPixels, Region
    <3> QED
      BY <2>1, <3>1
  <2>5. x .. x + Min({w, width - x}) - 1 = (x .. x + w - 1) \cap (0 .. width - 1)
    BY <1>5, <2>2
  <2>6. y .. y + Min({h, height - y}) - 1 = (y .. y + h - 1) \cap (0 .. height - 1)
    BY <1>5, <2>3
  <2>7. \A A, B, C, D : (A \X B) \cap (C \X D) = (A \cap C) \X (B \cap D)
    OBVIOUS
  <2>8. RegionPixels(c) = ((x .. x + w - 1) \cap (0 .. width - 1))
                            \X ((y .. y + h - 1) \cap (0 .. height - 1))
    BY <2>4, <2>5, <2>6
  <2> QED
    BY <1>2, <1>3, <2>7, <2>8, Zenon DEF ClampRight
<1> QED
  BY <1>4, <1>5

-----------------------------------------------------------------------------
(* The input thread                                                        *)

Packets == [key : {"down", "up", Same}, x : {{}} \cup {{r} : r \in Readings},
            dropped : BOOLEAN]

\* The packets that wait, in the kernel or in the thread's hands, oldest first.
Waiting == batch \o queue

\* Packet i of w is the last that tells whether the finger is down, and nothing was
\* dropped after it; or none tells it and nothing was dropped.
KeyLast(w, i) == /\ w[i].key # Same
                 /\ \A j \in i + 1 .. Len(w) : w[j].key = Same /\ ~w[j].dropped
NoKey(w)      == \A j \in 1 .. Len(w) : w[j].key = Same /\ ~w[j].dropped

\* What the thread knows and what is under way agree with the finger.
ContactOK(w, l, f) ==
  /\ \A i \in 1 .. Len(w) : KeyLast(w, i) => f = (w[i].key = "down")
  /\ NoKey(w) /\ "contact" \notin l.doubt => l.touching = f

\* The same of the axis.
PlaceLast(w, i) == /\ w[i].x # {}
                   /\ \A j \in i + 1 .. Len(w) : w[j].x = {} /\ ~w[j].dropped
NoPlace(w)      == \A j \in 1 .. Len(w) : w[j].x = {} /\ ~w[j].dropped

PlaceOK(w, l, d) ==
  /\ \A i \in 1 .. Len(w) : PlaceLast(w, i) => w[i].x = {d}
  /\ NoPlace(w) /\ "place" \notin l.doubt => l.raw = d

\* The program was told the finger as the thread last saw it.
LoopGood(l) ==
  /\ l.touching \in BOOLEAN /\ l.wasTouching = l.touching /\ l.contact = l.touching
  /\ l.raw \in Readings \cup {0} /\ l.doubt \subseteq Unknown
  /\ l.last \in 0 .. Width - 1 /\ l.tip \in 0 .. Width - 1
  /\ l.contact => l.tip = ScaleAxis(l.raw, RawMin, RawMax, Width) /\ l.last = l.tip

InputOK ==
  /\ finger \in BOOLEAN /\ device \in Readings
  /\ queue \in Seq(Packets) /\ batch \in Seq(Packets) /\ Len(queue) <= QueueLen
  /\ "touch" \notin held => queue = <<>> /\ loop = Fresh
  /\ "thread" \in held => "touch" \in held
  /\ "thread" \notin held => batch = <<>>

InputInv == /\ InputOK /\ LoopGood(loop)
            /\ ContactOK(Waiting, loop, finger) /\ PlaceOK(Waiting, loop, device)

\* What a packet is made of.
LEMMA PacketFields ==
  /\ \A k \in {"down", "up", Same}, x \in {{}} \cup {{r} : r \in Readings}, d \in BOOLEAN :
       [key |-> k, x |-> x, dropped |-> d] \in Packets
  /\ \A p \in Packets : /\ p.key \in {"down", "up", Same} /\ p.dropped \in BOOLEAN
                        /\ p.x = {} \/ \E r \in Readings : p.x = {r}
  BY DEF Packets

\* Nothing waits and nothing is known: any finger will do.
LEMMA FreshKnows ==
  ASSUME NEW f, NEW d
  PROVE  LoopGood(Fresh) /\ ContactOK(<<>>, Fresh, f) /\ PlaceOK(<<>>, Fresh, d)
<1>1. LoopGood(Fresh)
  BY RendererAssumption DEF LoopGood, Fresh
<1>2. "contact" \in Fresh.doubt /\ "place" \in Fresh.doubt
  BY DEF Fresh, Unknown
<1>3. Len(<<>>) = 0
  OBVIOUS
<1> QED
  BY <1>1, <1>2, <1>3 DEF ContactOK, PlaceOK

\* A packet that tells what has changed, or that says something was dropped, keeps
\* what is under way true.
LEMMA ContactSent ==
  ASSUME NEW w \in Seq(Packets), NEW p \in Packets, NEW l, NEW f, NEW g,
         ~p.dropped => ContactOK(w, l, f) /\ (p.key = Same => g = f),
         p.key # Same => g = (p.key = "down")
  PROVE  ContactOK(Append(w, p), l, g)
<1> DEFINE v == Append(w, p)
           n == Len(w)
<1>1. /\ n \in Nat /\ Len(v) = n + 1 /\ v[n + 1] = p
      /\ \A i \in 1 .. n : v[i] = w[i]
  BY AppendProperties
<1> HIDE DEF v, n
<1>2. n + 1 \in 1 .. Len(v)
  BY <1>1
<1>3. ASSUME NEW i \in 1 .. Len(v), KeyLast(v, i) PROVE g = (v[i].key = "down")
  <2>1. CASE i = n + 1
    BY <1>1, <1>3, <2>1 DEF KeyLast
  <2>2. CASE i \in 1 .. n
    <3>1. n + 1 \in i + 1 .. Len(v)
      BY <1>1, <2>2
    <3>2. p.key = Same /\ ~p.dropped
      BY <1>1, <1>3, <3>1 DEF KeyLast
    <3>3. \A j \in i + 1 .. n : j \in i + 1 .. Len(v) /\ v[j] = w[j]
      BY <1>1, <2>2
    <3>4. KeyLast(w, i) /\ v[i] = w[i]
      BY <1>1, <1>3, <2>2, <3>3 DEF KeyLast, n
    <3> QED
      BY <2>2, <3>2, <3>4 DEF ContactOK, n
  <2> QED
    BY <1>1, <2>1, <2>2
<1>4. ASSUME NoKey(v), "contact" \notin l.doubt PROVE l.touching = g
  <2>1. p.key = Same /\ ~p.dropped
    BY <1>1, <1>2, <1>4 DEF NoKey
  <2>2. \A j \in 1 .. n : j \in 1 .. Len(v) /\ v[j] = w[j]
    BY <1>1
  <2>3. NoKey(w)
    BY <1>4, <2>2 DEF NoKey, n
  <2> QED
    BY <1>4, <2>1, <2>3 DEF ContactOK
<1> QED
  BY <1>3, <1>4 DEF ContactOK, v

LEMMA PlaceSent ==
  ASSUME NEW w \in Seq(Packets), NEW p \in Packets, NEW l, NEW d, NEW e,
         ~p.dropped => PlaceOK(w, l, d) /\ (p.x = {} => e = d),
         p.x # {} => p.x = {e}
  PROVE  PlaceOK(Append(w, p), l, e)
<1> DEFINE v == Append(w, p)
           n == Len(w)
<1>1. /\ n \in Nat /\ Len(v) = n + 1 /\ v[n + 1] = p
      /\ \A i \in 1 .. n : v[i] = w[i]
  BY AppendProperties
<1> HIDE DEF v, n
<1>2. n + 1 \in 1 .. Len(v)
  BY <1>1
<1>3. ASSUME NEW i \in 1 .. Len(v), PlaceLast(v, i) PROVE v[i].x = {e}
  <2>1. CASE i = n + 1
    BY <1>1, <1>3, <2>1 DEF PlaceLast
  <2>2. CASE i \in 1 .. n
    <3>1. n + 1 \in i + 1 .. Len(v)
      BY <1>1, <2>2
    <3>2. p.x = {} /\ ~p.dropped
      BY <1>1, <1>3, <3>1 DEF PlaceLast
    <3>3. \A j \in i + 1 .. n : j \in i + 1 .. Len(v) /\ v[j] = w[j]
      BY <1>1, <2>2
    <3>4. PlaceLast(w, i) /\ v[i] = w[i]
      BY <1>1, <1>3, <2>2, <3>3 DEF PlaceLast, n
    <3> QED
      BY <2>2, <3>2, <3>4 DEF PlaceOK, n
  <2> QED
    BY <1>1, <2>1, <2>2
<1>4. ASSUME NoPlace(v), "place" \notin l.doubt PROVE l.raw = e
  <2>1. p.x = {} /\ ~p.dropped
    BY <1>1, <1>2, <1>4 DEF NoPlace
  <2>2. \A j \in 1 .. n : j \in 1 .. Len(v) /\ v[j] = w[j]
    BY <1>1
  <2>3. NoPlace(w)
    BY <1>4, <2>2 DEF NoPlace, n
  <2> QED
    BY <1>4, <2>1, <2>3 DEF PlaceOK
<1> QED
  BY <1>3, <1>4 DEF PlaceOK, v

\* A packet with a position: the thread takes it over.
LEMMA ReportPlace ==
  ASSUME NEW l, NEW p \in Packets, NEW r, p.x = {r}
  PROVE  r \in Readings /\ Report(l, p).raw = r
<1>1. r \in Readings
  BY PacketFields
<1>2. {r} = {r, r} /\ r \in Int
  BY <1>1, DrmAssumption
<1>3. Max({r, r}) = r
  BY <1>2, OfTwo
<1>4. Max(p.x) = r /\ p.x # {}
  BY <1>2, <1>3
<1>5. Report(l, p).raw = IF p.x = {} THEN l.raw ELSE Max(p.x)
  BY DEF Report
<1> QED
  BY <1>1, <1>4, <1>5

\* The report of a packet, field by field.
LEMMA ReportIs ==
  ASSUME NEW l, LoopGood(l), NEW p \in Packets
  PROVE  LET m == Report(l, p)
         IN  /\ p.key = Same => m.touching = l.touching
             /\ p.key # Same => m.touching = (p.key = "down")
             /\ p.x = {} => m.raw = l.raw
             /\ "contact" \notin m.doubt /\ p.key = Same => ~p.dropped /\ "contact" \notin l.doubt
             /\ "place" \notin m.doubt /\ p.x = {} => ~p.dropped /\ "place" \notin l.doubt
             /\ LoopGood(m)
<1> DEFINE m    == Report(l, p)
           now  == IF p.key = Same THEN l.touching ELSE p.key = "down"
           val  == IF p.x = {} THEN l.raw ELSE Max(p.x)
           x    == ScaleAxis(val, RawMin, RawMax, Width)
           down == now /\ ~ l.wasTouching
           move == now /\ l.wasTouching /\ x # l.last
           up   == ~ now /\ l.wasTouching
<1>1. ASSUME NEW r, p.x = {r} PROVE r \in Readings /\ val = r
  <2>1. m.raw = val
    BY DEF Report
  <2> QED
    BY <1>1, <2>1, ReportPlace
<1>2. val \in Readings \cup {0}
  <2>1. CASE p.x = {}
    BY <2>1 DEF LoopGood
  <2>2. CASE p.x # {}
    BY <1>1, <2>2, PacketFields
  <2> QED
    BY <2>1, <2>2
<1>3. x \in 0 .. Width - 1
  <2> HIDE DEF val
  <2>1. val \in Int
    BY <1>2, DrmAssumption
  <2> QED
    BY <2>1, ScaleRange
<1>4. now \in BOOLEAN
  BY DEF LoopGood
<1>5. /\ m.raw = val /\ m.touching = now /\ m.wasTouching = now
      /\ m.contact = ((l.contact \/ down) /\ ~ up)
      /\ m.last = IF now THEN x ELSE l.last
      /\ m.tip = IF down \/ move THEN x ELSE IF up THEN l.last ELSE l.tip
  BY DEF Report, NextLast
<1>6. m.doubt = (IF p.dropped THEN Unknown ELSE l.doubt)
                  \ ((IF p.key = Same THEN {} ELSE {"contact"})
                     \cup (IF p.x = {} THEN {} ELSE {"place"}))
  BY DEF Report
<1> HIDE DEF m, val, x
<1>7. /\ "contact" \notin m.doubt /\ p.key = Same => ~p.dropped /\ "contact" \notin l.doubt
      /\ "place" \notin m.doubt /\ p.x = {} => ~p.dropped /\ "place" \notin l.doubt
      /\ m.doubt \subseteq Unknown
  BY <1>6 DEF LoopGood, Unknown
<1>8. LoopGood(m)
  <2>1. l.contact = l.touching /\ l.wasTouching = l.touching /\ l.touching \in BOOLEAN
    BY DEF LoopGood
  <2>2. m.touching \in BOOLEAN /\ m.wasTouching = m.touching /\ m.contact = m.touching
    BY <1>4, <1>5, <2>1
  <2>3. m.last \in 0 .. Width - 1 /\ m.tip \in 0 .. Width - 1
    BY <1>3, <1>5 DEF LoopGood
  <2>4. m.contact => m.tip = x /\ m.last = x
    <3> SUFFICES ASSUME m.contact PROVE m.tip = x /\ m.last = x
      OBVIOUS
    <3>1. now /\ m.last = x
      BY <1>5, <2>2
    <3>2. CASE ~l.wasTouching
      BY <1>5, <3>1, <3>2
    <3>3. CASE l.wasTouching
      <4>1. l.last = l.tip
        BY <2>1, <3>3 DEF LoopGood
      <4> QED
        BY <1>5, <3>1, <3>3, <4>1
    <3> QED
      BY <2>1, <3>2, <3>3
  <2> QED
    BY <1>2, <1>5, <1>7, <2>2, <2>3, <2>4 DEF LoopGood, x
<1>9. p.x = {} => m.raw = l.raw
  BY <1>5 DEF val
<1> QED
  BY <1>1, <1>5, <1>7, <1>8, <1>9 DEF m

\* Handling the oldest packet keeps what is known and what is under way true.
LEMMA ContactHandled ==
  ASSUME NEW w \in Seq(Packets), w # <<>>, NEW l, LoopGood(l), NEW f, ContactOK(w, l, f)
  PROVE  ContactOK(Tail(w), Report(l, Head(w)), f)
<1> DEFINE v == Tail(w)
           p == Head(w)
           m == Report(l, p)
<1>1. /\ p \in Packets /\ p = w[1] /\ Len(w) \in Nat /\ Len(w) >= 1 /\ Len(v) = Len(w) - 1
      /\ \A i \in 1 .. Len(v) : v[i] = w[i + 1]
  BY HeadTailProperties, EmptySeq, LenProperties
<1>2. /\ p.key = Same => m.touching = l.touching
      /\ p.key # Same => m.touching = (p.key = "down")
      /\ "contact" \notin m.doubt /\ p.key = Same => ~p.dropped /\ "contact" \notin l.doubt
  BY <1>1, ReportIs
<1> HIDE DEF v, p, m
<1>3. ASSUME NEW i \in 1 .. Len(v), KeyLast(v, i) PROVE f = (v[i].key = "down")
  <2>1. i + 1 \in 1 .. Len(w) /\ v[i] = w[i + 1]
    BY <1>1
  <2>2. ASSUME NEW j \in i + 2 .. Len(w) PROVE w[j].key = Same /\ ~w[j].dropped
    <3>1. j - 1 \in i + 1 .. Len(v) /\ v[j - 1] = w[j]
      BY <1>1
    <3> QED
      BY <1>3, <3>1 DEF KeyLast
  <2>3. KeyLast(w, i + 1)
    BY <1>3, <2>1, <2>2 DEF KeyLast
  <2> QED
    BY <2>1, <2>3 DEF ContactOK
<1>4. ASSUME NoKey(v), "contact" \notin m.doubt PROVE m.touching = f
  <2>1. ASSUME NEW j \in 2 .. Len(w) PROVE w[j].key = Same /\ ~w[j].dropped
    <3>1. j - 1 \in 1 .. Len(v) /\ v[j - 1] = w[j]
      BY <1>1
    <3> QED
      BY <1>4, <3>1 DEF NoKey
  <2>2. CASE p.key = Same
    <3>1. NoKey(w)
      BY <1>1, <1>2, <1>4, <2>1, <2>2 DEF NoKey
    <3> QED
      BY <1>2, <1>4, <2>2, <3>1 DEF ContactOK
  <2>3. CASE p.key # Same
    <3>1. 1 \in 1 .. Len(w) /\ KeyLast(w, 1)
      BY <1>1, <2>1, <2>3 DEF KeyLast
    <3> QED
      BY <1>1, <1>2, <2>3, <3>1 DEF ContactOK
  <2> QED
    BY <2>2, <2>3
<1> QED
  BY <1>3, <1>4 DEF ContactOK, v, m, p

LEMMA PlaceHandled ==
  ASSUME NEW w \in Seq(Packets), w # <<>>, NEW l, LoopGood(l), NEW d, PlaceOK(w, l, d)
  PROVE  PlaceOK(Tail(w), Report(l, Head(w)), d)
<1> DEFINE v == Tail(w)
           p == Head(w)
           m == Report(l, p)
<1>1. /\ p \in Packets /\ p = w[1] /\ Len(w) \in Nat /\ Len(w) >= 1 /\ Len(v) = Len(w) - 1
      /\ \A i \in 1 .. Len(v) : v[i] = w[i + 1]
  BY HeadTailProperties, EmptySeq, LenProperties
<1>2. /\ p.x = {} => m.raw = l.raw
      /\ \A r : p.x = {r} => m.raw = r
      /\ "place" \notin m.doubt /\ p.x = {} => ~p.dropped /\ "place" \notin l.doubt
  <2>1. /\ p.x = {} => m.raw = l.raw
        /\ "place" \notin m.doubt /\ p.x = {} => ~p.dropped /\ "place" \notin l.doubt
    BY <1>1, ReportIs
  <2>2. ASSUME NEW r, p.x = {r} PROVE m.raw = r
    <3>1. p \in Packets
      BY <1>1
    <3> HIDE DEF p
    <3> QED
      BY <2>2, <3>1, ReportPlace, Zenon
  <2> QED
    BY <2>1, <2>2
<1> HIDE DEF v, p, m
<1>3. ASSUME NEW i \in 1 .. Len(v), PlaceLast(v, i) PROVE v[i].x = {d}
  <2>1. i + 1 \in 1 .. Len(w) /\ v[i] = w[i + 1]
    BY <1>1
  <2>2. ASSUME NEW j \in i + 2 .. Len(w) PROVE w[j].x = {} /\ ~w[j].dropped
    <3>1. j - 1 \in i + 1 .. Len(v) /\ v[j - 1] = w[j]
      BY <1>1
    <3> QED
      BY <1>3, <3>1 DEF PlaceLast
  <2>3. PlaceLast(w, i + 1)
    BY <1>3, <2>1, <2>2 DEF PlaceLast
  <2> QED
    BY <2>1, <2>3 DEF PlaceOK
<1>4. ASSUME NoPlace(v), "place" \notin m.doubt PROVE m.raw = d
  <2>1. ASSUME NEW j \in 2 .. Len(w) PROVE w[j].x = {} /\ ~w[j].dropped
    <3>1. j - 1 \in 1 .. Len(v) /\ v[j - 1] = w[j]
      BY <1>1
    <3> QED
      BY <1>4, <3>1 DEF NoPlace
  <2>2. CASE p.x = {}
    <3>1. NoPlace(w)
      BY <1>1, <1>2, <1>4, <2>1, <2>2 DEF NoPlace
    <3> QED
      BY <1>2, <1>4, <2>2, <3>1 DEF PlaceOK
  <2>3. CASE p.x # {}
    <3>1. 1 \in 1 .. Len(w) /\ PlaceLast(w, 1)
      BY <1>1, <2>1, <2>3 DEF PlaceLast
    <3> QED
      BY <1>1, <1>2, <3>1 DEF PlaceOK
  <2> QED
    BY <2>2, <2>3
<1> QED
  BY <1>3, <1>4 DEF PlaceOK, v, m, p

\* Nothing is said to the thread and it does nothing.
LEMMA InputQuiet ==
  ASSUME InputInv, UNCHANGED <<finger, device, queue, batch, loop>>,
         "touch" \in held' <=> "touch" \in held, "thread" \in held' <=> "thread" \in held
  PROVE  InputInv'
<1>1. InputOK'
  BY DEF InputInv, InputOK
<1>2. Waiting' = Waiting
  BY DEF Waiting
<1> QED
  BY <1>1, <1>2 DEF InputInv, LoopGood, ContactOK, PlaceOK, KeyLast, NoKey, PlaceLast, NoPlace

\* open(), close() and the renderer leave the input as it is, up to the steps that
\* start and end it.
LEMMA MainQuiet ==
  ASSUME InputInv,
         \/ ServerStarts \/ ServerStops \/ Open \/ OpenCard \/ Choose \/ SaveCrtc
         \/ CreateDumb \/ AddFb \/ MapDumb \/ SetCrtc \/ Fails \/ Draw \/ Present \/ Close
         \/ WriteWake \/ Join \/ RestoreCrtc \/ Unmap \/ RmFb \/ Destroy \/ CloseCard
  PROVE  InputInv'
<1>1. CASE \/ ServerStarts \/ ServerStops \/ Open \/ Choose \/ SaveCrtc \/ SetCrtc \/ Fails
           \/ Draw \/ Present \/ Close \/ WriteWake \/ Join \/ RestoreCrtc
  <2>1. UNCHANGED inputVars /\ held' = held
    BY <1>1 DEF ServerStarts, ServerStops, Open, Choose, SaveCrtc, SetCrtc, Fails, Draw,
                Present, Close, WriteWake, Join, RestoreCrtc
  <2> QED
    BY <2>1, InputQuiet DEF inputVars
<1>2. CASE OpenCard \/ CreateDumb \/ AddFb \/ MapDumb
  <2>1. UNCHANGED inputVars /\ \E what \in {"card", "dumb", "fb", "map"} : held' = held \cup {what}
    BY <1>2 DEF OpenCard, CreateDumb, AddFb, MapDumb, Allocate
  <2> QED
    BY <2>1, InputQuiet DEF inputVars
<1>3. CASE Unmap \/ RmFb \/ Destroy \/ CloseCard
  <2>1. UNCHANGED inputVars /\ \E S \in SUBSET {"card", "dumb", "fb", "map"} : held' = held \ S
    BY <1>3 DEF Unmap, RmFb, Destroy, Release, CloseCard
  <2> QED
    BY <2>1, InputQuiet DEF inputVars
<1> QED
  BY <1>1, <1>2, <1>3

\* startInput() finds an empty queue and starts from nothing.
LEMMA InputStarts ==
  ASSUME InputInv, DisplayInv, StartInput
  PROVE  InputInv'
<1>1. /\ UNCHANGED <<finger, device, queue, batch>> /\ loop' = Fresh
      /\ \E found \in {{}, {"touch"}, {"touch", "wakefd", "thread"}} : held' = held \cup found
      /\ pc = "input"
  BY DEF StartInput, Go
<1>2. "touch" \notin held /\ "thread" \notin held
  BY <1>1 DEF DisplayInv, HeldOK, Inputs, Opening
<1>3. queue = <<>> /\ batch = <<>>
  BY <1>2 DEF InputInv, InputOK
<1>4. "thread" \in held' => "touch" \in held'
  BY <1>1, <1>2
<1>5. InputOK'
  BY <1>1, <1>3, <1>4 DEF InputInv, InputOK
<1>6. Waiting' = <<>>
  BY <1>1, <1>3 DEF Waiting
<1> QED
  BY <1>1, <1>5, <1>6, FreshKnows DEF InputInv

\* Closing the touchscreen throws away what it had not been asked for.
LEMMA InputCloses ==
  ASSUME InputInv, DisplayInv, CloseInputs
  PROVE  InputInv'
<1>1. /\ UNCHANGED <<finger, device, batch>> /\ queue' = <<>> /\ loop' = Fresh
      /\ held' = held \ {"touch", "wakefd"} /\ pc = "inputs"
  BY DEF CloseInputs, Go
<1>2. "thread" \notin held
  BY <1>1 DEF DisplayInv, HeldOK
<1>3. batch = <<>>
  BY <1>2 DEF InputInv, InputOK
<1>4. queue' \in Seq(Packets) /\ Len(queue') <= QueueLen
  BY <1>1, DrmAssumption
<1>5. InputOK'
  BY <1>1, <1>2, <1>3, <1>4 DEF InputInv, InputOK
<1>6. Waiting' = <<>>
  BY <1>1, <1>3 DEF Waiting
<1> QED
  BY <1>1, <1>5, <1>6, FreshKnows DEF InputInv

\* The thread that ends has nothing left to report.
LEMMA ThreadInput == ASSUME InputInv, ThreadEnds PROVE InputInv'
<1>1. UNCHANGED <<finger, device, queue, batch, loop>> /\ held' = held \ {"thread"} /\ batch = <<>>
  BY DEF ThreadEnds, inputVars
<1>2. InputOK'
  BY <1>1 DEF InputInv, InputOK
<1>3. Waiting' = Waiting
  BY <1>1 DEF Waiting
<1> QED
  BY <1>1, <1>2, <1>3 DEF InputInv, LoopGood, ContactOK, PlaceOK, KeyLast, NoKey, PlaceLast, NoPlace

\* The finger: a packet for whoever listens, in time or in place of all that waited.
LEMMA FingerInput ==
  ASSUME InputInv, NEW key \in {"down", "up", Same}, NEW y \in Readings, Emit(key, y),
         finger' \in BOOLEAN, key = Same => finger' = finger,
         key # Same => finger' = (key = "down")
  PROVE  InputInv'
<1> DEFINE moved == IF y = device THEN {} ELSE {y}
<1>1. /\ device' = y /\ UNCHANGED <<held, batch, loop>>
      /\ IF "touch" \notin held THEN UNCHANGED queue
         ELSE IF Len(queue) < QueueLen
         THEN queue' = Append(queue, [key |-> key, x |-> moved, dropped |-> FALSE])
         ELSE \E k \in {key, Same}, m \in {moved, {}} :
                queue' = <<[key |-> k, x |-> m, dropped |-> TRUE]>>
  BY DEF Emit
<1>2. queue \in Seq(Packets) /\ batch \in Seq(Packets) /\ Waiting \in Seq(Packets)
  <2>1. queue \in Seq(Packets) /\ batch \in Seq(Packets)
    BY DEF InputInv, InputOK
  <2> QED
    BY <2>1, ConcatProperties DEF Waiting
<1>3. CASE "touch" \notin held
  <2>1. queue' = <<>> /\ batch' = <<>> /\ loop' = Fresh
    BY <1>1, <1>3 DEF InputInv, InputOK
  <2>2. InputOK'
    BY <1>1, <1>3 DEF InputInv, InputOK
  <2>3. Waiting' = <<>>
    BY <2>1 DEF Waiting
  <2> QED
    BY <2>1, <2>2, <2>3, FreshKnows DEF InputInv
<1>4. ASSUME "touch" \in held, NEW w \in Seq(Packets), NEW p \in Packets,
             w = Waiting \/ p.dropped, Waiting' = Append(w, p),
             queue' \in Seq(Packets), Len(queue') <= QueueLen,
             p.key # Same => p.key = key, p.key = Same => p.dropped \/ key = Same,
             p.x # {} => p.x = {y}, p.x = {} => p.dropped \/ y = device
      PROVE  InputInv'
  <2>1. ContactOK(Waiting, loop, finger) /\ PlaceOK(Waiting, loop, device)
    BY DEF InputInv
  <2>2. ContactOK(Append(w, p), loop, finger')
    <3>1. ASSUME ~p.dropped PROVE ContactOK(w, loop, finger) /\ (p.key = Same => finger' = finger)
      <4>1. w = Waiting /\ (p.key = Same => finger' = finger)
        BY <1>4, <3>1
      <4> QED
        BY <2>1, <4>1
    <3>2. p.key # Same => finger' = (p.key = "down")
      BY <1>4
    <3> QED
      BY <1>4, <3>1, <3>2, ContactSent
  <2>3. PlaceOK(Append(w, p), loop, y)
    <3>1. ASSUME ~p.dropped PROVE PlaceOK(w, loop, device) /\ (p.x = {} => y = device)
      <4>1. w = Waiting /\ (p.x = {} => y = device)
        BY <1>4, <3>1
      <4> QED
        BY <2>1, <4>1
    <3> QED
      BY <1>4, <3>1, PlaceSent
  <2>4. InputOK'
    BY <1>1, <1>2, <1>4 DEF InputInv, InputOK
  <2>5. LoopGood(loop) /\ loop' = loop
    BY <1>1 DEF InputInv
  <2> QED
    BY <1>1, <1>4, <2>2, <2>3, <2>4, <2>5 DEF InputInv
<1>5. moved \in {{}} \cup {{r} : r \in Readings} /\ {} \in {{}} \cup {{r} : r \in Readings}
  OBVIOUS
<1>6. (moved # {} => moved = {y}) /\ (moved = {} => y = device)
  OBVIOUS
<1> HIDE DEF moved
<1>7. CASE "touch" \in held /\ Len(queue) < QueueLen
  <2> DEFINE p == [key |-> key, x |-> moved, dropped |-> FALSE]
  <2>1. p \in Packets /\ p.key = key /\ p.x = moved /\ p.dropped = FALSE
    BY <1>5, PacketFields
  <2> HIDE DEF p
  <2>2. queue' = Append(queue, p)
    BY <1>1, <1>7 DEF p
  <2>3. queue' \in Seq(Packets) /\ Len(queue') <= QueueLen
    BY <1>2, <1>7, <2>1, <2>2, AppendProperties, LenProperties, DrmAssumption
  <2>4. Waiting' = Append(Waiting, p)
    <3>1. /\ Append(queue, p) = queue \o <<p>> /\ <<p>> \in Seq(Packets)
          /\ Append(Waiting, p) = Waiting \o <<p>>
      BY <1>2, <2>1, AppendIsConcat
    <3>2. (batch \o queue) \o <<p>> = batch \o (queue \o <<p>>)
      BY <1>2, <3>1, ConcatAssociative
    <3> QED
      BY <1>1, <2>2, <3>1, <3>2 DEF Waiting
  <2> QED
    BY <1>2, <1>4, <1>6, <1>7, <2>1, <2>3, <2>4
<1>8. CASE "touch" \in held /\ ~(Len(queue) < QueueLen)
  <2>1. PICK k \in {key, Same}, m \in {moved, {}} :
          queue' = <<[key |-> k, x |-> m, dropped |-> TRUE]>>
    BY <1>1, <1>8
  <2> DEFINE p == [key |-> k, x |-> m, dropped |-> TRUE]
  <2>2. p \in Packets /\ p.key = k /\ p.x = m /\ p.dropped = TRUE
    BY <1>5, PacketFields
  <2> HIDE DEF p
  <2>3. queue' = <<p>>
    BY <2>1 DEF p
  <2>4. queue' \in Seq(Packets) /\ Len(queue') <= QueueLen
    BY <2>2, <2>3, DrmAssumption
  <2>5. Waiting' = Append(batch, p)
    BY <1>1, <1>2, <2>2, <2>3, AppendIsConcat DEF Waiting
  <2> QED
    BY <1>2, <1>4, <1>6, <1>8, <2>2, <2>4, <2>5
<1> QED
  BY <1>3, <1>7, <1>8

\* read() takes what waits in the order in which it came.
LEMMA ReadInput == ASSUME InputInv, Read PROVE InputInv'
<1>1. /\ batch = <<>> /\ batch' = queue /\ queue' = <<>> /\ "thread" \in held
      /\ UNCHANGED <<held, finger, device, loop>>
  BY DEF Read
<1>2. queue \in Seq(Packets) /\ queue' \in Seq(Packets) /\ Len(queue') <= QueueLen
  BY <1>1, DrmAssumption DEF InputInv, InputOK
<1>3. InputOK'
  BY <1>1, <1>2 DEF InputInv, InputOK
<1>4. Waiting' = Waiting
  BY <1>1, <1>2, ConcatEmptySeq DEF Waiting
<1> QED
  BY <1>1, <1>3, <1>4 DEF InputInv, LoopGood, ContactOK, PlaceOK, KeyLast, NoKey, PlaceLast, NoPlace

\* The head of what waits is the head of the batch.
LEMMA HeadTailOfConcat ==
  ASSUME NEW S, NEW s \in Seq(S), s # <<>>, NEW t \in Seq(S)
  PROVE  /\ s \o t \in Seq(S) /\ s \o t # <<>>
         /\ Head(s \o t) = Head(s) /\ Tail(s \o t) = Tail(s) \o t
<1>1. /\ Len(s) \in Nat /\ Len(s) >= 1 /\ Len(t) \in Nat
      /\ s \o t \in Seq(S) /\ Len(s \o t) = Len(s) + Len(t)
      /\ \A i \in 1 .. Len(s) + Len(t) :
           (s \o t)[i] = IF i <= Len(s) THEN s[i] ELSE t[i - Len(s)]
  BY ConcatProperties, EmptySeq, LenProperties
<1>2. s \o t # <<>>
  BY <1>1, EmptySeq
<1>3. /\ Tail(s) \in Seq(S) /\ Len(Tail(s)) = Len(s) - 1
      /\ \A i \in 1 .. Len(Tail(s)) : Tail(s)[i] = s[i + 1]
  BY HeadTailProperties
<1>4. /\ Tail(s \o t) \in Seq(S) /\ Len(Tail(s \o t)) = Len(s \o t) - 1
      /\ \A i \in 1 .. Len(Tail(s \o t)) : Tail(s \o t)[i] = (s \o t)[i + 1]
  BY <1>1, <1>2, HeadTailProperties
<1>5. /\ Tail(s) \o t \in Seq(S) /\ Len(Tail(s) \o t) = Len(Tail(s)) + Len(t)
      /\ \A i \in 1 .. Len(Tail(s)) + Len(t) :
           (Tail(s) \o t)[i] = IF i <= Len(Tail(s)) THEN Tail(s)[i] ELSE t[i - Len(Tail(s))]
  BY <1>3, ConcatProperties
<1> DEFINE a == Tail(s \o t)
           b == Tail(s) \o t
           n == Len(s) - 1 + Len(t)
<1>6. a \in Seq(S) /\ b \in Seq(S) /\ Len(a) = n /\ Len(b) = n /\ n \in Nat
  BY <1>1, <1>3, <1>4, <1>5
<1>7. ASSUME NEW i \in 1 .. n PROVE a[i] = b[i]
  <2>1. a[i] = IF i + 1 <= Len(s) THEN s[i + 1] ELSE t[i + 1 - Len(s)]
    BY <1>1, <1>4
  <2>2. b[i] = IF i <= Len(s) - 1 THEN s[i + 1] ELSE t[i - (Len(s) - 1)]
    BY <1>1, <1>3, <1>5
  <2> QED
    BY <1>1, <2>1, <2>2
<1> HIDE DEF a, b, n
<1>8. a = b
  BY <1>6, <1>7, SeqEqual
<1>9. Head(s \o t) = Head(s)
  <2>1. (s \o t)[1] = s[1]
    BY <1>1
  <2> QED
    BY <1>1, <1>2, <2>1
<1> QED
  BY <1>1, <1>2, <1>8, <1>9 DEF a, b

\* A packet is reported: the oldest one.
LEMMA HandleInput == ASSUME InputInv, Handle PROVE InputInv'
<1>1. /\ batch # <<>> /\ loop' = Report(loop, Head(batch)) /\ batch' = Tail(batch)
      /\ "thread" \in held /\ UNCHANGED <<held, finger, device, queue>>
  BY DEF Handle
<1>2. queue \in Seq(Packets) /\ batch \in Seq(Packets)
  BY DEF InputInv, InputOK
<1>3. batch' \in Seq(Packets) /\ Head(batch) \in Packets
  BY <1>1, <1>2
<1>4. /\ Waiting \in Seq(Packets) /\ Waiting # <<>>
      /\ Head(Waiting) = Head(batch) /\ Tail(Waiting) = Waiting'
  BY <1>1, <1>2, HeadTailOfConcat DEF Waiting
<1>5. InputOK'
  BY <1>1, <1>2, <1>3 DEF InputInv, InputOK
<1>6. LoopGood(loop')
  BY <1>1, <1>3, ReportIs DEF InputInv
<1>7. ContactOK(Tail(Waiting), Report(loop, Head(Waiting)), finger)
  BY <1>4, ContactHandled DEF InputInv
<1>8. PlaceOK(Tail(Waiting), Report(loop, Head(Waiting)), device)
  BY <1>4, PlaceHandled DEF InputInv
<1> QED
  BY <1>1, <1>4, <1>5, <1>6, <1>7, <1>8 DEF InputInv

\* Every step keeps it.
LEMMA NextInput == DisplayInv /\ InputInv /\ [Next]_vars => InputInv'
<1> SUFFICES ASSUME DisplayInv, InputInv, [Next]_vars PROVE InputInv'
  OBVIOUS
<1>1. CASE Finger
  <2>1. CASE FingerDown
    <3>1. finger' = TRUE /\ (\E y \in Readings : Emit("down", y)) /\ "down" # Same
      BY <2>1 DEF FingerDown, Same
    <3> QED
      BY <3>1, FingerInput
  <2>2. CASE FingerMove
    <3>1. finger' = finger /\ finger \in BOOLEAN /\ \E y \in Readings : Emit(Same, y)
      BY <2>2 DEF FingerMove, InputInv, InputOK
    <3> QED
      BY <3>1, FingerInput
  <2>3. CASE FingerUp
    <3>1. finger' = FALSE /\ Emit("up", device) /\ device \in Readings /\ "up" # "down"
      BY <2>3 DEF FingerUp, InputInv, InputOK
    <3> QED
      BY <3>1, FingerInput DEF Same
  <2> QED
    BY <1>1, <2>1, <2>2, <2>3 DEF Finger
<1>2. CASE UNCHANGED vars
  BY <1>2, InputQuiet DEF vars, inputVars
<1> QED
  BY <1>1, <1>2, MainQuiet, InputStarts, InputCloses, ThreadInput, ReadInput, HandleInput
     DEF Next, Main, CloseSteps, InputThread

LEMMA InitInput == Init => InputInv
<1> SUFFICES ASSUME Init PROVE InputInv
  OBVIOUS
<1>1. InputOK
  <2>1. /\ queue = <<>> /\ batch = <<>> /\ loop = Fresh /\ finger = FALSE
        /\ device \in Readings /\ held = {}
    BY DEF Init
  <2>2. <<>> \in Seq(Packets) /\ Len(<<>>) <= QueueLen
    BY DrmAssumption
  <2> QED
    BY <2>1, <2>2 DEF InputOK
<1>2. Waiting = <<>> /\ loop = Fresh
  BY DEF Init, Waiting
<1> QED
  BY <1>1, <1>2, FreshKnows DEF InputInv

\* Once the input thread has handled what the kernel had for it, the program has been
\* told whether a finger is down and where, unless the kernel never told the thread:
\* for every axis, panel, reading and queue length, and with overflows.
THEOREM FingerIsKnown == Spec => []InputFaithful
<1>1. InputInv => InputFaithful
  <2> SUFFICES ASSUME InputInv, queue \o batch = <<>>
               PROVE  /\ "contact" \notin loop.doubt => loop.contact = finger
                      /\ loop.doubt = {} /\ loop.contact
                           => loop.tip = ScaleAxis(device, RawMin, RawMax, Width)
    BY DEF InputFaithful
  <2>1. queue = <<>> /\ batch = <<>>
    <3>1. queue \in Seq(Packets) /\ batch \in Seq(Packets)
      BY DEF InputInv, InputOK
    <3> QED
      BY <3>1, ConcatSimplifications
  <2>2. Waiting = <<>>
    BY <2>1 DEF Waiting
  <2>3. NoKey(Waiting) /\ NoPlace(Waiting)
    BY <2>2 DEF NoKey, NoPlace
  <2>4. /\ "contact" \notin loop.doubt => loop.touching = finger
        /\ "place" \notin loop.doubt => loop.raw = device
    BY <2>3 DEF InputInv, ContactOK, PlaceOK
  <2> QED
    BY <2>4 DEF InputInv, LoopGood
<1>2. Init => DisplayInv /\ InputInv
  BY InitInv, InitInput
<1>3. DisplayInv /\ InputInv /\ [Next]_vars => DisplayInv' /\ InputInv'
  BY NextInv, NextInput
<1> QED
  BY <1>1, <1>2, <1>3, PTL DEF Spec
-----------------------------------------------------------------------------
(* The dirty rectangle                                                     *)

\* A glyph is drawn at twice its size at most.
LEMMA DrawOK == ASSUME RenderOK, Draw PROVE RenderOK'
<1>1. CASE Clear
  BY <1>1, InScreen, FillRectOK DEF Clear
<1>2. ASSUME NEW r \in Draws.rects, FillRect(r) \/ DrawImage(r) PROVE RenderOK'
  <2>1. r \in Corners
    BY DrawsAssumption DEF Corners
  <2> QED
    BY <1>2, <2>1, FillRectOK, SetPixelsOK DEF DrawImage
<1>3. ASSUME NEW a \in Draws.ends, NEW b \in Draws.ends, DrawLine(a, b) PROVE RenderOK'
  BY <1>3, SetPixelsOK DEF DrawLine
<1>4. ASSUME NEW a \in Draws.ends, DrawRect(a[1], a[2], 2, 3) PROVE RenderOK'
  BY <1>4, SetPixelsOK DEF DrawRect
<1>5. ASSUME NEW a \in Draws.ends, NEW n \in {1, 2}, DrawText(a[1], a[2], Draws.glyph, n)
      PROVE  RenderOK'
  <2>1. a[1] \in Int /\ a[2] \in Int /\ n \in Int /\ Draws.glyph \in SUBSET (Int \X Int)
    BY DrawsAssumption
  <2> QED
    BY <1>5, <2>1, DrawTextOK
<1> QED
  BY <1>1, <1>2, <1>3, <1>4, <1>5 DEF Draw

\* The renderer comes with everything dirty and goes with nothing to show.
LEMMA NewRendererOK == ASSUME NewRenderer \/ RendererGone
                       PROVE  RenderOK'
<1>1. OnScreen(Whole) /\ OnScreen(Clean)
  BY InScreen DEF OnScreen
<1>2. stale' = {} /\ dirtyRect' \in {Whole, Clean}
  BY DEF NewRenderer, RendererGone
<1> QED
  BY <1>1, <1>2 DEF RenderOK

LEMMA RenderQuiet == ASSUME RenderOK, UNCHANGED renderVars PROVE RenderOK'
  BY DEF RenderOK, renderVars

LEMMA NextRender == RenderOK /\ [Next]_vars => RenderOK'
<1> SUFFICES ASSUME RenderOK, [Next]_vars PROVE RenderOK'
  OBVIOUS
<1>1. CASE Draw
  BY <1>1, DrawOK
<1>2. CASE Present
  BY <1>2, PresentOK DEF Present
<1>3. CASE StartInput \/ Close
  BY <1>3, NewRendererOK DEF StartInput, Close
<1>4. CASE Finger \/ ServerStarts \/ ServerStops \/ InputThread
  <2>1. UNCHANGED renderVars
    BY <1>4 DEF Finger, FingerDown, FingerMove, FingerUp, Emit, ServerStarts, ServerStops,
                InputThread, ThreadEnds, Read, Handle
  <2> QED
    BY <2>1, RenderQuiet
<1>5. CASE \/ Open \/ OpenCard \/ Choose \/ SaveCrtc \/ CreateDumb \/ AddFb \/ MapDumb
           \/ SetCrtc \/ Fails \/ CloseSteps
  <2>1. UNCHANGED renderVars
    BY <1>5 DEF Open, OpenCard, Choose, SaveCrtc, CreateDumb, AddFb, MapDumb, Allocate, SetCrtc,
                Fails, CloseSteps, WriteWake, Join, CloseInputs, RestoreCrtc, Unmap, RmFb, Destroy,
                Release, CloseCard
  <2> QED
    BY <2>1, RenderQuiet
<1>6. CASE UNCHANGED vars
  BY <1>6, RenderQuiet DEF vars
<1> QED
  BY <1>1, <1>2, <1>3, <1>4, <1>5, <1>6 DEF Next, Main

LEMMA InitRender == Init => RenderOK
<1>1. OnScreen(Clean)
  BY DEF OnScreen
<1> QED
  BY <1>1 DEF Init, RendererInit, RenderOK

\* The dirty rectangle covers every pixel that the panel does not show as it was drawn:
\* for every panel, drawing and failure of present().
THEOREM NothingUnshown == Spec => []DirtyCovers
<1>1. RenderOK => DirtyCovers
  BY DEF RenderOK, DirtyCovers
<1> QED
  BY InitRender, NextRender, <1>1, PTL DEF Spec

-----------------------------------------------------------------------------
(* The types                                                               *)

\* What is shown is in memory: the buffer and the framebuffer on it are taken before
\* SETCRTC, and given back after the CRTC was.
ScanOK ==
  /\ pc \in {"addfb", "map", "set", "input", "open"} => "dumb" \in held
  /\ pc \in {"map", "set", "input", "open"} => "fb" \in held
  /\ crtc = "ours" => "fb" \in held /\ "dumb" \in held
  /\ master \in {"free", "us", "server"}

LEMMA ScanQuiet ==
  ASSUME ScanOK, UNCHANGED <<held, crtc, master>>,
         pc' = pc \/ pc' \notin {"addfb", "map", "set", "input", "open"}
  PROVE  ScanOK'
  BY DEF ScanOK

LEMMA NextScan == DisplayInv /\ ScanOK /\ [Next]_vars => ScanOK'
<1> SUFFICES ASSUME DisplayInv, ScanOK, [Next]_vars PROVE ScanOK'
  OBVIOUS
<1>1. CASE ServerStarts \/ ServerStops
  BY <1>1 DEF ScanOK, ServerStarts, ServerStops
<1>2. CASE Finger \/ Draw \/ Present \/ Read \/ Handle \/ UNCHANGED vars
  <2>1. UNCHANGED <<pc, held, crtc, master>>
    BY <1>2 DEF Finger, FingerDown, FingerMove, FingerUp, Emit, Draw, Present, Read, Handle,
                kmsVars, vars
  <2> QED
    BY <2>1, ScanQuiet
<1>3. CASE Open \/ Choose \/ SaveCrtc \/ Fails \/ Close \/ WriteWake \/ Join
  BY <1>3, ScanQuiet DEF Open, Choose, SaveCrtc, Fails, Close, WriteWake, Join, Go, kmsVars
<1>4. CASE OpenCard
  BY <1>4 DEF ScanOK, OpenCard, Go
<1>5. CASE CreateDumb \/ AddFb \/ MapDumb
  BY <1>5 DEF ScanOK, CreateDumb, AddFb, MapDumb, Allocate, Go, kmsVars
<1>6. CASE SetCrtc
  BY <1>6 DEF ScanOK, SetCrtc, Go
<1>7. CASE StartInput
  <2>1. PICK found : held' = held \cup found
    BY <1>7 DEF StartInput
  <2>2. pc = "input" /\ pc' = "open" /\ UNCHANGED <<crtc, master>>
    BY <1>7 DEF StartInput, Go, kmsVars
  <2> QED
    BY <2>1, <2>2 DEF ScanOK
<1>8. CASE CloseInputs
  <2>1. /\ pc' \in {"restore", "off"} /\ held' = held \ {"touch", "wakefd"}
        /\ UNCHANGED <<crtc, master>>
    BY <1>8 DEF CloseInputs, Go, kmsVars
  <2> QED
    BY <2>1 DEF ScanOK
<1>9. CASE RestoreCrtc
  <2>1. /\ pc' = "unmap" /\ UNCHANGED <<held, master>>
        /\ crtc' = "ours" => crtc = "ours"
    BY <1>9 DEF RestoreCrtc, PutsBack, Go, DisplayInv, Shown
  <2> QED
    BY <2>1 DEF ScanOK
<1>10. CASE Unmap
  BY <1>10 DEF ScanOK, Unmap, Release, Go
<1>11. CASE RmFb
  BY <1>11 DEF ScanOK, RmFb, Release, Go
<1>12. CASE Destroy
  <2>1. pc = "destroy" /\ "fb" \notin held
    BY <1>12 DEF Destroy, Release, Go, DisplayInv, HeldOK
  <2> QED
    BY <1>12, <2>1 DEF ScanOK, Destroy, Release, Go
<1>13. CASE CloseCard
  BY <1>13 DEF ScanOK, CloseCard, Go
<1>14. CASE ThreadEnds
  BY <1>14 DEF ScanOK, ThreadEnds, kmsVars
<1> QED
  BY <1>1, <1>2, <1>3, <1>4, <1>5, <1>6, <1>7, <1>8, <1>9, <1>10, <1>11, <1>12, <1>13, <1>14
     DEF Next, Main, CloseSteps, InputThread

LEMMA InitScan == Init => ScanOK
  BY DEF Init, ScanOK

\* The types, and what they say of more than one variable: our framebuffer is scanned
\* out only while it and its buffer exist, the kernel's queue keeps its length, what
\* the thread told is on the panel, and the dirty rectangle is on it too.
THEOREM TypesHold == Spec => []TypeOK
<1>1. DisplayInv /\ InputInv /\ RenderOK /\ ScanOK => TypeOK
  <2> SUFFICES ASSUME DisplayInv, InputInv, RenderOK, ScanOK PROVE TypeOK
    OBVIOUS
  <2>1. /\ pc \in Opening \cup Closing \cup {"off", "open"}
        /\ held \subseteq {"card", "dumb", "fb", "map", "touch", "wakefd", "thread"}
    BY DEF DisplayInv, HeldOK, Scanout, Inputs
  <2>2. /\ savedCrtc \in {"nothing", "none", "console", "server"}
        /\ crtc \in {"none", "console", "server", "ours"} /\ before \in {"none", "console", "server"}
    BY DEF DisplayInv, Shown
  <2>3. master \in {"free", "us", "server"} /\ (crtc = "ours" => {"fb", "dumb"} \subseteq held)
    BY DEF ScanOK
  <2>4. Len(queue) <= QueueLen
    BY DEF InputInv, InputOK
  <2>5. /\ loop.touching \in BOOLEAN /\ loop.contact = loop.wasTouching
        /\ loop.raw \in Readings \cup {0} /\ {loop.last, loop.tip} \subseteq 0 .. Width - 1
    BY DEF InputInv, LoopGood
  <2>6. stale \subseteq Screen /\ (dirtyRect # Clean => Clip(dirtyRect) = dirtyRect)
    BY RenderType
  <2> QED
    BY <2>1, <2>2, <2>3, <2>4, <2>5, <2>6 DEF TypeOK
<1>2. Init => DisplayInv /\ InputInv /\ RenderOK /\ ScanOK
  BY InitInv, InitInput, InitRender, InitScan
<1>3. DisplayInv /\ InputInv /\ RenderOK /\ ScanOK /\ [Next]_vars
        => DisplayInv' /\ InputInv' /\ RenderOK' /\ ScanOK'
  BY NextInv, NextInput, NextRender, NextScan
<1> QED
  BY <1>1, <1>2, <1>3, PTL DEF Spec

-----------------------------------------------------------------------------
(* What the helpers and drawLine() do, for all that they may be given.    *)
(* A loop of theirs is a function of its round, and what it keeps is proved *)
(* for the least round that could break it.                                *)

\* A value before a loop and after each of its rounds.
Runs(h, N, a, G) == h[0] = a /\ \A n \in 1 .. N : h[n] = G[n][h[n - 1]]

\* There are such values when the rounds keep them of a kind.
LEMMA Loop ==
  ASSUME NEW N \in Nat, NEW S, NEW a \in S, NEW G \in [1 .. N -> [S -> S]]
  PROVE  \E h \in [0 .. N -> S] : Runs(h, N, a, G)
<1> DEFINE First(m, h) == h[0] = a /\ \A n \in 1 .. m : h[n] = G[n][h[n - 1]]
           Bad == {m \in 0 .. N : ~ \E h \in [0 .. m -> S] : First(m, h)}
<1>1. 0 \notin Bad
  <2> DEFINE h == [n \in 0 .. 0 |-> a]
  <2>1. h \in [0 .. 0 -> S] /\ First(0, h)
    OBVIOUS
  <2> QED
    BY <2>1
<1>2. ASSUME NEW m \in 1 .. N, m - 1 \notin Bad PROVE m \notin Bad
  <2>1. m - 1 \in 0 .. N /\ m \in Nat /\ m - 1 \in Nat
    OBVIOUS
  <2>2. PICK h \in [0 .. m - 1 -> S] : First(m - 1, h)
    BY <1>2, <2>1
  <2> DEFINE v == G[m][h[m - 1]]
             k == [n \in 0 .. m |-> IF n = m THEN v ELSE h[n]]
  <2>3. v \in S
    BY <2>1
  <2>4. k \in [0 .. m -> S]
    BY <2>1, <2>3
  <2>5. k[0] = a
    BY <2>1, <2>2
  <2>6. ASSUME NEW n \in 1 .. m PROVE k[n] = G[n][k[n - 1]]
    <3>1. n - 1 \in 0 .. m - 1 /\ n - 1 # m /\ k[n - 1] = h[n - 1]
      BY <2>1
    <3>2. CASE n = m
      BY <2>1, <3>1, <3>2
    <3>3. CASE n # m
      <4>1. n \in 1 .. m - 1 /\ n \in 0 .. m
        BY <2>1, <3>3
      <4> QED
        BY <2>2, <3>1, <3>3, <4>1
    <3> QED
      BY <3>2, <3>3
  <2> HIDE DEF k
  <2> QED
    BY <2>4, <2>5, <2>6
<1> HIDE DEF First
<1>3. Bad = {}
  <2> SUFFICES ASSUME Bad # {} PROVE FALSE
    OBVIOUS
  <2> DEFINE m == Min(Bad)
  <2>5. Bad \in SUBSET Nat
    OBVIOUS
  <2> HIDE DEF Bad
  <2>1. m \in Bad /\ \A y \in Bad : m <= y
    BY <2>5, LeastOf
  <2> USE DEF Bad
  <2> HIDE DEF m
  <2>6. \A y \in Bad : y \in 0 .. N /\ y # 0
    BY <1>1
  <2>2. m \in 1 .. N
    <3> HIDE DEF Bad
    <3> QED
      BY <2>1, <2>6
  <2>3. m - 1 \in Bad
    BY <1>2, <2>1, <2>2
  <2>4. m <= m - 1 /\ m \in Nat
    BY <2>1, <2>2, <2>3
  <2> QED
    BY <2>4
<1>4. N \in 0 .. N /\ N \notin Bad
  BY <1>3
<1> QED
  BY <1>4 DEF First, Runs

\* What holds before a loop and is kept by its steps holds after each of them.
LEMMA Counted ==
  ASSUME NEW N \in Nat, NEW Good \in SUBSET (0 .. N), 0 \in Good,
         \A n \in 1 .. N : n - 1 \in Good => n \in Good
  PROVE  Good = 0 .. N
<1> DEFINE Bad == (0 .. N) \ Good
<1> SUFFICES ASSUME Bad # {} PROVE FALSE
  OBVIOUS
<1> DEFINE m == Min(Bad)
<1>1. m \in Bad /\ \A y \in Bad : m <= y
  BY LeastOf
<1> HIDE DEF m
<1>2. m \in 1 .. N /\ m - 1 \in 0 .. N
  BY <1>1
<1>3. m - 1 \in Bad
  BY <1>1, <1>2
<1>4. m <= m - 1 /\ m \in Nat
  BY <1>1, <1>2, <1>3
<1> QED
  BY <1>4

-----------------------------------------------------------------------------
(* The mode and the output that are chosen                                 *)

\* What a list of modes is.
ModeList(modes) == modes \in Seq(Modes)

\* The modes with an area among the first n.
Usable(modes, n) == {k \in 1 .. n : Area(modes[k]) > 0}

\* Of two modes, the first is the better one, or as good and named before.
Beats(modes, b, k) ==
  \/ Area(modes[b]) > Area(modes[k])
  \/ Area(modes[b]) = Area(modes[k]) /\ modes[b].hz > modes[k].hz
  \/ Area(modes[b]) = Area(modes[k]) /\ modes[b].hz = modes[k].hz /\ b <= k

\* What the loop has when it looked at n modes.
BestOf(modes, n, b) ==
  \/ b = 0 /\ Usable(modes, n) = {}
  \/ /\ b \in Usable(modes, n) /\ modes[b].preferred
     /\ \A k \in Usable(modes, n) : modes[k].preferred => b <= k
  \/ /\ b \in Usable(modes, n)
     /\ \A k \in Usable(modes, n) : ~ modes[k].preferred /\ Beats(modes, b, k)

\* Areas and rates are numbers.
LEMMA ModeFields ==
  ASSUME NEW modes, ModeList(modes), NEW k \in 1 .. Len(modes)
  PROVE  Area(modes[k]) \in Nat /\ modes[k].hz \in Nat /\ modes[k].preferred \in BOOLEAN
<1> DEFINE m == modes[k]
<1>1. m \in Modes
  BY DEF ModeList
<1> HIDE DEF m
<1>2. m.width * m.height \in Nat
  BY <1>1 DEF Modes
<1> QED
  BY <1>1, <1>2 DEF Modes, Area, m

\* One more mode.
LEMMA ConsiderIs ==
  ASSUME NEW modes, ModeList(modes), NEW i \in 1 .. Len(modes), NEW b, BestOf(modes, i - 1, b)
  PROVE  BestOf(modes, i, Consider(modes, b, i))
<1> DEFINE U == Usable(modes, i - 1)
           V == Usable(modes, i)
           c == Consider(modes, b, i)
<1>1. Len(modes) \in Nat /\ i \in Nat \ {0} /\ i <= Len(modes)
  BY DEF ModeList
<1>2. \A k \in 1 .. i : /\ Area(modes[k]) \in Nat /\ modes[k].hz \in Nat
                        /\ modes[k].preferred \in BOOLEAN
  <2> TAKE k \in 1 .. i
  <2>1. k \in 1 .. Len(modes)
    BY <1>1
  <2> QED
    BY <2>1, ModeFields
<1>3. \A k : k \in V <=> k \in U \/ (k = i /\ Area(modes[i]) > 0)
  BY <1>1 DEF Usable
<1>4. \A k \in U : k \in 1 .. i - 1
  BY DEF Usable
<1>5. b = 0 \/ b \in U
  BY DEF BestOf
<1>6. CASE Area(modes[i]) = 0
  <2>1. c = b
    BY <1>6 DEF Consider
  <2>3. ~(Area(modes[i]) > 0)
    BY <1>6
  <2>2. V = U
    <3> HIDE DEF U, V
    <3> QED
      BY <1>3, <2>3
  <2> QED
    BY <2>1, <2>2 DEF BestOf
<1>7. CASE Area(modes[i]) # 0 /\ b # 0 /\ modes[b].preferred
  <2>1. c = b
    BY <1>7 DEF Consider
  <2>2. b \in U /\ \A k \in U : modes[k].preferred => b <= k
    BY <1>5, <1>7 DEF BestOf
  <2>3. b <= i
    BY <1>1, <1>4, <2>2
  <2>4. b \in V /\ \A k \in V : modes[k].preferred => b <= k
    BY <1>3, <2>2, <2>3
  <2> QED
    BY <1>7, <2>1, <2>4 DEF BestOf
<1>8. CASE Area(modes[i]) # 0 /\ ~(b # 0 /\ modes[b].preferred)
  <2>1. i \in V
    BY <1>1, <1>2, <1>3, <1>8
  <2>2. \/ b = 0 /\ U = {}
        \/ b \in U /\ \A k \in U : ~ modes[k].preferred /\ Beats(modes, b, k)
    BY <1>8 DEF BestOf, Usable
  <2>3. CASE modes[i].preferred
    <3>1. c = i
      BY <1>8, <2>3 DEF Consider
    <3>2. \A k \in V : modes[k].preferred => i <= k
      BY <1>1, <1>3, <2>2
    <3> QED
      BY <2>1, <2>3, <3>1, <3>2 DEF BestOf
  <2>4. CASE ~ modes[i].preferred /\ b = 0
    <3>1. c = i
      BY <1>8, <2>4 DEF Consider
    <3>2. U = {}
      BY <1>4, <2>2, <2>4
    <3>3. Beats(modes, i, i)
      BY <1>1, <1>2 DEF Beats
    <3>4. \A k \in V : k = i
      BY <1>3, <3>2
    <3> QED
      BY <2>1, <2>4, <3>1, <3>3, <3>4 DEF BestOf
  <2>5. CASE ~ modes[i].preferred /\ b # 0
    <3>1. b \in U /\ b \in 1 .. i /\ i \in 1 .. i /\ b <= i
      BY <1>1, <1>4, <1>5, <2>5
    <3>2. \A k \in U : ~ modes[k].preferred /\ Beats(modes, b, k)
      BY <2>2, <2>5
    <3>3. CASE Better(modes[i], modes[b])
      <4>1. c = i
        BY <1>8, <2>5, <3>3 DEF Consider
      <4>2. ASSUME NEW k \in U PROVE Beats(modes, i, k)
        <5>1. Beats(modes, b, k) /\ k \in 1 .. i
          BY <1>1, <1>4, <3>2
        <5> QED
          BY <1>2, <3>1, <3>3, <5>1 DEF Beats, Better
      <4>3. Beats(modes, i, i)
        BY <1>1, <1>2 DEF Beats
      <4> QED
        BY <1>3, <2>1, <2>5, <3>2, <4>1, <4>2, <4>3 DEF BestOf
    <3>4. CASE ~ Better(modes[i], modes[b])
      <4>1. c = b
        BY <1>8, <2>5, <3>4 DEF Consider
      <4>2. Beats(modes, b, i)
        BY <1>2, <3>1, <3>4 DEF Beats, Better
      <4> QED
        BY <1>3, <2>5, <3>1, <3>2, <4>1, <4>2 DEF BestOf
    <3> QED
      BY <3>3, <3>4
  <2> QED
    BY <2>3, <2>4, <2>5
<1> QED
  BY <1>6, <1>7, <1>8

\* The loop ends with the best of all.
LEMMA ModeIsBest ==
  ASSUME NEW modes, ModeList(modes)
  PROVE  BestOf(modes, Len(modes), ChooseMode(modes))
<1> DEFINE N == Len(modes)
           S == 0 .. N
           G == [n \in 1 .. N |-> [b \in S |-> Consider(modes, b, n)]]
           Round(f) == [i \in 0 .. Len(modes) |->
                          IF i = 0 THEN 0 ELSE Consider(modes, f[i - 1], i)]
           best == CHOOSE f : f = Round(f)
<1>1. N \in Nat
  BY DEF ModeList
<1>2. G \in [1 .. N -> [S -> S]]
  <2>1. ASSUME NEW n \in 1 .. N, NEW b \in S PROVE Consider(modes, b, n) \in S
    <3>1. Consider(modes, b, n) \in {b, n}
      BY DEF Consider
    <3> QED
      BY <1>1, <3>1
  <2> QED
    BY <2>1
<1>3. PICK h \in [0 .. N -> S] : h[0] = 0 /\ \A n \in 1 .. N : h[n] = G[n][h[n - 1]]
  <2>1. 0 \in S
    BY <1>1
  <2> HIDE DEF G, S
  <2>2. \E f \in [0 .. N -> S] : Runs(f, N, 0, G)
    BY <1>1, <1>2, <2>1, Loop
  <2> QED
    BY <2>2, Zenon DEF Runs
<1>4. h = Round(h)
  <2>1. ASSUME NEW n \in 1 .. N PROVE h[n] = Consider(modes, h[n - 1], n)
    <3>1. n - 1 \in 0 .. N
      BY <1>1
    <3>2. h[n - 1] \in S
      BY <3>1
    <3> QED
      BY <1>3, <3>2
  <2>2. \A n \in 0 .. N : n = 0 \/ n \in 1 .. N
    BY <1>1
  <2>3. \A n \in 0 .. N : h[n] = IF n = 0 THEN 0 ELSE Consider(modes, h[n - 1], n)
    BY <1>3, <2>1, <2>2
  <2> QED
    BY <2>3
<1>5. best = Round(best)
  <2> HIDE DEF Round
  <2> QED
    BY <1>4
<1>6. ChooseMode(modes) = best[N]
  BY DEF ChooseMode
<1> HIDE DEF best
<1>7. best[0] = 0 /\ \A n \in 1 .. N : best[n] = Consider(modes, best[n - 1], n)
  <2>1. 0 \in 0 .. N /\ \A n \in 1 .. N : n \in 0 .. N /\ n # 0
    BY <1>1
  <2>2. \A n \in 0 .. N : best[n] = IF n = 0 THEN 0 ELSE Consider(modes, best[n - 1], n)
    BY <1>5
  <2> QED
    BY <2>1, <2>2
<1> DEFINE Good == {n \in 0 .. N : BestOf(modes, n, best[n])}
<1>8. 0 \in Good
  <2>1. Usable(modes, 0) = {}
    BY DEF Usable
  <2> QED
    BY <1>1, <1>7, <2>1 DEF BestOf
<1>9. ASSUME NEW n \in 1 .. N, n - 1 \in Good PROVE n \in Good
  <2>1. BestOf(modes, n - 1, best[n - 1]) /\ n \in 0 .. N
    BY <1>1, <1>9
  <2>2. BestOf(modes, n, Consider(modes, best[n - 1], n))
    BY <2>1, ConsiderIs
  <2> QED
    BY <1>7, <2>1, <2>2
<1>10. Good = 0 .. N
  <2>1. Good \in SUBSET (0 .. N)
    OBVIOUS
  <2> HIDE DEF Good
  <2> QED
    BY <1>1, <1>8, <1>9, <2>1, Counted
<1>11. N \in Good
  BY <1>1, <1>10
<1> QED
  BY <1>6, <1>11

\* chooseMode() takes the first preferred mode or, without one, the first of the largest
\* and fastest; and none only when no mode has an area: for every list of modes.
THEOREM ModeIsRight ==
  ASSUME NEW modes, ModeList(modes)
  PROVE  ModeRight(modes)
<1> DEFINE N      == Len(modes)
           b      == ChooseMode(modes)
           some   == {i \in DOMAIN modes : Area(modes[i]) > 0}
           wanted == {i \in some : modes[i].preferred}
           large  == {i \in some : \A j \in some : Area(modes[i]) >= Area(modes[j])}
           fast   == {i \in large : \A j \in large : modes[i].hz >= modes[j].hz}
<1>1. N \in Nat /\ DOMAIN modes = 1 .. N /\ some = Usable(modes, N)
  BY DEF ModeList, Usable
<1>2. BestOf(modes, N, b)
  BY ModeIsBest
<1>3. \A k \in some : /\ Area(modes[k]) \in Nat /\ modes[k].hz \in Nat
                      /\ modes[k].preferred \in BOOLEAN /\ k \in Nat
  <2> TAKE k \in some
  <2>1. k \in 1 .. N
    BY <1>1
  <2> QED
    BY <1>1, <2>1, ModeFields
<1> HIDE DEF b, N, some
<1>4. wanted \in SUBSET Nat /\ fast \in SUBSET Nat
  BY <1>3
<1>5. CASE b = 0 /\ some = {}
  <2>1. wanted = {} /\ fast = {}
    BY <1>5
  <2>2. b = Least(fast)
    BY <1>5, <2>1 DEF Least
  <2> QED
    BY <2>1, <2>2 DEF ModeRight, b, some
<1>6. CASE b \in some /\ modes[b].preferred /\ \A k \in some : modes[k].preferred => b <= k
  <2>1. b \in wanted /\ \A k \in wanted : b <= k
    BY <1>6
  <2> HIDE DEF wanted
  <2>2. Min(wanted) \in wanted /\ \A k \in wanted : Min(wanted) <= k
    BY <1>4, <2>1, LeastOf
  <2>3. b <= Min(wanted) /\ Min(wanted) <= b /\ b \in Nat /\ Min(wanted) \in Nat
    BY <1>4, <2>1, <2>2
  <2>4. b = Min(wanted)
    BY <2>3
  <2> USE DEF wanted
  <2> QED
    BY <2>1, <2>4 DEF ModeRight, b, some
<1>7. CASE b \in some /\ \A k \in some : ~ modes[k].preferred /\ Beats(modes, b, k)
  <2>1. wanted = {}
    BY <1>7
  <2>2. b \in large
    BY <1>3, <1>7 DEF Beats
  <2>3. \A k \in large : Area(modes[k]) = Area(modes[b]) /\ Beats(modes, b, k) /\ k \in some
    BY <1>3, <1>7, <2>2
  <2>4. b \in fast
    BY <1>3, <2>2, <2>3 DEF Beats
  <2>5. \A k \in fast : b <= k
    <3> TAKE k \in fast
    <3>1. k \in large /\ modes[k].hz >= modes[b].hz
      BY <2>2
    <3> QED
      BY <1>3, <1>7, <2>3, <3>1 DEF Beats
  <2> HIDE DEF fast
  <2>6. Min(fast) \in fast /\ \A k \in fast : Min(fast) <= k
    BY <1>4, <2>4, LeastOf
  <2>7. b <= Min(fast) /\ Min(fast) <= b /\ b \in Nat /\ Min(fast) \in Nat
    BY <1>4, <2>4, <2>5, <2>6
  <2>8. b = Least(fast)
    BY <2>4, <2>7 DEF Least
  <2> USE DEF fast
  <2> QED
    BY <2>1, <2>8 DEF ModeRight, b, some
<1> QED
  BY <1>1, <1>2, <1>5, <1>6, <1>7 DEF BestOf

-----------------------------------------------------------------------------
(* Bresenham's line                                                        *)

\* How far a walk of M steps along one axis and m along the other has come: i and l steps.
Walked(M, m, i, l, e) ==
  /\ e \in Int /\ l \in 0 .. m /\ m - l <= M - i
  /\ e = M - m - i * m + l * M
  /\ - m <= 2 * e /\ 2 * e <= 3 * M - 2 * m

\* The line starts so.
LEMMA WalkStarts ==
  ASSUME NEW M \in Nat, NEW m \in Nat, m <= M
  PROVE  Walked(M, m, 0, 0, M - m)
<1>1. 0 * m = 0 /\ 0 * M = 0
  OBVIOUS
<1> QED
  BY <1>1 DEF Walked

\* A product that is not negative.
LEMMA Product == ASSUME NEW a \in Nat, NEW b \in Nat PROVE a * b \in Nat
  BY SMT

\* The end is not overshot on the short axis, and a step is taken there in time.
LEMMA StepInTime ==
  ASSUME NEW M \in Nat, NEW m \in Nat, m <= M, NEW i \in 0 .. M - 1, NEW l, NEW e,
         Walked(M, m, i, l, e)
  PROVE  /\ 2 * e <= M => l < m
         /\ 2 * e > M => m - l <= M - (i + 1)
<1>1. e \in Int /\ l \in 0 .. m /\ m - l <= M - i /\ e = M - m - i * m + l * M /\ l \in Nat
  BY DEF Walked
<1>2. ASSUME 2 * e <= M, l = m PROVE FALSE
  <2> DEFINE p == m * (M - 1 - i)
  <2>1. p \in Nat
    BY Product
  <2>2. i * m = m * i /\ p = m * M - m - m * i
    OBVIOUS
  <2>3. m * M \in Nat /\ m * i \in Nat
    BY Product
  <2> HIDE DEF p
  <2>4. e = M + p
    BY <1>1, <1>2, <2>2, <2>3
  <2> QED
    BY <1>2, <2>1, <2>4
<1>3. ASSUME 2 * e > M, ~(m - l <= M - (i + 1)) PROVE FALSE
  <2> DEFINE n == M - i
             p == (n - 1) * (M - m)
  <2>1. n \in Nat \ {0} /\ l = m - n /\ i = M - n
    BY <1>1, <1>3
  <2>2. p \in Nat
    BY <2>1, Product
  <2>3. i * m = M * m - n * m /\ l * M = m * M - n * M /\ M * m = m * M
    BY <2>1
  <2>4. p = n * M - n * m - M + m
    BY <2>1
  <2>5. m * M \in Nat /\ n * M \in Nat /\ n * m \in Nat
    BY <2>1, Product
  <2> HIDE DEF p, n
  <2>6. e = - p
    BY <1>1, <2>3, <2>4, <2>5
  <2> QED
    BY <1>3, <2>2, <2>6
<1> QED
  BY <1>1, <1>2, <1>3

\* A round of the loop keeps it.
LEMMA WalkGoes ==
  ASSUME NEW M \in Nat, NEW m \in Nat, m <= M, NEW i \in 0 .. M - 1, NEW l, NEW e,
         Walked(M, m, i, l, e), NEW u, u = IF 2 * e <= M THEN 1 ELSE 0
  PROVE  Walked(M, m, i + 1, l + u, e - m + u * M)
<1>1. /\ e \in Int /\ l \in 0 .. m /\ m - l <= M - i /\ e = M - m - i * m + l * M /\ l \in Nat
      /\ - m <= 2 * e /\ 2 * e <= 3 * M - 2 * m
  BY DEF Walked
<1>2. i \in Nat /\ i + 1 <= M /\ u \in {0, 1}
  OBVIOUS
<1>3. l + u \in 0 .. m /\ m - (l + u) <= M - (i + 1)
  BY <1>1, <1>2, StepInTime
<1>4. (i + 1) * m = i * m + m /\ (l + u) * M = l * M + u * M
  BY <1>1, <1>2
<1>5. u * M = IF u = 1 THEN M ELSE 0
  BY <1>2
<1>6. e - m + u * M = M - m - (i + 1) * m + (l + u) * M
  <2>1. i * m \in Nat /\ l * M \in Nat /\ u * M \in Nat
    BY <1>1, <1>2, Product
  <2> QED
    BY <1>1, <1>4, <2>1
<1> DEFINE f == e - m + u * M
<1>7. f \in Int /\ - m <= 2 * f /\ 2 * f <= 3 * M - 2 * m
  BY <1>1, <1>2, <1>5
<1> HIDE DEF f
<1>8. f = M - m - (i + 1) * m + (l + u) * M
  BY <1>6 DEF f
<1>9. Walked(M, m, i + 1, l + u, f)
  BY <1>3, <1>7, <1>8 DEF Walked
<1> QED
  BY <1>9 DEF f

\* The way from a to b: how far, and which way.
Across(a, b)   == Magnitude(b[1] - a[1])
Down(a, b)     == Magnitude(b[2] - a[2])
Toward(x, y)   == IF x < y THEN 1 ELSE -1

\* Where the loop is after i rounds.
LineAt(a, b, i, s) ==
  LET A == Across(a, b)
      D == Down(a, b)
  IN  s.err \in Int /\ \E k, l \in Nat :
        /\ s.p = <<a[1] + k * Toward(a[1], b[1]), a[2] + l * Toward(a[2], b[2])>>
        /\ IF A >= D THEN k = i /\ Walked(A, D, i, l, s.err)
                     ELSE l = i /\ Walked(D, A, i, k, - s.err)

\* A length is a number, and it leads from one end to the other.
LEMMA Lengths ==
  ASSUME NEW x \in Int, NEW y \in Int
  PROVE  /\ Magnitude(y - x) \in Nat /\ Toward(x, y) \in {1, -1}
         /\ y = x + Magnitude(y - x) * Toward(x, y)
<1>1. CASE x < y
  <2>1. Magnitude(y - x) = y - x /\ Toward(x, y) = 1
    BY <1>1 DEF Magnitude, Toward
  <2> QED
    BY <1>1, <2>1
<1>2. CASE ~(x < y)
  <2>1. Magnitude(y - x) = x - y /\ Toward(x, y) = -1
    BY <1>2 DEF Magnitude, Toward
  <2> QED
    BY <1>2, <2>1
<1> QED
  BY <1>1, <1>2

\* What is left of it after some steps.
LEMMA LengthsLeft ==
  ASSUME NEW x \in Int, NEW y \in Int, NEW k \in 0 .. Magnitude(y - x)
  PROVE  Magnitude(y - (x + k * Toward(x, y))) = Magnitude(y - x) - k
<1>1. CASE x < y
  <2>1. Magnitude(y - x) = y - x /\ Toward(x, y) = 1
    BY <1>1 DEF Magnitude, Toward
  <2>2. k \in Int /\ k <= y - x /\ x + k * Toward(x, y) = x + k
    BY <2>1
  <2>3. y - (x + k) = y - x - k /\ ~(y - x - k < 0)
    BY <2>2
  <2> QED
    BY <2>1, <2>2, <2>3 DEF Magnitude
<1>2. CASE ~(x < y)
  <2>1. Magnitude(y - x) = x - y /\ Toward(x, y) = -1
    BY <1>2 DEF Magnitude, Toward
  <2>2. k \in Int /\ k <= x - y /\ x + k * Toward(x, y) = x - k
    BY <2>1
  <2>3. y - (x - k) = y - x + k /\ y - x + k <= 0
    BY <2>2
  <2>4. Magnitude(y - x + k) = x - y - k
    BY <2>2, <2>3 DEF Magnitude
  <2> QED
    BY <2>1, <2>2, <2>3, <2>4
<1> QED
  BY <1>1, <1>2

\* The steps of a line are those along its longer side.
LEMMA StepsAre ==
  ASSUME NEW a \in Int \X Int, NEW b \in Int \X Int
  PROVE  /\ Across(a, b) \in Nat /\ Down(a, b) \in Nat
         /\ Steps(a, b) = IF Across(a, b) >= Down(a, b) THEN Across(a, b) ELSE Down(a, b)
         /\ Steps(a, b) \in Nat
<1>1. a[1] \in Int /\ a[2] \in Int /\ b[1] \in Int /\ b[2] \in Int
  OBVIOUS
<1>2. Across(a, b) \in Nat /\ Down(a, b) \in Nat
  BY <1>1, Lengths DEF Across, Down
<1>3. Steps(a, b) = Max({Across(a, b), Down(a, b)})
  BY DEF Steps, Across, Down
<1> DEFINE A == Across(a, b)
           D == Down(a, b)
<1> HIDE DEF A, D
<1>4. Max({A, D}) = IF A >= D THEN A ELSE D
  BY <1>2, OfTwo DEF A, D
<1> QED
  BY <1>2, <1>3, <1>4 DEF A, D

\* A round of the loop.
LEMMA LineStepIs ==
  ASSUME NEW a \in Int \X Int, NEW b \in Int \X Int, NEW i \in 0 .. Steps(a, b) - 1,
         NEW s, LineAt(a, b, i, s)
  PROVE  /\ LineAt(a, b, i + 1, LineStep(a, b, s))
         /\ Magnitude(LineStep(a, b, s).p[1] - s.p[1]) <= 1
         /\ Magnitude(LineStep(a, b, s).p[2] - s.p[2]) <= 1
<1> DEFINE A  == Across(a, b)
           D  == Down(a, b)
           sx == Toward(a[1], b[1])
           sy == Toward(a[2], b[2])
           h  == 2 * s.err >= - D
           v  == 2 * s.err <= A
           t  == LineStep(a, b, s)
<1>1. /\ A \in Nat /\ D \in Nat /\ Steps(a, b) = IF A >= D THEN A ELSE D
      /\ a[1] \in Int /\ a[2] \in Int /\ b[1] \in Int /\ b[2] \in Int
  BY StepsAre
<1>2. sx \in {1, -1} /\ sy \in {1, -1}
  BY <1>1, Lengths
<1>3. PICK k \in Nat, l \in Nat :
        /\ s.p = <<a[1] + k * sx, a[2] + l * sy>>
        /\ IF A >= D THEN k = i /\ Walked(A, D, i, l, s.err)
                     ELSE l = i /\ Walked(D, A, i, k, - s.err)
  BY DEF LineAt
<1>4. s.err \in Int
  BY DEF LineAt
<1>5. /\ t.err = s.err + (IF h THEN - D ELSE 0) + (IF v THEN A ELSE 0)
      /\ t.p = <<s.p[1] + (IF h THEN sx ELSE 0), s.p[2] + (IF v THEN sy ELSE 0)>>
  BY DEF LineStep, Across, Down, Toward
<1> HIDE DEF A, D, sx, sy, t
<1> DEFINE uh == IF h THEN 1 ELSE 0
           uv == IF v THEN 1 ELSE 0
<1>6. uh \in Nat /\ uv \in Nat /\ uh \in {0, 1} /\ uv \in {0, 1}
  OBVIOUS
<1>7. t.p = <<a[1] + (k + uh) * sx, a[2] + (l + uv) * sy>>
  <2>1. k * sx \in Int /\ l * sy \in Int /\ (k + uh) * sx = k * sx + uh * sx
        /\ (l + uv) * sy = l * sy + uv * sy
    BY <1>2, <1>6
  <2>2. uh * sx = (IF h THEN sx ELSE 0) /\ uv * sy = (IF v THEN sy ELSE 0)
    BY <1>2
  <2> HIDE DEF uh, uv, h, v
  <2>3. s.p[1] = a[1] + k * sx /\ s.p[2] = a[2] + l * sy
    BY <1>3
  <2> QED
    BY <1>1, <1>2, <1>5, <2>1, <2>2, <2>3
<1>8. Magnitude(t.p[1] - s.p[1]) <= 1 /\ Magnitude(t.p[2] - s.p[2]) <= 1
  <2>1. s.p[1] = a[1] + k * sx /\ s.p[2] = a[2] + l * sy
    BY <1>3
  <2>2. k * sx \in Int /\ l * sy \in Int
    BY <1>2
  <2>3. s.p[1] \in Int /\ s.p[2] \in Int
    BY <1>1, <2>1, <2>2
  <2>4. t.p[1] - s.p[1] \in {sx, 0} /\ t.p[2] - s.p[2] \in {sy, 0}
    BY <1>2, <1>5, <2>3
  <2> QED
    BY <1>2, <2>4 DEF Magnitude
<1>9. t.err = s.err - uh * D + uv * A
  BY <1>1, <1>4, <1>5
<1>12. t.err \in Int
  BY <1>1, <1>4, <1>6, <1>9, Product
<1>10. CASE A >= D
  <2>1. Walked(A, D, i, l, s.err) /\ k = i /\ i \in 0 .. A - 1
    BY <1>1, <1>3, <1>10
  <2>2. h
    BY <2>1 DEF Walked
  <2>3. Walked(A, D, i + 1, l + uv, s.err - D + uv * A)
    BY <1>1, <1>10, <2>1, WalkGoes
  <2>4. uh = 1 /\ t.err = s.err - D + uv * A
    BY <1>1, <1>9, <2>2
  <2>5. k + uh = i + 1 /\ k + uh \in Nat /\ l + uv \in Nat
    BY <1>6, <2>1, <2>4
  <2> HIDE DEF uh, uv
  <2>6. /\ t.p = <<a[1] + (k + uh) * sx, a[2] + (l + uv) * sy>>
        /\ k + uh = i + 1 /\ Walked(A, D, i + 1, l + uv, t.err)
    BY <1>7, <2>3, <2>4, <2>5
  <2>7. LineAt(a, b, i + 1, t)
    BY <1>10, <1>12, <2>5, <2>6 DEF LineAt, A, D, sx, sy
  <2> QED
    BY <1>8, <2>7 DEF t
<1>11. CASE ~(A >= D)
  <2>1. Walked(D, A, i, k, - s.err) /\ l = i /\ i \in 0 .. D - 1 /\ A <= D
    BY <1>1, <1>3, <1>11
  <2>2. v
    BY <1>1, <1>4, <2>1 DEF Walked
  <2>3. uh = IF 2 * (- s.err) <= D THEN 1 ELSE 0
    BY <1>1, <1>4
  <2>4. Walked(D, A, i + 1, k + uh, - s.err - A + uh * D)
    <3> DEFINE e == - s.err
               u == uh
    <3>1. u = IF 2 * e <= D THEN 1 ELSE 0
      BY <2>3
    <3> HIDE DEF e, u
    <3>2. Walked(D, A, i + 1, k + u, e - A + u * D)
      BY <1>1, <2>1, <3>1, WalkGoes DEF e
    <3> QED
      BY <3>2 DEF e, u
  <2>5. uv = 1 /\ - t.err = - s.err - A + uh * D
    BY <1>1, <1>4, <1>9, <2>2
  <2>6. l + uv = i + 1 /\ k + uh \in Nat /\ l + uv \in Nat
    BY <1>6, <2>1, <2>5
  <2> HIDE DEF uh, uv
  <2>7. /\ t.p = <<a[1] + (k + uh) * sx, a[2] + (l + uv) * sy>>
        /\ l + uv = i + 1 /\ Walked(D, A, i + 1, k + uh, - t.err)
    BY <1>7, <2>4, <2>5, <2>6
  <2>8. LineAt(a, b, i + 1, t)
    BY <1>11, <1>12, <2>6, <2>7 DEF LineAt, A, D, sx, sy
  <2> QED
    BY <1>8, <2>8 DEF t
<1> QED
  BY <1>10, <1>11

\* How far the end is after i rounds, and where the loop is after the last.
LEMMA StepsLeft ==
  ASSUME NEW a \in Int \X Int, NEW b \in Int \X Int, NEW i \in 0 .. Steps(a, b),
         NEW s, LineAt(a, b, i, s)
  PROVE  s.p \in Int \X Int /\ Steps(s.p, b) = Steps(a, b) - i /\ (i = Steps(a, b) => s.p = b)
<1> DEFINE A  == Across(a, b)
           D  == Down(a, b)
           sx == Toward(a[1], b[1])
           sy == Toward(a[2], b[2])
<1>1. /\ A \in Nat /\ D \in Nat /\ Steps(a, b) = IF A >= D THEN A ELSE D
      /\ a[1] \in Int /\ a[2] \in Int /\ b[1] \in Int /\ b[2] \in Int
  BY StepsAre
<1>2. sx \in {1, -1} /\ sy \in {1, -1} /\ b[1] = a[1] + A * sx /\ b[2] = a[2] + D * sy
  BY <1>1, Lengths DEF Across, Down
<1>3. PICK k \in Nat, l \in Nat :
        /\ s.p = <<a[1] + k * sx, a[2] + l * sy>>
        /\ IF A >= D THEN k = i /\ Walked(A, D, i, l, s.err)
                     ELSE l = i /\ Walked(D, A, i, k, - s.err)
  BY DEF LineAt
<1> HIDE DEF sx, sy
<1>4. /\ k \in 0 .. A /\ l \in 0 .. D
      /\ IF A >= D THEN k = i /\ D - l <= A - k ELSE l = i /\ A - k <= D - l
  <2> HIDE DEF A, D
  <2>1. CASE A >= D
    BY <1>1, <1>3, <2>1 DEF Walked
  <2>2. CASE ~(A >= D)
    BY <1>1, <1>3, <2>2 DEF Walked
  <2> QED
    BY <2>1, <2>2
<1>5. s.p \in Int \X Int
  BY <1>1, <1>2, <1>3
<1>6. Across(s.p, b) = A - k /\ Down(s.p, b) = D - l
  <2>1. Magnitude(b[1] - (a[1] + k * sx)) = A - k
    BY <1>1, <1>4, LengthsLeft DEF Across, sx
  <2>2. Magnitude(b[2] - (a[2] + l * sy)) = D - l
    BY <1>1, <1>4, LengthsLeft DEF Down, sy
  <2>3. s.p[1] = a[1] + k * sx /\ s.p[2] = a[2] + l * sy
    BY <1>3
  <2> QED
    BY <2>1, <2>2, <2>3 DEF Across, Down
<1> HIDE DEF A, D
<1>7. Steps(s.p, b) = Steps(a, b) - i
  <2>1. Steps(s.p, b) = IF A - k >= D - l THEN A - k ELSE D - l
    BY <1>5, <1>6, StepsAre
  <2> QED
    BY <1>1, <1>4, <2>1
<1>8. ASSUME i = Steps(a, b) PROVE s.p = b
  <2>1. k = A /\ l = D
    BY <1>1, <1>4, <1>8
  <2>2. b = <<b[1], b[2]>>
    OBVIOUS
  <2> QED
    BY <1>2, <1>3, <2>1, <2>2
<1> QED
  BY <1>5, <1>7, <1>8

\* The rounds of the loop.
DrawnBy(a, b, walk) ==
  /\ LinePoints(a, b) = {walk[i].p : i \in 0 .. Steps(a, b)}
  /\ walk[0].p = a
  /\ \A i \in 0 .. Steps(a, b) : LineAt(a, b, i, walk[i])
  /\ \A i \in 1 .. Steps(a, b) : walk[i] = LineStep(a, b, walk[i - 1])

\* There is a walk that draws the line.
LEMMA LineIsDrawn ==
  ASSUME NEW a \in Int \X Int, NEW b \in Int \X Int
  PROVE  \E walk : DrawnBy(a, b, walk)
<1> DEFINE N     == Steps(a, b)
           first == [err |-> Magnitude(b[1] - a[1]) - Magnitude(b[2] - a[2]), p |-> a]
           S     == [err : Int, p : Int \X Int]
           G     == [n \in 1 .. N |-> [s \in S |-> LineStep(a, b, s)]]
           Round(f) == [i \in 0 .. Steps(a, b) |->
                          IF i = 0 THEN [err |-> Magnitude(b[1] - a[1]) - Magnitude(b[2] - a[2]),
                                         p |-> a]
                          ELSE LineStep(a, b, f[i - 1])]
           walk == CHOOSE f : f = Round(f)
<1>1. /\ N \in Nat /\ Across(a, b) \in Nat /\ Down(a, b) \in Nat
      /\ N = IF Across(a, b) >= Down(a, b) THEN Across(a, b) ELSE Down(a, b)
      /\ a[1] \in Int /\ a[2] \in Int /\ b[1] \in Int /\ b[2] \in Int /\ a = <<a[1], a[2]>>
  BY StepsAre
<1>2. first \in S /\ first.err = Across(a, b) - Down(a, b) /\ first.p = a
  BY <1>1 DEF Across, Down
<1>3. G \in [1 .. N -> [S -> S]]
  <2>1. ASSUME NEW s \in S PROVE LineStep(a, b, s) \in S
    <3>1. s.err \in Int /\ s.p[1] \in Int /\ s.p[2] \in Int
      OBVIOUS
    <3>2. /\ Magnitude(b[1] - a[1]) \in Int /\ Magnitude(b[2] - a[2]) \in Int
      BY <1>1 DEF Across, Down
    <3> QED
      BY <3>1, <3>2 DEF LineStep
  <2> HIDE DEF S
  <2> QED
    BY <2>1
<1> HIDE DEF N, first
<1>4. PICK g \in [0 .. N -> S] : g[0] = first /\ \A n \in 1 .. N : g[n] = G[n][g[n - 1]]
  <2> HIDE DEF G, S
  <2>1. \E f \in [0 .. N -> S] : Runs(f, N, first, G)
    BY <1>1, <1>2, <1>3, Loop
  <2> QED
    BY <2>1, Zenon DEF Runs
<1>5. g = Round(g)
  <2>1. ASSUME NEW n \in 1 .. N PROVE g[n] = LineStep(a, b, g[n - 1])
    <3>1. n - 1 \in 0 .. N
      BY <1>1
    <3>2. g[n - 1] \in S
      BY <3>1
    <3> HIDE DEF S
    <3> QED
      BY <1>4, <3>2
  <2>2. \A n \in 0 .. N : n = 0 \/ n \in 1 .. N
    BY <1>1
  <2>3. \A n \in 0 .. N : g[n] = IF n = 0 THEN first ELSE LineStep(a, b, g[n - 1])
    BY <1>4, <2>1, <2>2
  <2> HIDE DEF S
  <2> QED
    BY <2>3 DEF N, first
<1>6. walk = Round(walk)
  <2> HIDE DEF Round
  <2> QED
    BY <1>5
<1>7. LinePoints(a, b) = {walk[i].p : i \in 0 .. N}
  BY DEF LinePoints, N
<1> HIDE DEF walk
<1>8. walk[0] = first /\ \A n \in 1 .. N : walk[n] = LineStep(a, b, walk[n - 1])
  <2>1. 0 \in 0 .. N /\ \A n \in 1 .. N : n \in 0 .. N /\ n # 0
    BY <1>1
  <2>2. \A n \in 0 .. N : walk[n] = IF n = 0 THEN first ELSE LineStep(a, b, walk[n - 1])
    BY <1>6 DEF N, first
  <2> QED
    BY <2>1, <2>2
<1> DEFINE Good == {n \in 0 .. N : LineAt(a, b, n, walk[n])}
<1>9. 0 \in Good
  <2> DEFINE A == Across(a, b)
             D == Down(a, b)
  <2>1. A \in Nat /\ D \in Nat
    BY <1>1
  <2>2. A >= D => Walked(A, D, 0, 0, A - D)
    BY <2>1, WalkStarts
  <2>3. ~(A >= D) => Walked(D, A, 0, 0, D - A)
    BY <2>1, WalkStarts
  <2>4. first.err \in Int /\ first.err = A - D /\ - first.err = D - A /\ 0 \in Nat
    BY <1>2, <2>1
  <2>5. first.p = <<a[1] + 0 * Toward(a[1], b[1]), a[2] + 0 * Toward(a[2], b[2])>>
    <3>1. Toward(a[1], b[1]) \in Int /\ Toward(a[2], b[2]) \in Int
      BY DEF Toward
    <3> QED
      BY <1>1, <1>2, <3>1
  <2>6. IF A >= D THEN Walked(A, D, 0, 0, first.err) ELSE Walked(D, A, 0, 0, - first.err)
    BY <2>2, <2>3, <2>4
  <2>7. LineAt(a, b, 0, first)
    BY <2>4, <2>5, <2>6 DEF LineAt
  <2> QED
    BY <1>1, <1>8, <2>7
<1>10. ASSUME NEW n \in 1 .. N, n - 1 \in Good PROVE n \in Good
  <2>1. n - 1 \in 0 .. N - 1 /\ LineAt(a, b, n - 1, walk[n - 1]) /\ n - 1 + 1 = n /\ n \in 0 .. N
    BY <1>1, <1>10
  <2>2. LineAt(a, b, n - 1 + 1, LineStep(a, b, walk[n - 1]))
    BY <2>1, LineStepIs DEF N
  <2> QED
    BY <1>8, <2>1, <2>2
<1>11. Good = 0 .. N
  <2>1. Good \in SUBSET (0 .. N)
    OBVIOUS
  <2> HIDE DEF Good
  <2> QED
    BY <1>1, <1>9, <1>10, <2>1, Counted
<1>12. \A n \in 0 .. N : LineAt(a, b, n, walk[n])
  BY <1>11
<1>13. DrawnBy(a, b, walk)
  BY <1>2, <1>7, <1>8, <1>12 DEF DrawnBy, N
<1> QED
  BY <1>13

\* drawLine() draws from end to end: its loop meets the second end, and stops, after one
\* point for each step along the longer side, and each point is beside the one before.
THEOREM LinesAreLines ==
  ASSUME NEW a \in Int \X Int, NEW b \in Int \X Int
  PROVE  LineRight(a, b)
<1> DEFINE N    == Steps(a, b)
           line == LinePoints(a, b)
<1>1. N \in Nat
  BY StepsAre
<1>2. PICK walk : DrawnBy(a, b, walk)
  BY LineIsDrawn
<1> DEFINE P(i) == walk[i].p
<1>3. line = {P(i) : i \in 0 .. N} /\ P(0) = a
  BY <1>2 DEF DrawnBy
<1>4. ASSUME NEW i \in 0 .. N PROVE Steps(P(i), b) = N - i /\ (i = N => P(i) = b)
  <2>1. LineAt(a, b, i, walk[i])
    BY <1>2 DEF DrawnBy
  <2> QED
    BY <2>1, StepsLeft
<1>5. ASSUME NEW i \in 0 .. N - 1
      PROVE  /\ Magnitude(P(i + 1)[1] - P(i)[1]) <= 1
             /\ Magnitude(P(i + 1)[2] - P(i)[2]) <= 1
  <2>1. i \in 0 .. N /\ i + 1 \in 1 .. N /\ i + 1 - 1 = i
    BY <1>1
  <2>2. LineAt(a, b, i, walk[i]) /\ walk[i + 1] = LineStep(a, b, walk[i])
    BY <1>2, <2>1 DEF DrawnBy
  <2> QED
    BY <2>2, LineStepIs
<1> HIDE DEF P, N, line
<1>6. {a, b} \subseteq line
  <2>1. 0 \in 0 .. N /\ N \in 0 .. N
    BY <1>1
  <2> QED
    BY <1>3, <1>4, <2>1
<1>7. Cardinality(line) = N + 1
  <2> DEFINE f == [i \in 0 .. N |-> P(i)]
  <2>1. f \in Bijection(0 .. N, line)
    <3>1. f \in [0 .. N -> line] /\ \A t \in line : \E i \in 0 .. N : f[i] = t
      BY <1>3
    <3>2. ASSUME NEW i \in 0 .. N, NEW j \in 0 .. N, f[i] = f[j] PROVE i = j
      <4>1. N - i = N - j
        BY <1>4, <3>2
      <4> QED
        BY <1>1, <4>1
    <3> QED
      BY <3>1, <3>2 DEF Bijection, Injection, Surjection, IsInjective
  <2>2. IsFiniteSet(0 .. N) /\ Cardinality(0 .. N) = N + 1
    BY <1>1, FS_Interval
  <2>3. ExistsBijection(0 .. N, line)
    BY <2>1 DEF ExistsBijection
  <2> QED
    BY <2>2, <2>3, FS_Bijection
<1>8. ASSUME NEW p \in line \ {b}
      PROVE  \E q \in line \ {p} : /\ Magnitude(q[1] - p[1]) <= 1 /\ Magnitude(q[2] - p[2]) <= 1
                                   /\ Steps(q, b) < Steps(p, b)
  <2>1. PICK i \in 0 .. N : p = P(i)
    BY <1>3
  <2>2. i \in 0 .. N - 1 /\ i + 1 \in 0 .. N
    BY <1>1, <1>4, <1>8, <2>1
  <2>3. Steps(P(i + 1), b) = N - (i + 1) /\ Steps(p, b) = N - i
    BY <1>4, <2>1, <2>2
  <2>4. Steps(P(i + 1), b) < Steps(p, b)
    BY <1>1, <2>2, <2>3
  <2>5. P(i + 1) \in line /\ P(i + 1) # p
    BY <1>1, <1>3, <2>2, <2>3
  <2> QED
    BY <1>5, <2>1, <2>2, <2>4, <2>5
<1> QED
  BY <1>6, <1>7, <1>8 DEF LineRight, N, line

-----------------------------------------------------------------------------
(* All of them                                                             *)

\* The output chosen can be driven and is of the preferred type if any is, and the first
\* of those: for all that may be plugged in.
THEOREM OutputIsRight ==
  ASSUME NEW cs, DOMAIN cs \in SUBSET Nat, NEW preferredType, 0 \notin DOMAIN cs
  PROVE  OutputRight(cs, preferredType)
<1> DEFINE usable == {i \in DOMAIN cs : Drivable(cs[i])}
           wanted == {i \in usable : cs[i].type = preferredType}
           c      == ChooseConnector(cs, preferredType)
<1>1. c = IF wanted # {} THEN Min(wanted) ELSE Least(usable)
  BY DEF ChooseConnector
<1>2. /\ wanted \in SUBSET Nat /\ usable \in SUBSET Nat
      /\ \A i \in usable : i # 0 /\ i \in DOMAIN cs /\ Drivable(cs[i])
      /\ \A i \in wanted : i \in usable /\ cs[i].type = preferredType
      /\ \A i \in usable : cs[i].type = preferredType => i \in wanted
      /\ \A i \in DOMAIN cs : Drivable(cs[i]) => i \in usable
  OBVIOUS
<1> HIDE DEF usable, wanted, c
<1>3. CASE wanted # {}
  <2>1. c \in wanted /\ \A i \in wanted : c <= i
    BY <1>1, <1>2, <1>3, LeastOf
  <2>2. ASSUME NEW i \in DOMAIN cs, Drivable(cs[i]), i < c
        PROVE  cs[c].type = preferredType /\ cs[i].type # preferredType
    BY <1>2, <2>1, <2>2
  <2> QED
    BY <1>2, <2>1, <2>2 DEF OutputRight, c
<1>4. CASE wanted = {} /\ usable # {}
  <2>1. c \in usable /\ \A i \in usable : c <= i
    BY <1>1, <1>2, <1>4, LeastOf DEF Least
  <2>2. ASSUME NEW i \in DOMAIN cs, Drivable(cs[i])
        PROVE  ~ (i < c) /\ cs[i].type # preferredType
    BY <1>2, <1>4, <2>1, <2>2
  <2> QED
    BY <1>2, <2>1, <2>2 DEF OutputRight, c
<1>5. CASE wanted = {} /\ usable = {}
  BY <1>1, <1>2, <1>5 DEF OutputRight, c, Least
<1> QED
  BY <1>3, <1>4, <1>5

\* A colour survives the way to the panel and back.
LEMMA ColoursAreRight == ColoursRight
<1>1. /\ 2^5 = 32 /\ 2^6 = 64 /\ 2^(8 - 5) = 8 /\ 2^(2 * 5 - 8) = 4
      /\ 2^(8 - 6) = 4 /\ 2^(2 * 6 - 8) = 16
  OBVIOUS
<1>2. ASSUME NEW v \in 0 .. 31 PROVE (v * 8 + v \div 4) \div 8 = v
  OBVIOUS
<1>3. ASSUME NEW v \in 0 .. 63 PROVE (v * 4 + v \div 16) \div 4 = v
  OBVIOUS
<1>4. /\ Widen(0, 5) = 0 /\ Widen(2^5 - 1, 5) = 255
      /\ \A v \in 0 .. 2^5 - 1 : Narrow(Widen(v, 5), 5) = v
  BY <1>1, <1>2 DEF Widen, Narrow
<1>5. /\ Widen(0, 6) = 0 /\ Widen(2^6 - 1, 6) = 255
      /\ \A v \in 0 .. 2^6 - 1 : Narrow(Widen(v, 6), 6) = v
  BY <1>1, <1>3 DEF Widen, Narrow
<1>6. ASSUME NEW n \in {5, 6}
      PROVE  /\ Widen(0, n) = 0 /\ Widen(2^n - 1, n) = 255
             /\ \A v \in 0 .. 2^n - 1 : Narrow(Widen(v, n), n) = v
  <2>1. CASE n = 5
    BY <1>4, <2>1, Zenon
  <2>2. CASE n = 6
    BY <1>5, <2>2, Zenon
  <2> QED
    BY <2>1, <2>2
<1> QED
  BY <1>6, Zenon DEF ColoursRight

\* What TLC looks at is a part of that.
LEMMA HelpersAgree == AllRight
<1>1. ASSUME NEW cs \in Outputs PROVE OutputRight(cs, Preferred)
  <2>1. cs \in Seq(Connectors)
    BY OutputLists
  <2>2. DOMAIN cs = 1 .. Len(cs) /\ Len(cs) \in Nat
    BY <2>1
  <2>3. DOMAIN cs \in SUBSET Nat /\ 0 \notin DOMAIN cs
    BY <2>2
  <2> QED
    BY <2>3, OutputIsRight
<1>2. EveryHelper(0 .. 2, 1 .. 2)
  <2> DEFINE modes == [width : 0 .. 2, height : 0 .. 2, hz : 1 .. 2, preferred : BOOLEAN]
             some  == {m \in modes : m.width >= m.height}
  <2>1. ASSUME NEW m \in BoundedSeq(some, 3) PROVE ModeRight(m)
    <3>1. some \subseteq Modes
      BY DEF Modes
    <3> HIDE DEF some
    <3>2. PICK n \in 0 .. 3 : m \in [1 .. n -> some]
      BY DEF BoundedSeq, SeqOf
    <3>3. m \in Seq(Modes)
      BY <3>1, <3>2
    <3> QED
      BY <3>3, ModeIsRight DEF ModeList
  <2>2. ASSUME NEW x \in 0 .. 4, NEW y \in 0 .. 4, NEW w \in 0 .. 4, NEW h \in 0 .. 4
        PROVE  ClampRight(Region(x, y, w, h), 3, 2)
    <3>1. x \in Nat /\ y \in Nat /\ w \in Nat /\ h \in Nat /\ 3 \in Nat /\ 2 \in Nat
      OBVIOUS
    <3> QED
      BY <3>1, RegionClamped
  <2>3. ASSUME NEW min \in -1 .. 0, NEW max \in 1 .. 5, NEW size \in 2 .. 4
        PROVE  AxisRight(min, max, size)
    <3>1. min \in Int /\ max \in Int /\ size \in Nat \ {0} /\ min < max
      OBVIOUS
    <3> QED
      BY <3>1, AxisScaled
  <2> HIDE DEF some
  <2>4. \A m \in BoundedSeq(some, 3) : ModeRight(m)
    BY <2>1
  <2> QED
    BY <2>2, <2>3, <2>4, ColoursAreRight DEF EveryHelper, some
<1>3. ASSUME NEW a \in (0 .. 5) \X (0 .. 5), NEW b \in (0 .. 5) \X (0 .. 5) PROVE LineRight(a, b)
  <2>1. a \in Int \X Int /\ b \in Int \X Int
    OBVIOUS
  <2> QED
    BY <2>1, LinesAreLines
<1> QED
  BY <1>1, <1>2, <1>3 DEF AllRight

\* The helpers are right whenever they are called.
THEOREM HelpersAreRight == Spec => []HelpersRight
<1>1. HelpersRight
  BY HelpersAgree DEF HelpersRight
<1> QED
  BY <1>1, PTL
=============================================================================
