------------------------------- MODULE MCScout -------------------------------
(* A small instance of Scout.  A scene is drawn from objects on a frame of *)
(* twelve by eight pixels; the objects of a scene do not touch.  The light *)
(* falls off along a plane, and a plane is fitted to it: three terms for   *)
(* the code's ten, and paper at level 8, which keeps the numbers small.    *)
EXTENDS Scout

W == 12
H == 8
Block(x, y, w, h) == {(y + j) * W + x + i : i \in 0 .. w - 1, j \in 0 .. h - 1}
Square(x, y, n)   == Block(x, y, n, n)
Ring(x, y)        == Square(x, y, 4) \ Square(x + 1, y + 1, 2)

Pixel(format, v) == CASE format = "yuyv" -> <<v, 5>> [] format = "rgb888" -> <<v, v, v>>
                      [] OTHER -> <<v>>

\* Paper at 8 and, in the left half, in the shade at 7; objects at 1, those on the right at 2.
Shaded(objects, i) == IF i \in UNION objects THEN IF i % W < 6 THEN 1 ELSE 2
                      ELSE IF i % W < 6 THEN 7 ELSE 8

\* A lamp on the right: paper from 9 to 31, where objects are brighter than it is on the left.
Lit(objects, i) == LET paper == 9 + 2 * (i % W)
                   IN  IF i \in UNION objects THEN (2 * paper) \div 7 ELSE paper

Drawn(format, objects, Level(_, _)) ==
  [frame   |-> [width |-> W, height |-> H, format |-> format,
                pixels |-> [k \in 1 .. W * H |-> Pixel(format, Level(objects, k - 1))]],
   objects |-> objects]
Scene(format, objects) == Drawn(format, objects, Shaded)
Lamp(format, objects)  == Drawn(format, objects, Lit)

\* The plane of the least squares: Cramer's rule on the normal equations.
Det(a, b, c) == a[1] * (b[2] * c[3] - b[3] * c[2]) - a[2] * (b[1] * c[3] - b[3] * c[1])
                  + a[3] * (b[1] * c[2] - b[2] * c[1])

MCPlane(g, level) ==
  LET T(i)   == <<1, At(g, i).x \div 2, At(g, i).y \div 2>>
      Sum(f) == SumFunctionOnSet(f, DOMAIN level)
      m      == [j, k \in 1 .. 3 |-> Sum([i \in DOMAIN level |-> T(i)[j] * T(i)[k]])]
      col(k) == <<m[1, k], m[2, k], m[3, k]>>
      v      == [j \in 1 .. 3 |-> Sum([i \in DOMAIN level |-> T(i)[j] * level[i]])]
      det    == Det(col(1), col(2), col(3))
      top    == <<Det(v, col(2), col(3)), Det(col(1), v, col(3)), Det(col(1), col(2), v)>>
  IN  IF det = 0 THEN {}
      ELSE {[i \in 0 .. g.w * g.h - 1 |->
               (50 * (2 * top[1] + At(g, i).x * top[2] + At(g, i).y * top[3])) \div det]}

Ref  == Square(1, 1, 4)
Rod  == Block(6, 6, 5, 1)
Cut  == Block(6, 0, 6, 2)     \* runs off the frame
Dust == Block(3, 6, 1, 2)
Setup(format, objects, side) == [scene |-> Scene(format, objects), side |-> side]

MCSetups == <<
  Setup("yuyv", {Ref, Rod}, 1600),
  Setup("gray8", {Ref, Rod, Cut, Dust, Block(8, 3, 3, 1)}, 1600),
  Setup("yuyv", {Ref, Rod}, 1000),                         \* too thin for any size
  Setup("rgb888", {Ref, Ring(6, 2)}, 1696),              \* between M10 and M12
  Setup("yuyv", {Ref, Ring(6, 2), Block(11, 2, 1, 6)}, 350),   \* too small for a part
  Setup("yuyv", {Ref, Block(7, 2, 2, 3), Dust}, 1600),     \* neither compact nor a rod
  Setup("yuyv", {Ref, Square(7, 3, 3)}, 1600),             \* two squares
  Setup("yuyv", {Ref, Square(7, 3, 2)}, 1600),             \* a small square without a bore
  Setup("yuyv", {Cut, Rod}, 1600),                         \* no square
  Setup("yuyv", {}, 1600),
  [scene |-> Lamp("yuyv", {Ref, Block(6, 5, 5, 1)}), side |-> 1600],
  [scene |-> Lamp("gray8", {Ref, Ring(6, 2)}), side |-> 1696],
  [scene |-> Lamp("yuyv", {Square(7, 2, 4), Block(1, 2, 5, 1)}), side |-> 1600],
  Setup("mjpeg", {Ref, Rod}, 1600) >>

\* Every picture of 4 x 3 pixels, five pixels of four levels, up to five words.
MCPictures == {[grid |-> [w |-> 4, h |-> 3], dark |-> dark] : dark \in SUBSET (0 .. 11)}
MCGrays    == [1 .. 5 -> {0, 1, 3, 8}]
MCPhrases  == BoundedSeq({"a", "bb", "cccc", "dddddd"}, 5)

\* On these samples the code differs from the comments of countHoles() and wrap().
ASSUME CommentsDiffer == /\ \E p \in MCPictures : ~ FirstBeside(p.grid, p.dark)
                         /\ \E words \in MCPhrases : ~ LinesFit(words, 5, 2)
                         /\ \E words \in MCPhrases : ~ DotsTell(words, 5, 2)
=============================================================================
