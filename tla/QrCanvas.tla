------------------------------ MODULE QrCanvas -------------------------------
(***************************************************************************)
(* How node-qrcode draws a matrix: QRCanvas.init step by step, with QRDot, *)
(* QRCorner and the logo.  A drawing is a sequence of operations on a 2D   *)
(* context, whose transform, path and colours are kept as canvas keeps     *)
(* them.  What is drawn is looked at in nine samples of every module.      *)
(*                                                                         *)
(* Lengths are in quarters of a pixel and a module is 8 pixels wide.       *)
(***************************************************************************)
EXTENDS Integers, FiniteSets, SequencesExt

CONSTANT Count          \* modules per side

D == 32
Pixel == 4
Margin == 4 * Pixel
Width == Count * D + 2 * Margin

(* Where the matrix begins: dotSize and offset of saveQRCodeData. *)
DotSize(width) == Pixel * ((width - 2 * Margin) \div (Count * Pixel))
Offset(width) == (width - Count * DotSize(width)) \div 2

Side == 0..(Count - 1)
SampleAt(m, o) == Offset(Width) + D * m + D \div 2 + o
Sample(i, j, a, b) == <<SampleAt(i, a), SampleAt(j, b)>>
Offsets == {-14, 0, 14}
Centre(i, j) == Sample(i, j, 0, 0)

-----------------------------------------------------------------------------
(***************************************************************************)
(* Shapes, around the origin of the transform they are added under: boxes, *)
(* squares by the square of half their side, discs by ten times the        *)
(* radius, rounded boxes, the two stars, and lines of a diagonal.          *)
(***************************************************************************)
Box(x1, y1, x2, y2) == [form |-> "box", p |-> <<x1, y1, x2, y2>>, reach |-> 1]
Square(half2) == [form |-> "square", p |-> <<half2>>, reach |-> 1]
Disc(r10) == [form |-> "disc", p |-> <<r10>>, reach |-> 1 + r10 \div (10 * D)]
Round(w, h, r) ==
    [form |-> "round", p |-> <<w, h, Min({r, w, h})>>, reach |-> 1 + Max({w, h}) \div D]
Star == [form |-> "star", p |-> <<>>, reach |-> 1]
InnerStar == [form |-> "inner star", p |-> <<>>, reach |-> 2]
Line(sign) == [form |-> "line", p |-> <<sign>>, reach |-> 1]

Abs(v) == IF v < 0 THEN -v ELSE v

InRound(w, h, r, x, y) ==
    /\ Abs(x) <= w /\ Abs(y) <= h
    /\ LET u == Abs(x) - (w - r)
           v == Abs(y) - (h - r)
       IN u <= 0 \/ v <= 0 \/ u * u + v * v <= r * r

InTurned(half2, x, y) ==
    (x + y) * (x + y) <= 2 * half2 /\ (x - y) * (x - y) <= 2 * half2

Inside(s, x, y) ==
    CASE s.form = "box" -> s.p[1] <= x /\ x <= s.p[3] /\ s.p[2] <= y /\ y <= s.p[4]
      [] s.form = "square" -> IF s.turned THEN InTurned(s.p[1], x, y)
                              ELSE x * x <= s.p[1] /\ y * y <= s.p[1]
      [] s.form = "disc" -> 100 * (x * x + y * y) <= s.p[1] * s.p[1]
      [] s.form = "round" -> IF s.turned THEN InTurned(s.p[1] * s.p[1], x, y)
                             ELSE InRound(s.p[1], s.p[2], s.p[3], x, y)
      [] s.form = "star" ->
           LET u == x + y
               v == x - y
           IN /\ u * u <= 512 /\ v * v <= 512
              /\ (64 * u) * (64 * u) <= 2 * (512 + v * v) * (512 + v * v)
              /\ (64 * v) * (64 * v) <= 2 * (512 + u * u) * (512 + u * u)
      [] s.form = "inner star" ->
           /\ Abs(x) <= 48 /\ Abs(y) <= 48
           /\ 192 * Abs(x) <= 6912 + y * y
           /\ 192 * Abs(y) <= 6912 + x * x
      [] s.form = "line" -> FALSE

(* The line of a given width along the edge of a shape. *)
OnEdge(s, width, x, y) ==
    LET half == width \div 2
    IN CASE s.form = "disc" ->
              LET d == 100 * (x * x + y * y)
                  near == s.p[1] - 10 * half
                  far == s.p[1] + 10 * half
              IN near * near <= d /\ d <= far * far
         [] s.form = "round" ->
              LET far == s.p[1] + half
                  near == s.p[1] - half
                  r == s.p[3]
              IN IF s.turned
                 THEN InTurned(far * far, x, y) /\ ~InTurned(near * near, x, y)
                 ELSE /\ InRound(far, far, IF r = 0 THEN 0 ELSE r + half, x, y)
                      /\ ~InRound(near, near, Max({r - half, 0}), x, y)
         [] s.form = "line" ->
              LET u == s.p[1] * x
              IN (u - y) * (u - y) <= 2 * half * half /\ 0 <= u + y /\ u + y <= 2 * D

(* The samples around a placed shape, and those of them it covers. *)
Around(s) ==
    LET Near(v) == {m \in Side : Abs(SampleAt(m, 0) - v) <= (s.reach + 1) * D}
    IN {Sample(i, j, a, b) : i \in Near(s.x), j \in Near(s.y), a \in Offsets, b \in Offsets}

Covered(s) == {p \in Around(s) : Inside(s, p[1] - s.x, p[2] - s.y)}
Stroked(s, width) == {p \in Around(s) : OnEdge(s, width, p[1] - s.x, p[2] - s.y)}

-----------------------------------------------------------------------------
(***************************************************************************)
(* The context: the origin of its transform, whether that is turned by an  *)
(* eighth, its path and the samples that are dark.  A path grows until     *)
(* beginPath, whatever is filled in between.                               *)
(***************************************************************************)
Blank == [x |-> 0, y |-> 0, turned |-> FALSE, path |-> {}, ink |-> {}]

Placed(cv, s, x, y) ==
    [form |-> s.form, p |-> s.p, reach |-> s.reach, turned |-> cv.turned,
     x |-> cv.x + x, y |-> cv.y + y]

Paint(cv, points, colour) ==
    [cv EXCEPT !.ink = IF colour = "dark" THEN @ \cup points ELSE @ \ points]

Apply(cv, op) ==
    CASE op[1] = "translate" -> [cv EXCEPT !.x = @ + op[2], !.y = @ + op[3]]
      [] op[1] = "rotate" -> [cv EXCEPT !.turned = op[2] > 0]
      [] op[1] = "begin" -> [cv EXCEPT !.path = {}]
      [] op[1] = "add" -> [cv EXCEPT !.path = @ \cup {Placed(cv, op[2], op[3], op[4])}]
      [] op[1] = "fill" -> Paint(cv, UNION {Covered(s) : s \in cv.path}, op[2])
      [] op[1] = "stroke" -> Paint(cv, UNION {Stroked(s, op[2]) : s \in cv.path}, "dark")
      [] op[1] = "box" -> Paint(cv, Covered(Placed(cv, op[2], 0, 0)), op[3])

Draw(cv, ops) == FoldLeft(Apply, cv, ops)

Translate(x, y) == <<"translate", x, y>>
Rotate(eighth) == <<"rotate", eighth>>
Begin == <<"begin">>
Fill == <<"fill", "dark">>
Stroke(width) == <<"stroke", width>>
Add(s) == <<"add", s, 0, 0>>
FillBox(x1, y1, x2, y2) == <<"box", Box(x1, y1, x2, y2), "dark">>
When(condition, ops) == IF condition THEN ops ELSE <<>>
At(x, y, ops) == <<Translate(x, y)>> \o ops \o <<Translate(-x, -y)>>

=============================================================================
