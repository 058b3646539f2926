-------------------------------- MODULE QrCode ---------------------------------
(***************************************************************************)
(* node-qrcode: what QRDot, QRCorner and the logo draw, as operations of a *)
(* context, and QRCanvas.init, which draws a matrix with them in steps.    *)
(* Matrix is what the qrcode library encoded: its dark modules.            *)
(***************************************************************************)
EXTENDS QrCanvas, QrLogo, TLC

CONSTANTS
    Matrix,         \* the dark modules, a set of <<x, y>>
    Drawings        \* the options and contents that are drawn

VARIABLES
    drawing,        \* the options of this drawing
    step,           \* how far init has come: columns, corners, the logo
    canvas          \* the context

qrvars == <<drawing, step, canvas>>

-----------------------------------------------------------------------------
(* The logo of a drawing, and the modules that are not drawn for it. *)
ErrorCorrectionLevel(length) ==
    IF length > 36 THEN "M" ELSE IF length > 16 THEN "Q" ELSE "H"

LevelOf(o) == IF o.level = "unset" THEN ErrorCorrectionLevel(o.length) ELSE o.level

LogoOf(o) ==
    LogoSize(DotSize(Width) \div Pixel, MaxHidden(LevelOf(o), Count), o.w, o.h, o.border)

Hidden(o, i, j) ==
    o.logo # "none" /\ InLogoRange(LogoOf(o), DotSize(Width) \div Pixel, Count, i, j)

-----------------------------------------------------------------------------
(* Which dots are drawn: not those of the three position patterns. *)
Corners == <<<<0, 0>>, <<Count - 7, 0>>, <<0, Count - 7>>>>

InMask(u, v) ==
    /\ u \in 0..6 /\ v \in 0..6
    /\ u \in {0, 6} \/ v \in {0, 6} \/ (u \in 2..4 /\ v \in 2..4)

FilterDots(o, i, j) ==
    /\ \A c \in ToSet(Corners) : ~InMask(i - c[1], j - c[2])
    /\ ~Hidden(o, i, j)

IsDarkTransposed(x, y) == <<y, x>> \in Matrix
IsDark(x, y) == <<x, y>> \in Matrix

Neighbour(o, i, j) == i \in Side /\ j \in Side /\ FilterDots(o, i, j) /\ IsDark(i, j)

-----------------------------------------------------------------------------
(* The dots of QRDot, around the centre of their module; N tells whether   *)
(* the neighbour at an offset is dark.                                     *)
RotateFigure(s, rotation) ==
    When(rotation > 0, <<Rotate(rotation)>>) \o <<Add(s)>> \o
    When(rotation > 0, <<Rotate(-rotation)>>)

BasicDot(r10) == <<Begin, Add(Disc(r10)), Fill>>

(* Three quarters of a module, an eighth of that off its corner. *)
Rounded ==
    LET size == (3 * D) \div 4
        off == size \div 8 + size \div 2 - D \div 2
    IN At(off, off, <<Begin, Add(Round(size \div 2, size \div 2, size \div 4)), Fill>>)

Fluid(N, line) ==
    LET Quarter(a, b) ==
            When(N[0, b] \/ N[a, 0],
                 <<FillBox(8 * (a - 1), 8 * (b - 1), 8 * (a + 1), 8 * (b + 1))>>)
        Diagonal(a) ==
            When(line /\ N[a, 1], <<Begin, Add(Line(a)), Stroke(D \div 4)>>)
    IN BasicDot(5 * D) \o Quarter(-1, -1) \o Quarter(1, -1) \o Quarter(1, 1)
       \o Quarter(-1, 1) \o Diagonal(-1) \o Diagonal(1)

Stripe(N, a, b) ==
    LET Half(sign) ==
            LET Reach(k) == IF k = 0 THEN <<-8, 8>> ELSE <<8 * (sign - 1), 8 * (sign + 1)>>
            IN When(N[sign * a, sign * b],
                    <<FillBox(Reach(a)[1], Reach(b)[1], Reach(a)[2], Reach(b)[2])>>)
    IN <<Begin, Add(Disc((10 * D) \div 4)), Fill>> \o Half(-1) \o Half(1)

Dot(o, i, j) ==
    LET N == [a \in -1..1, b \in -1..1 |-> Neighbour(o, i + a, j + b)]
        figure ==
            CASE o.dots = "tile" ->
                   RotateFigure(Box(-D \div 2, -D \div 2, D \div 2 - Pixel, D \div 2 - Pixel), 0)
              [] o.dots = "dot" -> BasicDot(4 * D)
              [] o.dots = "dot-small" -> BasicDot(3 * D)
              [] o.dots = "rounded" -> Rounded
              [] o.dots = "diamond" -> RotateFigure(Square((D * D) \div 8), 1)
              [] o.dots = "star" -> RotateFigure(Star, 1)
              [] o.dots = "fluid" -> Fluid(N, FALSE)
              [] o.dots = "fluid-line" -> Fluid(N, TRUE)
              [] o.dots = "stripe" -> Stripe(N, 1, 0)
              [] o.dots = "stripe-column" -> Stripe(N, 0, 1)
              [] OTHER -> RotateFigure(Box(-D \div 2, -D \div 2, D \div 2, D \div 2), 0)
    IN At(SampleAt(i, 0), SampleAt(j, 0), figure)

DrawColumn(o, i) ==
    LET Dots(ops, j) ==
            ops \o When(FilterDots(o, i, j) /\ IsDark(i, j), Dot(o, i, j))
    IN FoldLeft(Dots, <<>>, [k \in 1..Count |-> k - 1])

-----------------------------------------------------------------------------
(* The position patterns of QRCorner, around their centre: a line of one   *)
(* module's width, and an eye of three modules.                            *)
Circle(size, fill) ==
    <<Begin, Add(Disc(5 * (size - D))), Stroke(D)>> \o When(fill, <<Fill>>)

(* Curves of the corners are taken for the arcs of a round. *)
RoundedSquare(size, radius, fill, rotation) ==
    LET half == (size - D) \div 2
    IN <<Begin>> \o RotateFigure(Round(half, half, Max({radius, 0})), rotation)
       \o <<Stroke(D)>> \o When(fill, <<Fill>>)

(* A radius may be a number or one for each square; a zero of the latter   *)
(* counts as none.                                                         *)
RadiusOf(o, part, default) ==
    IF o.radius.kind = "number" THEN o.radius.value
    ELSE IF o.radius.kind = "none" \/ o.radius[part] = 0 THEN default
    ELSE o.radius[part]

Corner(o) ==
    LET outer == RadiusOf(o, "outer", D \div 2)
        inner == RadiusOf(o, "inner", D \div 4)
        Ring(r) == RoundedSquare(7 * D, r, FALSE, 0)
        Eye(r, rotation) == RoundedSquare(3 * D, r, TRUE, rotation)
    IN CASE o.corners = "circle" -> Circle(7 * D, FALSE) \o Circle(3 * D, TRUE)
         [] o.corners = "rounded" -> Ring(outer) \o Eye(inner, 0)
         [] o.corners = "rounded-circle" -> Ring(outer) \o Circle(3 * D, TRUE)
         [] o.corners = "circle-rounded" -> Circle(7 * D, FALSE) \o Eye(inner, 0)
         [] o.corners = "circle-diamond" -> Circle(7 * D, FALSE) \o Eye(0, 1)
         [] o.corners = "circle-star" ->
              Circle(7 * D, FALSE) \o <<Begin, Add(InnerStar), Fill>>
         [] OTHER -> Ring(0) \o Eye(0, 0)

DrawCorner(o, c) == At(SampleAt(c[1] + 3, 0), SampleAt(c[2] + 3, 0), Corner(o))

(* The logo over the middle: its ground, and the picture in it. *)
DrawLogo(o) ==
    LET logo == LogoOf(o)
        Half(px) == (Pixel * px) \div 2
        iw == Half(logo.innerWidth)
        ih == Half(logo.innerHeight)
        cx == Width \div 2
        ground == <<Begin, Add(Round(Half(logo.width), Half(logo.height), 8 * Pixel)),
                    <<"fill", "light">>>>
        picture == <<"box", Box(-iw, -ih, iw, ih), "picture">>
        pattern == <<Translate(-iw, -ih), Begin,
                     <<"add", Round(iw, ih, o.logoRadius * Pixel), iw, ih>>,
                     <<"fill", "picture">>, Translate(iw - cx, ih - cx)>>
    IN <<Translate(cx, cx)>> \o ground \o
       (IF o.logoRadius > 0 THEN pattern ELSE <<picture, Translate(-cx, -cx)>>)

-----------------------------------------------------------------------------
(* QRCanvas.init: a blank page, the dots column by column and the path     *)
(* they left, the corners, and the logo if there is one.                   *)
QrInit ==
    /\ drawing \in Drawings
    /\ step = 0
    /\ canvas = Blank

DrawDots ==
    /\ step < Count
    /\ canvas' = Draw(canvas, DrawColumn(drawing, step) \o When(step = Count - 1, <<Fill>>))

DrawCorners ==
    /\ step \in Count..(Count + 2)
    /\ canvas' = Draw(canvas, DrawCorner(drawing, Corners[step - Count + 1]))

DrawTheLogo ==
    /\ step = Count + 3
    /\ canvas' = Draw(canvas, When(drawing.logo # "none", DrawLogo(drawing)))

QrNext ==
    /\ DrawDots \/ DrawCorners \/ DrawTheLogo
    /\ step' = step + 1
    /\ UNCHANGED drawing

-----------------------------------------------------------------------------
Drawn == step = Count + 4

InFinder(i, j) == \E c \in ToSet(Corners) : i - c[1] \in 0..6 /\ j - c[2] \in 0..6

LostTo(o) == IF o.logo = "none" THEN {} ELSE Lost(LogoOf(o), DotSize(Width) \div Pixel, Count)

(* Dark, light, three dark, light, dark along some line through a finder. *)
Scans(c, across) ==
    \E b \in Offsets : \A k \in 0..6 :
        LET p == IF across THEN Sample(c[1] + k, c[2] + 3, 0, b)
                 ELSE Sample(c[1] + 3, c[2] + k, b, 0)
        IN (p \in canvas.ink) <=> (k \notin {1, 5})

(* Dots that are meant to flow into each other do. *)
Joined(i, j, a, b) ==
    LET across == {<<14, 0>>} \cup IF drawing.dots \in {"fluid", "fluid-line"}
                                   THEN {<<14, -14>>, <<14, 14>>} ELSE {}
    IN \A s \in across :
          Sample(i, j, s[1] * a + s[2] * b, s[1] * b + s[2] * a) \in canvas.ink

Joins(a, b) ==
    drawing.dots \in {"fluid", "fluid-line"} \cup
                     (IF a = 1 THEN {"stripe"} ELSE {"stripe-column"})

(***************************************************************************)
(* Whatever the dots and the corners, and beside a logo, the page is the   *)
(* code: the centre of every module is dark if and only if the module is,  *)
(* each position pattern is found by a line across it and a line down it,  *)
(* and neighbours that should flow into each other do.  The picture is     *)
(* built from paths, transforms and fills of several classes.              *)
(***************************************************************************)
RendersCode ==
    Drawn =>
        /\ \A i \in Side, j \in Side :
              ~InFinder(i, j) /\ <<i, j>> \notin LostTo(drawing)
                  => (Centre(i, j) \in canvas.ink <=> <<i, j>> \in Matrix)
        /\ \A c \in ToSet(Corners) : Scans(c, TRUE) /\ Scans(c, FALSE)
        /\ \A i \in Side, j \in Side, d \in {<<1, 0>>, <<0, 1>>} :
              Joins(d[1], d[2]) /\ Neighbour(drawing, i, j)
              /\ Neighbour(drawing, i + d[1], j + d[2]) => Joined(i, j, d[1], d[2])

=============================================================================
