-------------------------------- MODULE QrLogo ---------------------------------
(***************************************************************************)
(* The logo of node-qrcode: the part of the error correction it may cost,  *)
(* its size for a picture of w to h, and the modules that are not drawn    *)
(* for it.  Lengths are whole pixels, dot is the width of a module.        *)
(***************************************************************************)
EXTENDS Integers

Percent == [L |-> 7, M |-> 15, Q |-> 25, H |-> 30]

MaxHiddenLinear(level, count) == (Percent[level] * count * count) \div 100
MaxHidden(level, count) ==
    (Percent[level] * Percent[level] * count * count) \div 10000

FloorSqrt(n, m) == CHOOSE k \in 0..n : k * k * m <= n /\ (k + 1) * (k + 1) * m > n

LogoSize(dot, hidden, w, h, border) ==
    LET maxHeight == FloorSqrt(dot * dot * hidden * h, w)
        innerHeight == IF w > h THEN maxHeight - 2 * border
                       ELSE (((maxHeight * w) \div h - 2 * border) * h) \div w
        innerWidth == IF w > h THEN (innerHeight * w) \div h
                      ELSE (maxHeight * w) \div h - 2 * border
    IN [width |-> innerWidth + 2 * border, height |-> innerHeight + 2 * border,
        innerWidth |-> innerWidth, innerHeight |-> innerHeight]

Ceil(a, b) == (a + b - 1) \div b

(* The range of columns, or rows, is centred, so that it may begin at a half. *)
InLogoRange(logo, dot, count, i, j) ==
    LET Between(k, length) ==
            /\ 2 * k >= count - Ceil(length, dot)
            /\ 2 * k <= count + Ceil(length, dot) - 2
    IN Between(i, logo.width) /\ Between(j, logo.height)

-----------------------------------------------------------------------------
(* The modules a logo costs: not drawn for it, or with their centre, in    *)
(* half modules from that of the code, under it.                           *)
UnderLogo(logo, dot, count, i, j) ==
    LET Covers(k, length) == (2 * k + 1 - count) * dot \in (-length)..length
    IN Covers(i, logo.width) /\ Covers(j, logo.height)

Lost(logo, dot, count) ==
    {m \in (0..(count - 1)) \X (0..(count - 1)) :
        InLogoRange(logo, dot, count, m[1], m[2]) \/ UnderLogo(logo, dot, count, m[1], m[2])}

=============================================================================
