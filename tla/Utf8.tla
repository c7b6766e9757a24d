-------------------------------- MODULE Utf8 --------------------------------
(***************************************************************************)
(* The conversions between UTF-8 and code points of irccd/unicode.c.  A    *)
(* text is a sequence without its final zero; the masks and shifts of the  *)
(* code are remainders and quotients.  A result of -1 is an error.         *)
(***************************************************************************)
EXTENDS Integers, Sequences

\* The byte of a text at k, and the zero behind it.
Byte(src, k) == IF k <= Len(src) THEN src[k] ELSE 0

\* How many bytes a character takes, from its first byte or its code point.
uni8_sizeof(c) ==
    CASE c <= 127 -> 1
      [] c \div 32 = 6 -> 2
      [] c \div 16 = 14 -> 3
      [] c \div 8 = 30 -> 4
      [] OTHER -> -1

uni32_sizeof(c) ==
    CASE c <= 127 -> 1
      [] c \in 128..2047 -> 2
      [] c \in 2048..65535 -> 3
      [] c \in 65536..2097151 -> 4
      [] OTHER -> -1

Follows(x) == 128 + (x % 64)

\* The bytes of a point, where dstsz has room for them.
uni8_encode(dstsz, point) ==
    LET size == uni32_sizeof(point)
        p == point
    IN  IF size > dstsz THEN [n |-> -1, dst |-> <<>>]
        ELSE [n |-> size,
              dst |-> CASE size = 1 -> <<p>>
                        [] size = 2 -> <<192 + ((p \div 64) % 32), Follows(p)>>
                        [] size = 3 -> <<224 + ((p \div 4096) % 16), Follows(p \div 64), Follows(p)>>
                        [] size = 4 -> <<240 + ((p \div 262144) % 8), Follows(p \div 4096),
                                         Follows(p \div 64), Follows(p)>>
                        [] OTHER -> <<>>]

\* a | b of two numbers of which b has the bits from 2^12 to 2^17 only, and a
\* those from 2^16 to 2^18: the two that both may have are not added twice.
Or16(a, b) ==
    LET Bit(x) == (x \div 65536) % 4
        Either(x, y) == IF x = y \/ y = 0 THEN x ELSE IF x = 0 THEN y ELSE 3
    IN  (a - Bit(a) * 65536) + (b - Bit(b) * 65536) + Either(Bit(a), Bit(b)) * 65536

\* The point whose bytes src starts with.  The first of four is shifted by 16.
uni8_decode(src) ==
    LET size == uni8_sizeof(Byte(src, 1))
        Low(k) == Byte(src, k) % 64
    IN  IF \E k \in 2..size : Byte(src, k) = 0 THEN [n |-> -1, point |-> 0]
        ELSE [n |-> size,
              point |-> CASE size = 1 -> src[1]
                          [] size = 2 -> (src[1] % 32) * 64 + Low(2)
                          [] size = 3 -> (src[1] % 16) * 4096 + Low(2) * 64 + Low(3)
                          [] size = 4 -> Or16((src[1] % 8) * 65536, Low(2) * 4096) + Low(3) * 64 + Low(4)
                          [] OTHER -> 0]

\* The bytes of a text, counted character by character.
RECURSIVE uni8_length(_)
uni8_length(src) ==
    IF src = <<>> THEN 0
    ELSE LET gap == uni8_sizeof(src[1])
             rest == uni8_length(SubSeq(src, gap + 1, Len(src)))
         IN  IF gap = -1 \/ rest = -1 THEN -1 ELSE gap + rest

uni32_length(src) == Len(src)

RECURSIVE uni32_requires(_)
uni32_requires(src) ==
    IF src = <<>> THEN 0
    ELSE LET gap == uni32_sizeof(src[1])
             rest == uni32_requires(Tail(src))
         IN  IF gap = -1 \/ rest = -1 THEN -1 ELSE gap + rest

\* A result in front of the one of the rest.
Before(first, size, rest) ==
    IF rest.n = -1 THEN rest ELSE [n |-> size + rest.n, dst |-> first \o rest.dst]

Failed == [n |-> -1, dst |-> <<>>]

\* The final zero, where there is room for it.
Zero(dstsz) == IF dstsz = 0 THEN Failed ELSE [n |-> 0, dst |-> <<>>]

\* The whole text, as long as there is room.
RECURSIVE uni8_to32(_, _)
uni8_to32(src, dstsz) ==
    IF src = <<>> \/ dstsz = 0 THEN Zero(dstsz)
    ELSE LET d == uni8_decode(src)
         IN  IF d.n = -1 THEN Failed
             ELSE Before(<<d.point>>, 1, uni8_to32(SubSeq(src, d.n + 1, Len(src)), dstsz - 1))

RECURSIVE uni32_to8(_, _)
uni32_to8(src, dstsz) ==
    IF src = <<>> \/ dstsz = 0 THEN Zero(dstsz)
    ELSE LET e == uni8_encode(dstsz, src[1])
         IN  IF e.n = -1 THEN Failed
             ELSE Before(e.dst, e.n, uni32_to8(Tail(src), dstsz - e.n))
-----------------------------------------------------------------------------
\* Points written into dstsz bytes: it works exactly when each is a point that
\* four bytes can hold and uni32_requires and a zero fit; the bytes are then
\* as many as uni8_length says and, for points below 2^18, read back as the
\* same points into an array with room for one more, and into no smaller one.
PointsExact(points, dstsz) ==
    LET w == uni32_to8(points, dstsz)
        need == uni32_requires(points)
    IN  /\ (w.n # -1) <=> (need # -1 /\ need < dstsz)
        /\ w.n # -1 =>
             /\ w.n = need /\ Len(w.dst) = need /\ uni8_length(w.dst) = need
             /\ uni8_to32(w.dst, Len(points)).n = -1
             /\ (\A k \in DOMAIN points : points[k] < 262144) =>
                    uni8_to32(w.dst, Len(points) + 1) = [n |-> uni32_length(points), dst |-> points]
=============================================================================
