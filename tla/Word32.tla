------------------------------- MODULE Word32 -------------------------------
(***************************************************************************)
(* Unsigned 32-bit arithmetic.  A word is <<high, low>>, two halves of 16  *)
(* bits, so that no intermediate result leaves the integers TLC computes   *)
(* with.                                                                   *)
(***************************************************************************)
EXTENDS Integers, FiniteSets

H == 65536
Uint32 == (0..H - 1) \X (0..H - 1)
W(n) == <<(n \div H) % H, n % H>>              \* of a small integer

AddW(a, b) == LET lo == a[2] + b[2]
              IN <<(a[1] + b[1] + lo \div H) % H, lo % H>>

\* Bit by bit: an operation on numbers of twice as many bits, each half below d
Twice(op(_, _), d, x, y) == op(x % d, y % d) + d * op(x \div d, y \div d)
Xor1(x, y) == (x + y) % 2
Xor2(x, y) == Twice(Xor1, 2, x, y)
Xor4(x, y) == Twice(Xor2, 4, x, y)
Xor8(x, y) == Twice(Xor4, 16, x, y)
XorH(x, y) == Twice(Xor8, 256, x, y)
AndH(x, y) == (x + y - XorH(x, y)) \div 2      \* the bits that carry

XorW(a, b) == <<XorH(a[1], b[1]), XorH(a[2], b[2])>>
AndW(a, b) == <<AndH(a[1], b[1]), AndH(a[2], b[2])>>
OrW(a, b)  == AddW(XorW(a, b), AndW(a, b))
LessW(a, b) == a[1] < b[1] \/ (a[1] = b[1] /\ a[2] < b[2])

\* The product of two halves as a word: y is taken byte by byte.
MulH(x, y) == LET p == x * (y % 256)
                  q == x * (y \div 256)
              IN AddW(W(p), <<q \div 256, (q % 256) * 256>>)

MulW(a, b) == LET p == MulH(a[2], b[2])
              IN <<(p[1] + MulH(a[1], b[2])[2] + MulH(a[2], b[1])[2]) % H, p[2]>>

\* The upper word of the 64-bit product
MulHiW(a, b) ==
    LET ll == MulH(a[2], b[2])   lh == MulH(a[2], b[1])
        hl == MulH(a[1], b[2])   hh == MulH(a[1], b[1])
        carry == (ll[1] + lh[2] + hl[2]) \div H
    IN AddW(hh, W(lh[1] + hl[1] + carry))

\* Shifts by 0..31, rotations by any amount
ShlW(a, n) == IF n >= 16 THEN <<(a[2] * 2^(n - 16)) % H, 0>>
              ELSE <<(a[1] * 2^n + (a[2] * 2^n) \div H) % H, (a[2] * 2^n) % H>>
ShrW(a, n) == IF n >= 16 THEN <<0, a[1] \div 2^(n - 16)>>
              ELSE <<a[1] \div 2^n, (a[1] % 2^n) * 2^(16 - n) + a[2] \div 2^n>>
RotlW(a, n) == IF n % 32 = 0 THEN a
               ELSE AddW(ShlW(a, n % 32), ShrW(a, 32 - (n % 32)))
RotrW(a, n) == RotlW(a, 32 - (n % 32))

\* The remainder by a small integer (below 2^15)
ModW(a, n) == ((a[1] % n) * (H % n) + (a[2] % n)) % n

Ones(a) == {b \in 0..31 : (a[2 - (b \div 16)] \div 2^(b % 16)) % 2 = 1}
PopcountW(a) == W(Cardinality(Ones(a)))
ClzW(a) == W(Cardinality({b \in 0..31 : \A o \in Ones(a) : o < b}))
=============================================================================
