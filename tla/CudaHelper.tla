----------------------------- MODULE CudaHelper -----------------------------
(***************************************************************************)
(* The word primitives of libethash-cuda/cuda_helper.h.  A uint32_t is an  *)
(* integer below R, four bytes of ByteBits bits each (8 in the code; the   *)
(* primitives depend on the width through R and the byte alone), a         *)
(* uint64_t an integer below R * R, a uint2 a record [x |-> low word,      *)
(* y |-> high word] and a uint4 a pair of them.  The inline PTX is read by *)
(* the rules of the instruction set: a shift clamps its amount, wrap takes *)
(* it modulo the width, .cc leaves a carry that addc adds.                 *)
(***************************************************************************)
EXTENDS Integers, Sequences, Bitwise

CONSTANT ByteBits

Width == 4 * ByteBits                 \* 32
R == 2^Width
make_uint2(x, y) == [x |-> x, y |-> y]

\* shl, shr and the funnel shifts of PTX; hi:lo is the pair they shift
shl_t32(x, n) == IF n >= Width THEN 0 ELSE (x * 2^n) % R
shr_t32(x, n) == IF n >= Width THEN 0 ELSE x \div 2^n
shl_t64(x, n) == IF n >= 2 * Width THEN 0 ELSE (x * 2^n) % (R * R)
shr_t64(x, n) == IF n >= 2 * Width THEN 0 ELSE x \div 2^n
shf_l(lo, hi, n) == (((hi * R + lo) * 2^n) \div R) % R
shf_r(lo, hi, n) == ((hi * R + lo) \div 2^n) % R
Wrap(n) == n % Width
Clamp(n) == IF n > Width THEN Width ELSE n

\* __byte_perm(a, b, s): digit k of s, from the right, names byte k of the
\* result, bytes 0 to 3 being those of a and 4 to 7 those of b
byte_perm(a, b, s) ==
    LET src == b * R + a
        At(k) == (src \div 2^(ByteBits * s[4 - k])) % 2^ByteBits
    IN At(0) + 2^ByteBits * (At(1) + 2^ByteBits * (At(2) + 2^ByteBits * At(3)))

-----------------------------------------------------------------------------
(* Words and pairs.                                                         *)

MAKE_ULONGLONG(LO, HI) == HI * R + LO
_LOWORD(x) == x % R
_HIWORD(x) == x \div R
REPLACE_HIWORD(x, y) == MAKE_ULONGLONG(_LOWORD(x), y)
REPLACE_LOWORD(x, y) == MAKE_ULONGLONG(y, _HIWORD(x))
devectorize(v) == MAKE_ULONGLONG(v.x, v.y)
vectorize(x) == make_uint2(_LOWORD(x), _HIWORD(x))
SWAPDWORDS(x) == MAKE_ULONGLONG(_HIWORD(x), _LOWORD(x))
SWAPDWORDS2(v) == make_uint2(v.y, v.x)
vectorize16(x) == [x |-> x % 2^(2 * ByteBits), y |-> x \div 2^(2 * ByteBits)]
devectorize16(v) == v.y * 2^(2 * ByteBits) + v.x

cuda_swab32(x) == byte_perm(x, x, <<0, 1, 2, 3>>)
cuda_swab64(x) == LET t == vectorize(x)
                      Swapped(h) == byte_perm(h, 0, <<0, 1, 2, 3>>)
                  IN MAKE_ULONGLONG(Swapped(t.y), Swapped(t.x))
devectorizeswap(v) == MAKE_ULONGLONG(cuda_swab32(v.y), cuda_swab32(v.x))
vectorizeswap(x) == make_uint2(cuda_swab32(_HIWORD(x)), cuda_swab32(_LOWORD(x)))

\* Rotations of a 64-bit word: by shifts (USE_ROT_ASM_OPT 2, the default)
\* and by funnel shifts (1; 3 moves the same two results)
ROTL64(x, n) == (shl_t64(x, n) + shr_t64(x, 2 * Width - n)) % (R * R)
ROTR64(x, n) == (shl_t64(x, 2 * Width - n) + shr_t64(x, n)) % (R * R)

\* 16 bits are two bytes: the four short words move by one place
ROTR16(x) == LET short == 2^(2 * ByteBits) 
             IN (x \div short) + (x % short) * ((R * R) \div short)
ROTL16(x) == LET rest == (R * R) \div 2^(2 * ByteBits)
             IN (x \div rest) + (x % rest) * 2^(2 * ByteBits)

\* Rotations of a pair, for architectures from 3.5 on ...
ROL2(a, n) == LET in == IF n >= Width THEN a ELSE make_uint2(a.y, a.x)
              IN make_uint2(shf_l(in.x, in.y, Wrap(n)), shf_l(in.y, in.x, Wrap(n)))
ROR2(a, n) == LET in == IF n < Width THEN a ELSE make_uint2(a.y, a.x)
              IN make_uint2(shf_r(in.x, in.y, Wrap(n)), shf_r(in.y, in.x, Wrap(n)))
\* ... and before
ROL2_Old(v, n) ==
    LET in == IF n <= Width THEN v ELSE make_uint2(v.y, v.x)
        m  == IF n <= Width THEN n ELSE n - Width
        Half(p, q) == shl_t32(p, m) | shr_t32(q, Width - m)
    IN make_uint2(Half(in.x, in.y), Half(in.y, in.x))
ROR2_Old(v, n) ==
    LET in == IF n <= Width THEN v ELSE make_uint2(v.y, v.x)
        m  == IF n <= Width THEN n ELSE n - Width
        Half(p, q) == shr_t32(p, m) | shl_t32(q, Width - m)
    IN make_uint2(Half(in.x, in.y), Half(in.y, in.x))

\* Rotations by whole bytes: one selector for each half of the result
Permuted(a, lo, hi) == make_uint2(byte_perm(a.y, a.x, lo), byte_perm(a.y, a.x, hi))
RORBytes(a, k) ==
    CASE k = 1 -> Permuted(a, <<0, 7, 6, 5>>, <<4, 3, 2, 1>>)
      [] k = 2 -> Permuted(a, <<1, 0, 7, 6>>, <<5, 4, 3, 2>>)
      [] k = 3 -> Permuted(a, <<2, 1, 0, 7>>, <<6, 5, 4, 3>>)
ROLBytes(a, k) ==
    CASE k = 1 -> Permuted(a, <<6, 5, 4, 3>>, <<2, 1, 0, 7>>)
      [] k = 2 -> Permuted(a, <<5, 4, 3, 2>>, <<1, 0, 7, 6>>)
      [] k = 3 -> Permuted(a, <<4, 3, 2, 1>>, <<0, 7, 6, 5>>)
ROLBytes32(x, k) ==
    byte_perm(x, x, <<<<2, 1, 0, 3>>, <<1, 0, 3, 2>>, <<0, 3, 2, 1>>>>[k])
ROTL32(x, n) == shf_l(x, x, Wrap(n))
ROTR32(x, n) == shf_r(x, x, Wrap(n))

\* Shifts of a pair.  From a whole word on, the funnel shifts of SHL2 and
\* SHR2 clamp their amount, and those of SHR2 go left.
SHL2(a, n) == LET in == IF n < Width THEN a ELSE make_uint2(a.y, a.x)
              IN make_uint2(shl_t32(in.x, n), shf_l(in.x, in.y, Clamp(n)))
SHR2(a, n) == IF n < Width THEN make_uint2(shf_r(a.x, a.y, Clamp(n)), shr_t32(a.y, n))
              ELSE make_uint2(shf_l(a.y, a.x, Clamp(n)), shl_t32(a.x, n))
\* The older architectures' shifts of a pair.
SHL2_Old(a, n) == IF n <= Width THEN make_uint2(shl_t32(a.x, n), shl_t32(a.y, n) | shr_t32(a.x, Width - n))
                  ELSE make_uint2(0, shl_t32(a.x, n - Width))
SHR2_Old(a, n) == IF n <= Width THEN make_uint2(shr_t32(a.x, n) | shl_t32(a.y, Width - n), shr_t32(a.y, n))
                  ELSE make_uint2(shr_t32(a.y, n - Width), 0)

-----------------------------------------------------------------------------
(* Arithmetic and logic.                                                    *)

AddPair(a, b) == LET lo == a.x + b.x
                 IN make_uint2(lo % R, (a.y + b.y + (lo \div R)) % R)
SubPair(a, b) == LET borrow == IF a.x < b.x THEN 1 ELSE 0
                 IN make_uint2((a.x - b.x) % R, (a.y - b.y - borrow) % R)

\* mul.lo, mul.hi, mad.lo.cc of a.y and b.x, madc.lo of a.y and b.y
MulPair(a, b) ==
    LET first == a.x * b.x
        mad   == ((a.y * b.x) % R) + (first \div R)
    IN make_uint2(first % R, (a.y * b.y + mad + (mad \div R)) % R)

\* The halves of a uint4 are pairs; madd4 multiplies the words of a pair.
mul4(a) == LET p == a.x * a.y IN make_uint2(p % R, p \div R)
add4(a, b) == AddPair(a, b)
madd4(a, b) == LET p  == a.x * a.y
                   lo == (p % R) + b.x
               IN make_uint2(lo % R, ((p \div R) + b.y + (lo \div R)) % R)
madd4long(a, b) == devectorize(madd4(vectorize(a), vectorize(b)))

xor8(s) == LET two == s[7] ^^ s[8]
           IN s[1] ^^ (s[2] ^^ (s[3] ^^ (s[4] ^^ (s[5] ^^ (s[6] ^^ two)))))
xor1(a, b) == a ^^ b
xor3b(a, b, c) == LET t1 == b ^^ c IN a ^^ t1
xandx(a, b, c) == ((b ^^ c) & a) ^^ c
andor(a, b, c) == ((a | b) & c) | (a & b)
andor32(a, b, c) == (a & b) | ((a | b) & c)
bfe(x, bit, num) == shr_t32(x, bit) % 2^num
bfi(x, a, bit, num) ==
    LET mask == ((2^num - 1) * 2^bit) % R
    IN (shl_t32(x, bit) & mask) | (a & (R - 1 - mask))

\* The first difference from the top decides; equal hashes are below.
cuda_hashisbelowtarget(hash, target) ==
    \A i \in DOMAIN hash :
        (\A j \in DOMAIN hash : j > i => hash[j] = target[j]) => hash[i] <= target[i]
=============================================================================
