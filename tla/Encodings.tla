------------------------------ MODULE Encodings -----------------------------
(***************************************************************************)
(* libdevcore's conversions (CommonData, FixedHash) and the boundary of a  *)
(* block header: big-endian bytes, hexadecimal, fixed-size hashes and      *)
(* their order.  A byte has two digits of base Nibble (16 in the code).    *)
(* Characters that are no digits are negative numbers.                     *)
(***************************************************************************)
EXTENDS Integers, SequencesExt

CONSTANTS Nibble,              \* values of a hexadecimal digit
          HashSize,            \* bytes of a FixedHash
          MaxBytes             \* bound: bytes of an integer

Byte == Nibble * Nibble
LetterX == -1                  \* the character x
Failed == <<-1>>               \* BadHexCharacter is thrown

bytesRequired(n) == Min({k \in 0..MaxBytes : n < Byte^k})

toBigEndian(n, size) == [k \in 1..size |-> (n \div Byte^(size - k)) % Byte]

fromBigEndian(b) == FoldLeft(LAMBDA acc, d : acc * Byte + d, 0, b)

toCompactBigEndian(n, min) == toBigEndian(n, Max({min, bytesRequired(n)}))

toHex(b) == [k \in 1..2 * Len(b) |->
                LET d == b[(k + 1) \div 2]
                IN IF k % 2 = 1 THEN d \div Nibble ELSE d % Nibble]

IsDigit(c) == c \in 0..Nibble - 1

\* An odd number of characters (the prefix 0x included) makes the first
\* digit a byte of its own; throw is WhenError::Throw.
fromHex(s, throw) ==
    LET skip == IF Len(s) > 1 /\ s[1] = 0 /\ s[2] = LetterX THEN 2 ELSE 0
        d    == SubSeq(s, skip + 1, Len(s))
        odd  == Len(d) % 2
    IN IF \E k \in 1..Len(d) : ~IsDigit(d[k])
       THEN IF throw THEN Failed ELSE <<>>
       ELSE [k \in 1..(Len(d) + odd) \div 2 |->
                IF odd = 1 /\ k = 1 THEN d[1]
                ELSE d[2 * k - 1 - odd] * Nibble + d[2 * k - odd]]

\* FixedHash(bytes, how): other sizes are cut or padded, or give the zero hash
FixedHash(b, how) ==
    LET n == Len(b)
    IN [k \in 1..HashSize |->
          CASE n = HashSize \/ how = "AlignLeft" -> IF k <= n THEN b[k] ELSE 0
            [] n # HashSize /\ how = "AlignRight" ->
                  IF HashSize - k < n THEN b[n - (HashSize - k)] ELSE 0
            [] n # HashSize /\ how = "FailIfDifferent" -> 0]

\* operator<: the first byte that differs decides
Less(a, b) == \E k \in 1..HashSize : /\ a[k] < b[k]
                                     /\ \A j \in 1..k - 1 : a[j] = b[j]

\* operator++ of the last byte alone
Increment_OneByte(a) == [a EXCEPT ![HashSize] = (@ + 1) % Byte]

\* operator++: carries while the byte becomes 0
Increment(a) ==
    LET Carries(k) == \A j \in k + 1..HashSize : a[j] = Byte - 1
    IN [k \in 1..HashSize |-> IF Carries(k) THEN (a[k] + 1) % Byte ELSE a[k]]

\* (2^256 - 1) / difficulty, as others compute it
boundary_AllOnes(difficulty) ==
    toBigEndian(IF difficulty = 0 THEN 0
                ELSE (Byte^HashSize - 1) \div difficulty, HashSize)

\* BlockHeader::boundary: 2^256 / difficulty, as a u256
boundary(difficulty) ==
    toBigEndian(IF difficulty = 0 THEN 0
                ELSE (Byte^HashSize \div difficulty) % Byte^HashSize, HashSize)
=============================================================================
