---------------------------- MODULE BlockHeader -----------------------------
(***************************************************************************)
(* libethcore's BlockHeader: its fields written as an RLP list (the bytes  *)
(* hashWithout hashes), read back by extractHeader and populateFromHeader, *)
(* and the work package made of it.  The seven hash fields are the         *)
(* sequence `hashes'; HashSize bytes each.                                 *)
(***************************************************************************)
EXTENDS Rlp

CONSTANTS HashFields,          \* number of hash fields (7)
          MaxNumber,           \* ~(unsigned)0
          ETHASH_EPOCH_LENGTH

ListBytes(parts) == LET p == FlattenSeq(parts) IN ListHead(Len(p)) \o p

streamRLPFields(hd) ==
    ListBytes([k \in 1..HashFields |-> DataBytes(hd.hashes[k])]
              \o <<IntBytes(hd.difficulty), IntBytes(hd.number),
                   IntBytes(hd.gasLimit), IntBytes(hd.gasUsed),
                   IntBytes(hd.timestamp), DataBytes(hd.extraData)>>)

\* toHash<N>(VeryStrict)
toHash(d) == IF isData(d) /\ length(d) = HashSize THEN payload(d) ELSE Malformed

\* A block is a list of the header, the transactions and the uncles, and nothing else:
\* RLP root(_block) is VeryStrict.
extractHeader(block) ==
    LET root == items(payload(block))
    IN IF actualSize(block) = Len(block) /\ isList(block) /\ Len(root) >= 3 /\ \A k \in 1..3 : isList(root[k])
       THEN root[1] ELSE <<>>

populateFromHeader(header) ==
    LET f == items(payload(header))
        n == HashFields
        IntAt(k) == toInt(f[n + k], HashSize)
        hd == [hashes     |-> [k \in 1..n |-> toHash(f[k])],
               difficulty |-> IntAt(1), number |-> IntAt(2), gasLimit |-> IntAt(3),
               gasUsed    |-> IntAt(4), timestamp |-> IntAt(5),
               extraData  |-> payload(f[n + 6])]
    IN IF \/ Len(f) < n + 6
          \/ \E k \in 1..n : toHash(f[k]) = Malformed
          \/ \E k \in 1..5 : IntAt(k) = BadRLP
       THEN [thrown |-> "invalid block header format"]
       ELSE IF hd.number > MaxNumber THEN [thrown |-> "InvalidNumber"]
       ELSE IF hd.gasUsed > hd.gasLimit THEN [thrown |-> "TooMuchGasUsed"]
       ELSE hd

WorkPackage(hd) == [boundary |-> boundary(hd.difficulty),
                    header   |-> streamRLPFields(hd),
                    epoch    |-> hd.number \div ETHASH_EPOCH_LENGTH,
                    height   |-> hd.number]
=============================================================================
