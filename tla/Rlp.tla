-------------------------------- MODULE Rlp ---------------------------------
(***************************************************************************)
(* libdevcore's RLP.  RLPStream is a state machine: append and appendList  *)
(* write to m_out, and noteAppended closes the lists that are complete by  *)
(* moving their bytes up and writing the head in front.  RLP, the reader,  *)
(* is a family of operators on sequences of bytes.  `built' holds what the *)
(* caller appended, a stack of sequences, one for each open list.          *)
(***************************************************************************)
EXTENDS Encodings

CONSTANTS DataStart,           \* c_rlpDataImmLenStart
          ListStart,           \* c_rlpListStart
          MaxLengthBytes,      \* c_rlpMaxLengthBytes
          Data,                \* byte strings that are appended
          Ints,                \* integers that are appended
          MaxAppends, MaxList, \* bounds: calls, items of a list
          MaxReads             \* bound: calls of operator[]

VARIABLES m_out, m_listStack, built, appends,
          cursor,              \* m_lastIndex, m_lastEnd and m_lastItem of a reader
          reads                \* what its operator[] was asked and returned
writerVars == <<m_out, m_listStack, built, appends>>
rlpVars == <<m_out, m_listStack, built, appends, cursor, reads>>

DataImmCount == ListStart - DataStart - MaxLengthBytes
DataIndZero  == DataStart + DataImmCount - 1
ListImmCount == Byte - ListStart - MaxLengthBytes
ListIndZero  == ListStart + ListImmCount - 1

-----------------------------------------------------------------------------
(* Writing.                                                                 *)

pushCount(n, base) == <<bytesRequired(n) + base>> \o toCompactBigEndian(n, 0)

RlpHead(n, start, immCount, base) ==
    IF n < immCount THEN <<start + n>> ELSE pushCount(n, base)
DataHead(n) == RlpHead(n, DataStart, DataImmCount, DataIndZero)

\* A head that takes one byte too many for an immediate length
ListHead_Late(n) == RlpHead(n, ListStart, ListImmCount + 1, ListIndZero)

ListHead(n) == RlpHead(n, ListStart, ListImmCount, ListIndZero)

\* After one item: the innermost open lists that are now complete get their
\* heads; each counts as one item of the list around it.
RECURSIVE noteAppended(_, _, _)
noteAppended(out, stack, tree) ==
    IF stack = <<>> THEN [out |-> out, stack |-> stack, tree |-> tree]
    ELSE LET top  == Last(stack)
             rest == SubSeq(stack, 1, Len(stack) - 1)
             size == Len(out) - top.at
         IN IF top.left > 1
            THEN [out |-> out, stack |-> Append(rest, [top EXCEPT !.left = @ - 1]),
                  tree |-> tree]
            ELSE noteAppended(SubSeq(out, 1, top.at) \o ListHead(size)
                                  \o SubSeq(out, top.at + 1, Len(out)),
                              rest,
                              LET list  == Last(tree)
                                  outer == tree[Len(tree) - 1]
                              IN Append(SubSeq(tree, 1, Len(tree) - 2),
                                        Append(outer, <<"list", list>>)))

Appended(bytes, item) ==
    LET r == noteAppended(m_out \o bytes, m_listStack,
                          [built EXCEPT ![Len(built)] = Append(@, item)])
    IN /\ m_out' = r.out
       /\ m_listStack' = r.stack
       /\ built' = r.tree
       /\ appends' = appends + 1

DataBytes(s) == IF Len(s) = 1 /\ s[1] < DataStart THEN s
                ELSE DataHead(Len(s)) \o s

IntBytes(n) == IF n = 0 THEN <<DataStart>>
               ELSE IF n < DataStart THEN <<n>>
               ELSE DataHead(bytesRequired(n)) \o toCompactBigEndian(n, 0)

Writes == appends < MaxAppends /\ reads = <<>> /\ UNCHANGED <<cursor, reads>>

appendData(s) == Writes /\ Appended(DataBytes(s), <<"data", s>>)

appendInt(n) == Writes /\ Appended(IntBytes(n), <<"data", toCompactBigEndian(n, 0)>>)

appendList(k) ==
    /\ Writes
    /\ IF k = 0 THEN Appended(<<ListStart>>, <<"list", <<>>>>)
       ELSE /\ m_listStack' = Append(m_listStack, [left |-> k, at |-> Len(m_out)])
            /\ built' = Append(built, <<>>)
            /\ appends' = appends + 1
            /\ UNCHANGED m_out

-----------------------------------------------------------------------------
(* Reading.  A reader operator returns BadRLP where the code throws.        *)

BadRLP == -1
Malformed == <<BadRLP>>

isData(d) == d # <<>> /\ d[1] < ListStart
isList(d) == d # <<>> /\ d[1] >= ListStart
isSingleByte(d) == d # <<>> /\ d[1] < DataStart

lengthSize(d) == IF isData(d) /\ d[1] > DataIndZero THEN d[1] - DataIndZero
                 ELSE IF isList(d) /\ d[1] > ListIndZero THEN d[1] - ListIndZero
                 ELSE 0

payloadOffset(d) == IF isSingleByte(d) THEN 0 ELSE 1 + lengthSize(d)

\* requireGood: one byte below DataStart must be written as itself
Good(d) == /\ d # <<>>
           /\ d[1] = DataStart + 1 => Len(d) >= 2 /\ d[2] >= DataStart

length(d) ==
    LET n    == lengthSize(d)
        ind  == fromBigEndian(SubSeq(d, 2, 1 + n))
        imm  == IF isList(d) THEN d[1] - ListStart ELSE d[1] - DataStart
        least == IF isList(d) THEN ListImmCount ELSE DataImmCount
    IN CASE ~Good(d) -> BadRLP
         [] isSingleByte(d) -> 1
         [] Good(d) /\ ~isSingleByte(d) /\ n = 0 -> imm
         [] Good(d) /\ n > 0 -> IF Len(d) <= n THEN BadRLP
                                ELSE IF d[2] = 0 \/ ind < least THEN BadRLP
                                ELSE ind

actualSize(d) == IF length(d) = BadRLP THEN BadRLP ELSE payloadOffset(d) + length(d)

actualSizeOr0(d) == IF d = <<>> THEN 0 ELSE actualSize(d)

\* The items of a list, front to back: each is as long as its head says.
RECURSIVE items(_)
items(p) ==
    IF p = <<>> THEN <<>>
    ELSE LET n == actualSize(p)
         IN IF n = BadRLP \/ n > Len(p) THEN <<Malformed>>
            ELSE <<SubSeq(p, 1, n)>> \o items(SubSeq(p, n + 1, Len(p)))

payload(d) == SubSeq(d, payloadOffset(d) + 1, payloadOffset(d) + length(d))

RECURSIVE toTree(_)
toTree(d) == IF isList(d)
             THEN LET i == items(payload(d))
                  IN <<"list", [k \in DOMAIN i |-> toTree(i[k])]>>
             ELSE <<"data", payload(d)>>

\* isInt and toInt: no leading zero, and no more bytes than the type has
isInt(d) == /\ isData(d) /\ Good(d)
            /\ IF isSingleByte(d) THEN d[1] # 0
               ELSE d[1] = DataStart \/ payload(d)[1] # 0

toInt(d, maxSize) == IF ~isInt(d) \/ length(d) > maxSize THEN BadRLP
                     ELSE fromBigEndian(payload(d))

\* operator[]: the reader remembers the item it found last and walks on
\* from there, or from the front when an earlier one is asked for.
Beyond == MaxList + 1                           \* (size_t)-1

First(p) == LET n == actualSizeOr0(p)
            IN [index |-> 0, end |-> n, item |-> SubSeq(p, 1, n)]

\* A cursor that is not moved back to the front
Rewound_Never(p, k) == IF cursor.index = Beyond THEN First(p) ELSE cursor

Rewound(p, k) == IF k < cursor.index THEN First(p) ELSE cursor

RECURSIVE Advanced(_, _, _)
Advanced(c, p, k) ==
    IF c.index >= k \/ c.item = <<>> THEN c
    ELSE LET rest == SubSeq(p, c.end + 1, Len(p))
             n    == actualSizeOr0(rest)
         IN Advanced([index |-> c.index + 1, end |-> c.end + n,
                      item |-> SubSeq(rest, 1, n)], p, k)

Index(k) ==
    /\ m_listStack = <<>> /\ isList(m_out) /\ actualSize(m_out) = Len(m_out)
    /\ Len(reads) < MaxReads
    /\ cursor' = Advanced(Rewound(payload(m_out), k), payload(m_out), k)
    /\ reads' = Append(reads, <<k, cursor'.item>>)
    /\ UNCHANGED writerVars

RlpInit == /\ m_out = <<>> /\ m_listStack = <<>>
           /\ built = <<<<>>>> /\ appends = 0
           /\ cursor = [index |-> Beyond, end |-> 0, item |-> <<>>]
           /\ reads = <<>>

RlpNext == \/ \E s \in Data : appendData(s)
           \/ \E n \in Ints : appendInt(n)
           \/ \E k \in 0..MaxList : appendList(k)
           \/ \E k \in 0..MaxList : Index(k)

-----------------------------------------------------------------------------
\* Whatever sequence of appends a caller makes, once no list is open the
\* bytes of the stream read back, item by item and list by list, as exactly
\* what was appended: the moved bytes, the nested heads, the immediate and
\* the counted lengths and the canonical form the reader insists on agree.
\* Whatever items were asked for before, operator[] returns the item with that
\* index, or an empty one past the end: the cursor it keeps never shows.
RlpRoundTrips ==
    /\ m_listStack = <<>> =>
          LET read == items(m_out)
          IN [k \in DOMAIN read |-> toTree(read[k])] = built[1]
    /\ \A r \in DOMAIN reads :
          LET all == items(payload(m_out))
              k   == reads[r][1]
          IN reads[r][2] = IF k < Len(all) THEN all[k + 1] ELSE <<>>
=============================================================================
