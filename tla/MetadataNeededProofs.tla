------------------------ MODULE MetadataNeededProofs ------------------------
(***************************************************************************)
(* Proofs that the needed list of the incomplete metadata stays an         *)
(* accounting of the buffer and stays sorted by request time.              *)
(***************************************************************************)
EXTENDS MetadataExchangeProofs

USE ConstantsAssumption


\* The pieces a list of metadata nodes names.
PiecesOf(s) == {s[i].piece : i \in DOMAIN s}

\* No piece is listed twice.
Distinct(s) == \A i, j \in DOMAIN s : i # j => s[i].piece # s[j].piece

\* Sorted from least to most recently requested, none after time t.
SortedBy(s, t) ==
    \A i, j \in DOMAIN s :
        /\ i < j => s[i].requestedAt <= s[j].requestedAt
        /\ s[i].requestedAt <= t

(***************************************************************************)
(* The list a size hint or a reset builds names every piece once, all     *)
(* requested at time 0.                                                     *)
(***************************************************************************)
LEMMA AllPiecesNeededFacts ==
    ASSUME NEW n \in Nat, NEW t \in Nat
    PROVE  /\ Distinct(AllPiecesNeeded(n))
           /\ SortedBy(AllPiecesNeeded(n), t)
           /\ PiecesOf(AllPiecesNeeded(n)) = 0..n - 1
<1>1. Distinct(AllPiecesNeeded(n))
  BY DEF Distinct, AllPiecesNeeded
<1>2. SortedBy(AllPiecesNeeded(n), t)
  BY DEF SortedBy, AllPiecesNeeded
<1>3. PiecesOf(AllPiecesNeeded(n)) = 0..n - 1
  <2>1. \A p \in 0..n - 1 : p + 1 \in 1..n /\ AllPiecesNeeded(n)[p + 1].piece = p
    BY DEF AllPiecesNeeded
  <2>2. \A i \in 1..n : AllPiecesNeeded(n)[i].piece \in 0..n - 1
    BY DEF AllPiecesNeeded
  <2>3. DOMAIN AllPiecesNeeded(n) = 1..n
    BY DEF AllPiecesNeeded
  <2>4. QED
    BY <2>1, <2>2, <2>3 DEF PiecesOf
<1>4. QED
  BY <1>1, <1>2, <1>3

(***************************************************************************)
(* tr_removeElementFromArray on a list of distinct pieces keeps them       *)
(* distinct and in order, and strikes exactly the removed node's piece.    *)
(***************************************************************************)
LEMMA RemoveElementFacts ==
    ASSUME NEW s \in Seq(NeededNode), NEW i \in 1..Len(s), NEW t, Distinct(s)
    PROVE  LET r == RemoveElementFromArray(s, i)
           IN  /\ Distinct(r)
               /\ SortedBy(s, t) => SortedBy(r, t)
               /\ PiecesOf(r) = PiecesOf(s) \ {s[i].piece}
<1> DEFINE r == RemoveElementFromArray(s, i)
<1> SUFFICES /\ Distinct(r)
             /\ SortedBy(s, t) => SortedBy(r, t)
             /\ PiecesOf(r) = PiecesOf(s) \ {s[i].piece}
  OBVIOUS
<1>1. /\ r \in Seq(NeededNode)
      /\ Len(r) = Len(s) - 1
      /\ \A j \in 1..Len(s) - 1 : r[j] = IF j < i THEN s[j] ELSE s[j + 1]
  BY RemoveElementProperties
<1> DEFINE pos(j) == IF j < i THEN j ELSE j + 1
<1>2. \A j \in 1..Len(s) - 1 : pos(j) \in 1..Len(s) /\ pos(j) # i /\ r[j] = s[pos(j)]
  BY <1>1
<1>3. \A j, k \in 1..Len(s) - 1 : j < k => pos(j) < pos(k)
  OBVIOUS
<1>4. \A k \in 1..Len(s) : k # i => \E j \in 1..Len(s) - 1 : pos(j) = k
  <2> SUFFICES ASSUME NEW k \in 1..Len(s), k # i
               PROVE  \E j \in 1..Len(s) - 1 : pos(j) = k
    OBVIOUS
  <2>1. CASE k < i
    BY <2>1
  <2>2. CASE k > i
    <3>1. k - 1 \in 1..Len(s) - 1 /\ pos(k - 1) = k
      BY <2>2
    <3>2. QED
      BY <3>1
  <2>3. QED
    BY <2>1, <2>2
<1> HIDE DEF r, pos
<1>5. DOMAIN r = 1..Len(s) - 1 /\ DOMAIN s = 1..Len(s)
  BY <1>1
<1>6. Distinct(r)
  <2> SUFFICES ASSUME NEW j \in 1..Len(s) - 1, NEW k \in 1..Len(s) - 1, j # k
               PROVE  r[j].piece # r[k].piece
    BY <1>5 DEF Distinct
  <2>1. pos(j) # pos(k)
    <3>1. CASE j < k
      BY <3>1, <1>2, <1>3
    <3>2. CASE k < j
      BY <3>2, <1>2, <1>3
    <3>3. QED
      BY <3>1, <3>2
  <2>2. pos(j) \in DOMAIN s /\ pos(k) \in DOMAIN s /\ r[j] = s[pos(j)] /\ r[k] = s[pos(k)]
    BY <1>2, <1>5
  <2>3. s[pos(j)].piece # s[pos(k)].piece
    BY <2>1, <2>2 DEF Distinct
  <2>4. QED
    BY <2>2, <2>3
<1>7. SortedBy(s, t) => SortedBy(r, t)
  <2> SUFFICES ASSUME SortedBy(s, t), NEW j \in 1..Len(s) - 1, NEW k \in 1..Len(s) - 1
               PROVE  /\ j < k => r[j].requestedAt <= r[k].requestedAt
                      /\ r[j].requestedAt <= t
    BY <1>5 DEF SortedBy
  <2>1. j < k => pos(j) < pos(k)
    BY <1>3
  <2>2. pos(j) \in DOMAIN s /\ pos(k) \in DOMAIN s /\ r[j] = s[pos(j)] /\ r[k] = s[pos(k)]
    BY <1>2, <1>5
  <2>3. /\ pos(j) < pos(k) => s[pos(j)].requestedAt <= s[pos(k)].requestedAt
        /\ s[pos(j)].requestedAt <= t
    BY <2>2 DEF SortedBy
  <2>4. QED
    BY <2>1, <2>2, <2>3
<1>8. PiecesOf(r) = PiecesOf(s) \ {s[i].piece}
  <2>1. PiecesOf(r) \subseteq PiecesOf(s) \ {s[i].piece}
    BY <1>2, <1>5 DEF PiecesOf, Distinct
  <2>2. PiecesOf(s) \ {s[i].piece} \subseteq PiecesOf(r)
    <3> SUFFICES ASSUME NEW k \in 1..Len(s), s[k].piece # s[i].piece
                 PROVE  s[k].piece \in PiecesOf(r)
      BY <1>5 DEF PiecesOf
    <3>1. k # i
      OBVIOUS
    <3>2. PICK j \in 1..Len(s) - 1 : pos(j) = k
      BY <1>4, <3>1
    <3>3. QED
      BY <1>2, <1>5, <3>2 DEF PiecesOf
  <2>3. QED
    BY <2>1, <2>2
<1>9. QED
  BY <1>6, <1>7, <1>8

\* A node of the needed list names a piece and a request time.
LEMMA NodeFields ==
    ASSUME NEW s \in Seq(NeededNode), NEW i \in DOMAIN s
    PROVE  s[i].piece \in Nat /\ s[i].requestedAt \in 0..MaxTime
<1>1. i \in 1..Len(s)
  OBVIOUS
<1>2. s[i] \in NeededNode
  BY <1>1, ElementOfSeq
<1>3. QED
  BY <1>2 DEF NeededNode

(***************************************************************************)
(* The rotation in tr_torrentGetNextMetadataRequest, moving the head to    *)
(* the tail stamped with the current time, keeps the pieces distinct and   *)
(* sorted and names the same pieces.                                        *)
(***************************************************************************)
LEMMA RotateFacts ==
    ASSUME NEW s \in Seq(NeededNode), s # <<>>, NEW t \in Nat,
           Distinct(s), SortedBy(s, t)
    PROVE  LET r == Append(Tail(s), [piece |-> Head(s).piece, requestedAt |-> t])
           IN  /\ Distinct(r)
               /\ SortedBy(r, t)
               /\ PiecesOf(r) = PiecesOf(s)
<1> DEFINE node == [piece |-> Head(s).piece, requestedAt |-> t]
           r == Append(Tail(s), node)
           n == Len(s)
<1> SUFFICES Distinct(r) /\ SortedBy(r, t) /\ PiecesOf(r) = PiecesOf(s)
  OBVIOUS
<1>1. n \in Nat \ {0} /\ Head(s) = s[1] /\ DOMAIN s = 1..n
  BY HeadTailProperties
<1>2. /\ Tail(s) \in Seq(NeededNode)
      /\ Len(Tail(s)) = n - 1
      /\ \A j \in 1..n - 1 : Tail(s)[j] = s[j + 1]
  BY HeadTailProperties
<1>3. /\ Len(r) = n
      /\ DOMAIN r = 1..n
      /\ \A j \in 1..n - 1 : r[j] = s[j + 1]
      /\ r[n] = node
  BY <1>1, <1>2, AppendProperties
<1> HIDE DEF r, n
<1>4. Distinct(r)
  <2> SUFFICES ASSUME NEW j \in 1..n, NEW k \in 1..n, j # k
               PROVE  r[j].piece # r[k].piece
    BY <1>3 DEF Distinct
  <2>1. CASE j < n /\ k < n
    <3>1. r[j] = s[j + 1] /\ r[k] = s[k + 1] /\ j + 1 \in DOMAIN s /\ k + 1 \in DOMAIN s
      BY <1>1, <1>3, <2>1
    <3>2. j + 1 # k + 1
      BY <1>1
    <3>3. QED
      BY <3>1, <3>2 DEF Distinct
  <2>2. CASE j < n /\ k = n
    <3>1. r[j] = s[j + 1] /\ r[k].piece = s[1].piece /\ j + 1 \in DOMAIN s /\ 1 \in DOMAIN s
      BY <1>1, <1>3, <2>2
    <3>2. j + 1 # 1
      BY <1>1
    <3>3. QED
      BY <3>1, <3>2 DEF Distinct
  <2>3. CASE j = n /\ k < n
    <3>1. r[k] = s[k + 1] /\ r[j].piece = s[1].piece /\ k + 1 \in DOMAIN s /\ 1 \in DOMAIN s
      BY <1>1, <1>3, <2>3
    <3>2. k + 1 # 1
      BY <1>1
    <3>3. QED
      BY <3>1, <3>2 DEF Distinct
  <2>4. QED
    BY <1>1, <2>1, <2>2, <2>3
<1>5. \A j \in 1..n : s[j].requestedAt \in 0..MaxTime /\ s[j].requestedAt <= t
  <2> SUFFICES ASSUME NEW j \in 1..n
               PROVE  s[j].requestedAt \in 0..MaxTime /\ s[j].requestedAt <= t
    OBVIOUS
  <2>1. s[j].requestedAt \in 0..MaxTime
    BY <1>1, NodeFields
  <2>2. s[j].requestedAt <= t
    BY <1>1 DEF SortedBy
  <2>3. QED
    BY <2>1, <2>2
<1>6. SortedBy(r, t)
  <2> SUFFICES ASSUME NEW j \in 1..n, NEW k \in 1..n
               PROVE  /\ j < k => r[j].requestedAt <= r[k].requestedAt
                      /\ r[j].requestedAt <= t
    BY <1>3 DEF SortedBy
  <2>1. r[j].requestedAt \in Int /\ r[j].requestedAt <= t
    <3>1. CASE j < n
      <4>1. r[j] = s[j + 1] /\ j + 1 \in 1..n
        BY <1>1, <1>3, <3>1
      <4>2. QED
        BY <1>5, <4>1
    <3>2. CASE j = n
      BY <1>3, <3>2
    <3>3. QED
      BY <1>1, <3>1, <3>2
  <2>2. CASE k < n
    <3> SUFFICES ASSUME j < k PROVE r[j].requestedAt <= r[k].requestedAt
      BY <2>1
    <3>1. r[j] = s[j + 1] /\ r[k] = s[k + 1] /\ j + 1 \in DOMAIN s /\ k + 1 \in DOMAIN s
          /\ j + 1 < k + 1
      BY <1>1, <1>3, <2>2
    <3>2. s[j + 1].requestedAt <= s[k + 1].requestedAt
      BY <3>1 DEF SortedBy
    <3>3. QED
      BY <3>1, <3>2
  <2>3. CASE k = n
    <3>1. r[k].requestedAt = t
      BY <1>3, <2>3
    <3>2. QED
      BY <2>1, <3>1
  <2>4. QED
    BY <1>1, <2>2, <2>3
<1>7. PiecesOf(r) = PiecesOf(s)
  <2>1. PiecesOf(r) \subseteq PiecesOf(s)
    <3> SUFFICES ASSUME NEW j \in 1..n PROVE r[j].piece \in PiecesOf(s)
      BY <1>3 DEF PiecesOf
    <3>1. CASE j < n
      <4>1. r[j] = s[j + 1] /\ j + 1 \in DOMAIN s
        BY <1>1, <1>3, <3>1
      <4>2. QED
        BY <4>1 DEF PiecesOf
    <3>2. CASE j = n
      <4>1. r[j].piece = s[1].piece /\ 1 \in DOMAIN s
        BY <1>1, <1>3, <3>2
      <4>2. QED
        BY <4>1 DEF PiecesOf
    <3>3. QED
      BY <1>1, <3>1, <3>2
  <2>2. PiecesOf(s) \subseteq PiecesOf(r)
    <3> SUFFICES ASSUME NEW k \in 1..n PROVE s[k].piece \in PiecesOf(r)
      BY <1>1 DEF PiecesOf
    <3>1. CASE k = 1
      <4>1. r[n].piece = s[k].piece /\ n \in DOMAIN r
        BY <1>1, <1>3, <3>1
      <4>2. QED
        BY <4>1 DEF PiecesOf
    <3>2. CASE k > 1
      <4>1. k - 1 \in DOMAIN r /\ r[k - 1] = s[k]
        BY <1>1, <1>3, <3>2
      <4>2. QED
        BY <4>1 DEF PiecesOf
    <3>3. QED
      BY <1>1, <3>1, <3>2
  <2>3. QED
    BY <2>1, <2>2
<1>8. QED
  BY <1>4, <1>6, <1>7

\* A later clock keeps a sorted list sorted: no request time is in the future.
LEMMA SortedLater ==
    ASSUME NEW s \in Seq(NeededNode), NEW t \in Int, NEW u \in Int, t <= u,
           SortedBy(s, t)
    PROVE  SortedBy(s, u)
<1> SUFFICES ASSUME NEW i \in DOMAIN s, NEW j \in DOMAIN s
             PROVE  /\ i < j => s[i].requestedAt <= s[j].requestedAt
                    /\ s[i].requestedAt <= u
  BY DEF SortedBy
<1>1. s[i].requestedAt \in 0..MaxTime
  BY NodeFields
<1>2. QED
  BY <1>1 DEF SortedBy


-----------------------------------------------------------------------------

\* Every piece that is not listed holds bytes a peer delivered.
Filled(m) == \A p \in DOMAIN m.buf : p \notin PiecesOf(m.needed) => m.buf[p] # "junk"

\* The needed list of m accounts for its buffer and is sorted at time t.
Accounted(m, t) == Distinct(m.needed) /\ Filled(m) /\ SortedBy(m.needed, t)

\* The two invariants, with the type invariant they rest on.
NeededInv == TypeOK /\ NeededAccounting /\ NeededOrderedByRequestTime

LEMMA NeededInvDef ==
    NeededInv <=> TypeOK /\ (meta # NoMeta => Accounted(meta, now))
BY DEF NeededInv, NeededAccounting, NeededOrderedByRequestTime, Accounted,
       Distinct, Filled, SortedBy, NeededPieces, PiecesOf

LEMMA InitNeeded == Init => NeededInv
<1>1. Init => meta = NoMeta
  BY DEF Init
<1>2. QED
  BY <1>1, InitTypeOK, NeededInvDef

\* The list a size hint builds accounts for a buffer of junk.
LEMMA SizeHintNeeded ==
    ASSUME NeededInv, NEW size \in HintSizes, SetMetadataSizeHint(size)
    PROVE  Accounted(meta', now')
<1> DEFINE n == PieceCountOf(size)
<1>1. size \in 1..IntMax /\ n > 0
  <2>1. (IF size <= 0 \/ size > IntMax THEN -1 ELSE n) > 0
    BY DEF SetMetadataSizeHint
  <2> HIDE DEF n
  <2>2. QED
    BY <2>1
<1>2. meta' = [size |-> size, pieceCount |-> n, needed |-> AllPiecesNeeded(n),
               buf |-> [i \in 0..n - 1 |-> "junk"]]
  <2>1. ~(size <= 0 \/ size > IntMax)
    BY <1>1
  <2> HIDE DEF PieceCountOf
  <2>2. QED
    BY <2>1 DEF SetMetadataSizeHint
<1>3. n \in Nat /\ now' = now /\ now \in Nat
  <2>1. size \div PieceSize \in Int
    BY <1>1
  <2>2. now' = now /\ now \in StartTime..MaxTime
    BY DEF SetMetadataSizeHint, NeededInv, TypeOK
  <2>3. QED
    BY <1>1, <2>1, <2>2 DEF PieceCountOf
<1> HIDE DEF n
<1>4. /\ Distinct(AllPiecesNeeded(n))
      /\ SortedBy(AllPiecesNeeded(n), now)
      /\ PiecesOf(AllPiecesNeeded(n)) = 0..n - 1
  BY <1>3, AllPiecesNeededFacts
<1>5. Filled(meta')
  BY <1>2, <1>4 DEF Filled
<1>6. QED
  BY <1>2, <1>3, <1>4, <1>5 DEF Accounted

\* tr_torrentGetMetadataPiece and the clock leave the needed list alone.
LEMMA GetNextNeeded ==
    ASSUME NeededInv, GetNextMetadataRequest, meta' # NoMeta
    PROVE  Accounted(meta', now')
<1>1. now' = now /\ now \in Nat
  BY DEF GetNextMetadataRequest, NeededInv, TypeOK
<1>2. CASE HeadEligible
  <2> DEFINE pc == meta.pieceCount
             h == Head(meta.needed)
             nd == Append(Tail(meta.needed), [piece |-> h.piece, requestedAt |-> now])
  <2>1. meta \in MetaRecord(pc) /\ meta.needed # <<>> /\ meta # NoMeta
    BY <1>2 DEF NeededInv, TypeOK, HeadEligible, MetaRecord
  <2>2. Accounted(meta, now)
    BY <2>1, NeededInvDef
  <2>3. meta' = [meta EXCEPT !.needed = nd]
    BY <1>2 DEF GetNextMetadataRequest
  <2> HIDE DEF nd, h
  <2>4. meta'.needed = nd /\ meta'.buf = meta.buf
    BY <2>1, <2>3 DEF MetaRecord
  <2>5. meta.needed \in Seq(NeededNode)
    BY <2>1 DEF MetaRecord
  <2>6. Distinct(nd) /\ SortedBy(nd, now) /\ PiecesOf(nd) = PiecesOf(meta.needed)
    BY <1>1, <2>1, <2>2, <2>5, RotateFacts DEF Accounted, nd, h
  <2>7. Filled(meta')
    BY <2>2, <2>4, <2>6 DEF Accounted, Filled
  <2>8. QED
    BY <1>1, <2>4, <2>6, <2>7 DEF Accounted
<1>3. CASE ~HeadEligible
  <2>1. meta' = meta
    BY <1>3 DEF GetNextMetadataRequest
  <2>2. QED
    BY <1>1, <2>1, NeededInvDef
<1>4. QED
  BY <1>2, <1>3


(***************************************************************************)
(* tr_torrentSetMetadataPiece stores a delivered piece and strikes its     *)
(* node: the rest of the list still accounts for the buffer, and a reset   *)
(* lists every piece again.                                                 *)
(***************************************************************************)
LEMMA SetPieceNeeded ==
    ASSUME NeededInv, NEW piece \in PeerPieces, NEW data \in PieceData,
           NEW len \in PeerLengths, NEW kind \in InfoKinds,
           NEW loadOK \in BOOLEAN, NEW writeOK \in BOOLEAN,
           SetMetadataPiece(piece, data, len, kind, loadOK, writeOK),
           meta' # NoMeta
    PROVE  Accounted(meta', now')
<1> DEFINE k == PieceNeededIndex(meta, piece)
           rest == RemoveElementFromArray(meta.needed, k)
           m1 == [meta EXCEPT !.buf[piece] = data, !.needed = rest]
           pc == meta.pieceCount
<1> HIDE DEF PieceCountOf
<1>1. /\ meta # NoMeta
      /\ piece \in 0..pc - 1
      /\ k # 0
      /\ now' = now
  <2>1. meta # NoMeta /\ 0 <= piece /\ piece < pc /\ k # 0 /\ now' = now
    BY Zenon DEF SetMetadataPiece
  <2>2. piece \in Int /\ pc \in Nat
    BY <2>1 DEF PeerPieces, NeededInv, TypeOK
  <2> QED
    BY <2>1, <2>2
<1>2. /\ meta \in MetaRecord(pc)
      /\ pc \in Nat \ {0}
      /\ now \in Nat
      /\ Accounted(meta, now)
  BY <1>1, NeededInvDef DEF NeededInv, TypeOK, MetaRecord
<1>3. k \in 1..Len(meta.needed) /\ meta.needed[k].piece = piece
  BY <1>1, <1>2, PieceNeededIndexFound DEF MetaRecord
<1>4. /\ Distinct(rest)
      /\ SortedBy(rest, now)
      /\ PiecesOf(rest) = PiecesOf(meta.needed) \ {piece}
  <2>1. meta.needed \in Seq(NeededNode) /\ Distinct(meta.needed) /\ SortedBy(meta.needed, now)
    BY <1>2 DEF MetaRecord, Accounted
  <2> HIDE DEF k
  <2> QED
    BY <1>3, <2>1, RemoveElementFacts
<1>5. /\ m1.needed = rest
      /\ m1.buf = [meta.buf EXCEPT ![piece] = data]
      /\ DOMAIN m1.buf = 0..pc - 1
  BY <1>2 DEF MetaRecord
<1> HIDE DEF m1, rest, k
<1>6. Filled(m1)
  <2> SUFFICES ASSUME NEW p \in 0..pc - 1, p \notin PiecesOf(rest)
               PROVE  m1.buf[p] # "junk"
    BY <1>5 DEF Filled
  <2>1. CASE p = piece
    BY <1>1, <1>5, <2>1 DEF PieceData
  <2>2. CASE p # piece
    <3>1. p \notin PiecesOf(meta.needed) /\ m1.buf[p] = meta.buf[p]
      BY <1>1, <1>4, <1>5, <2>2
    <3>2. p \in DOMAIN meta.buf
      BY <1>2 DEF MetaRecord
    <3>3. QED
      BY <1>2, <3>1, <3>2 DEF Accounted, Filled
  <2>3. QED
    BY <2>1, <2>2
<1>7. CASE m1.needed # <<>>
  <2>1. meta' = m1
    BY <1>7 DEF SetMetadataPiece, m1, rest, k
  <2>2. QED
    BY <1>1, <1>4, <1>5, <1>6, <2>1 DEF Accounted
<1>8. CASE m1.needed = <<>>
  <2> DEFINE m2 == [m1 EXCEPT !.needed = AllPiecesNeeded(pc)]
  <2>1. meta' = NoMeta \/ meta' = m2
    BY <1>8 DEF SetMetadataPiece, m1, rest, k
  <2>2. meta' = m2
    BY <2>1
  <2>3. /\ Distinct(AllPiecesNeeded(pc))
        /\ SortedBy(AllPiecesNeeded(pc), now)
        /\ PiecesOf(AllPiecesNeeded(pc)) = 0..pc - 1
    BY <1>2, AllPiecesNeededFacts
  <2>4. m2.needed = AllPiecesNeeded(pc) /\ m2.buf = m1.buf
    <3>1. DOMAIN m1 = {"size", "pieceCount", "needed", "buf"}
      BY <1>2 DEF m1, MetaRecord
    <3>2. QED
      BY <3>1
  <2> HIDE DEF m2
  <2>5. Filled(m2)
    BY <1>5, <2>3, <2>4 DEF Filled
  <2>6. QED
    BY <1>1, <2>2, <2>3, <2>4, <2>5 DEF Accounted
<1>9. QED
  BY <1>7, <1>8


\* The clock only moves forward: a sorted list stays free of future times.
LEMMA TickNeeded ==
    ASSUME NeededInv, Tick, meta' # NoMeta
    PROVE  Accounted(meta', now')
<1>1. meta' = meta /\ now' = now + 1 /\ now \in Nat /\ meta # NoMeta
  BY DEF Tick, NeededInv, TypeOK
<1>2. Accounted(meta, now) /\ meta.needed \in Seq(NeededNode)
  BY <1>1, NeededInvDef DEF NeededInv, TypeOK
<1>3. SortedBy(meta.needed, now + 1)
  BY <1>1, <1>2, SortedLater DEF Accounted
<1>4. QED
  BY <1>1, <1>2, <1>3 DEF Accounted

\* Every handler, the clock and a stutter keep the needed list accounted.
LEMMA NextNeeded == NeededInv /\ [Next]_vars => NeededInv'
<1> SUFFICES ASSUME NeededInv, [Next]_vars PROVE NeededInv'
  OBVIOUS
<1>1. TypeOK'
  BY TypeStep DEF NeededInv
<1>2. meta' # NoMeta => Accounted(meta', now')
  <2> SUFFICES ASSUME meta' # NoMeta PROVE Accounted(meta', now')
    OBVIOUS
  <2>1. CASE \E size \in HintSizes : SetMetadataSizeHint(size)
    BY <2>1, SizeHintNeeded
  <2>2. CASE \E piece \in PeerPieces, data \in PieceData, len \in PeerLengths,
                kind \in InfoKinds, loadOK, writeOK \in BOOLEAN :
                SetMetadataPiece(piece, data, len, kind, loadOK, writeOK)
    BY <2>2, SetPieceNeeded
  <2>3. CASE GetNextMetadataRequest
    BY <2>3, GetNextNeeded
  <2>4. CASE \E piece \in PeerPieces, findOK, openOK \in BOOLEAN :
                GetMetadataPiece(piece, findOK, openOK)
    <3>1. meta' = meta /\ now' = now
      BY <2>4 DEF GetMetadataPiece
    <3>2. QED
      BY <3>1, NeededInvDef
  <2>5. CASE Tick
    BY <2>5, TickNeeded
  <2>6. CASE UNCHANGED vars
    <3>1. meta' = meta /\ now' = now
      BY <2>6 DEF vars
    <3>2. QED
      BY <3>1, NeededInvDef
  <2>7. QED
    BY <2>1, <2>2, <2>3, <2>4, <2>5, <2>6 DEF Next
<1>3. QED
  BY <1>1, <1>2 DEF NeededInv, NeededAccounting, NeededOrderedByRequestTime,
                    Accounted, Distinct, Filled, SortedBy, NeededPieces, PiecesOf

\* The accounting and the order hold in every reachable state.
LEMMA NeededAlways == Spec => []NeededInv
<1>1. QED
  BY InitNeeded, NextNeeded, PTL DEF Spec

(***************************************************************************)
(* No piece is listed twice in piecesNeeded, and every piece struck from   *)
(* it holds bytes a peer delivered, never the uninitialized tr_new'd       *)
(* buffer, through any interleaving of size hints, deliveries, resets and *)
(* rotations, for every piece size and dict size.                          *)
(***************************************************************************)
THEOREM AccountingSafe == Spec => []NeededAccounting
<1>1. NeededInv => NeededAccounting
  BY DEF NeededInv
<1>2. QED
  BY <1>1, NeededAlways, PTL

(***************************************************************************)
(* piecesNeeded stays sorted from least to most recently requested with no *)
(* request time in the future, so tr_torrentGetNextMetadataRequest always  *)
(* examines the piece asked for longest ago.                                *)
(***************************************************************************)
THEOREM RequestOrderSafe == Spec => []NeededOrderedByRequestTime
<1>1. NeededInv => NeededOrderedByRequestTime
  BY DEF NeededInv
<1>2. QED
  BY <1>1, NeededAlways, PTL

-----------------------------------------------------------------------------
(***************************************************************************)
(* An incomplete buffer always has work left.                               *)
(***************************************************************************)

\* The invariant, with the type invariant it rests on.
WorkInv == TypeOK /\ IncompleteHasWork

\* A list built by a size hint or a reset is not empty.
LEMMA AllPiecesNeededNonEmpty ==
    ASSUME NEW n \in Nat \ {0}
    PROVE  AllPiecesNeeded(n) # <<>>
<1>1. 1 \in DOMAIN AllPiecesNeeded(n)
  BY DEF AllPiecesNeeded
<1>2. QED
  BY <1>1

LEMMA SizeHintWork ==
    ASSUME WorkInv, NEW size \in HintSizes, SetMetadataSizeHint(size)
    PROVE  meta'.needed # <<>>
<1> DEFINE n == PieceCountOf(size)
<1>1. size \in 1..IntMax /\ n \in Nat \ {0}
  <2>1. (IF size <= 0 \/ size > IntMax THEN -1 ELSE n) > 0
    BY DEF SetMetadataSizeHint
  <2>2. size \div PieceSize \in Int
    BY <2>1
  <2>3. size \in 1..IntMax /\ n > 0
    BY <2>1
  <2>4. QED
    BY <2>2, <2>3 DEF PieceCountOf
<1>2. meta'.needed = AllPiecesNeeded(n)
  <2>1. ~(size <= 0 \/ size > IntMax)
    BY <1>1
  <2> HIDE DEF PieceCountOf
  <2>2. QED
    BY <2>1 DEF SetMetadataSizeHint
<1> HIDE DEF n
<1>3. QED
  BY <1>1, <1>2, AllPiecesNeededNonEmpty

\* A delivery strikes a piece; the last one installs the info or refills.
LEMMA SetPieceWork ==
    ASSUME WorkInv, NEW piece \in PeerPieces, NEW data \in PieceData,
           NEW len \in PeerLengths, NEW kind \in InfoKinds,
           NEW loadOK \in BOOLEAN, NEW writeOK \in BOOLEAN,
           SetMetadataPiece(piece, data, len, kind, loadOK, writeOK),
           meta' # NoMeta
    PROVE  meta'.needed # <<>>
<1> DEFINE k == PieceNeededIndex(meta, piece)
           rest == RemoveElementFromArray(meta.needed, k)
           m1 == [meta EXCEPT !.buf[piece] = data, !.needed = rest]
           pc == meta.pieceCount
<1> HIDE DEF PieceCountOf
<1>1. meta # NoMeta
  BY Zenon DEF SetMetadataPiece
<1>2. meta \in MetaRecord(pc) /\ pc \in Nat \ {0}
  BY <1>1 DEF WorkInv, TypeOK, MetaRecord
<1>3. m1.needed = rest
  BY <1>2 DEF MetaRecord
<1> HIDE DEF m1, rest, k
<1>4. CASE m1.needed # <<>>
  <2>1. meta' = m1
    BY <1>4 DEF SetMetadataPiece, m1, rest, k
  <2>2. QED
    BY <1>4, <2>1
<1>5. CASE m1.needed = <<>>
  <2> DEFINE m2 == [m1 EXCEPT !.needed = AllPiecesNeeded(pc)]
  <2>1. meta' = NoMeta \/ meta' = m2
    BY <1>5 DEF SetMetadataPiece, m1, rest, k
  <2>2. DOMAIN m1 = {"size", "pieceCount", "needed", "buf"}
    BY <1>2 DEF m1, MetaRecord
  <2>3. m2.needed = AllPiecesNeeded(pc)
    BY <2>2
  <2> HIDE DEF m2
  <2>4. QED
    BY <1>2, <2>1, <2>3, AllPiecesNeededNonEmpty
<1>6. QED
  BY <1>4, <1>5

\* The rotation moves the head to the tail: the list keeps its length.
LEMMA GetNextWork ==
    ASSUME WorkInv, GetNextMetadataRequest, meta' # NoMeta
    PROVE  meta'.needed # <<>>
<1>1. CASE HeadEligible
  <2> DEFINE pc == meta.pieceCount
             h == Head(meta.needed)
             nd == Append(Tail(meta.needed), [piece |-> h.piece, requestedAt |-> now])
  <2>1. meta \in MetaRecord(pc) /\ meta.needed # <<>>
    BY <1>1 DEF WorkInv, TypeOK, HeadEligible, MetaRecord
  <2>2. meta' = [meta EXCEPT !.needed = nd]
    BY <1>1 DEF GetNextMetadataRequest
  <2> HIDE DEF nd, h
  <2>3. meta'.needed = nd
    BY <2>1, <2>2 DEF MetaRecord
  <2>4. nd # <<>>
    <3>1. meta.needed \in Seq(NeededNode)
      BY <2>1 DEF MetaRecord
    <3>2. Tail(meta.needed) \in Seq(NeededNode)
      BY <2>1, <3>1
    <3>3. QED
      BY <3>2 DEF nd
  <2>5. QED
    BY <2>3, <2>4
<1>2. CASE ~HeadEligible
  <2>1. meta' = meta
    BY <1>2 DEF GetNextMetadataRequest
  <2>2. QED
    BY <2>1 DEF WorkInv, IncompleteHasWork
<1>3. QED
  BY <1>1, <1>2

LEMMA NextWork == WorkInv /\ [Next]_vars => WorkInv'
<1> SUFFICES ASSUME WorkInv, [Next]_vars PROVE WorkInv'
  OBVIOUS
<1>1. TypeOK'
  BY TypeStep DEF WorkInv
<1>2. meta' # NoMeta => meta'.needed # <<>>
  <2> SUFFICES ASSUME meta' # NoMeta PROVE meta'.needed # <<>>
    OBVIOUS
  <2>1. CASE \E size \in HintSizes : SetMetadataSizeHint(size)
    BY <2>1, SizeHintWork
  <2>2. CASE \E piece \in PeerPieces, data \in PieceData, len \in PeerLengths,
                kind \in InfoKinds, loadOK, writeOK \in BOOLEAN :
                SetMetadataPiece(piece, data, len, kind, loadOK, writeOK)
    BY <2>2, SetPieceWork
  <2>3. CASE GetNextMetadataRequest
    BY <2>3, GetNextWork
  <2>4. CASE \E piece \in PeerPieces, findOK, openOK \in BOOLEAN :
                GetMetadataPiece(piece, findOK, openOK)
    <3>1. meta' = meta
      BY <2>4 DEF GetMetadataPiece
    <3>2. QED
      BY <3>1 DEF WorkInv, IncompleteHasWork
  <2>5. CASE Tick
    <3>1. meta' = meta
      BY <2>5 DEF Tick
    <3>2. QED
      BY <3>1 DEF WorkInv, IncompleteHasWork
  <2>6. CASE UNCHANGED vars
    <3>1. meta' = meta
      BY <2>6 DEF vars
    <3>2. QED
      BY <3>1 DEF WorkInv, IncompleteHasWork
  <2>7. QED
    BY <2>1, <2>2, <2>3, <2>4, <2>5, <2>6 DEF Next
<1>3. QED
  BY <1>1, <1>2 DEF WorkInv, IncompleteHasWork

(***************************************************************************)
(* While a magnet link acquires its metadata, piecesNeeded is never empty: *)
(* a round whose last piece fails the checksum, the parse or the load is   *)
(* restarted with every piece listed again, so                              *)
(* tr_torrentGetNextMetadataRequest always has a piece to hand out, for    *)
(* every piece size and dict size.                                          *)
(***************************************************************************)
THEOREM IncompleteSafe == Spec => []IncompleteHasWork
<1>1. Init => WorkInv
  BY InitTypeOK DEF Init, WorkInv, IncompleteHasWork
<1>2. WorkInv => IncompleteHasWork
  BY DEF WorkInv
<1>3. QED
  BY <1>1, <1>2, NextWork, PTL DEF Spec

=============================================================================
