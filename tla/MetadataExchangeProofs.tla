----------------------- MODULE MetadataExchangeProofs -----------------------
(***************************************************************************)
(* Proofs about MetadataExchange for every value of the constants.         *)
(***************************************************************************)
EXTENDS MetadataExchange, SequenceTheorems, TLAPS

USE ConstantsAssumption

(***************************************************************************)
(* Removing entry i of a sequence (tr_removeElementFromArray) leaves a     *)
(* sequence of the same elements, one shorter, whose entries are the old   *)
(* ones before i and the old ones shifted down by one after it.            *)
(***************************************************************************)
LEMMA RemoveElementProperties ==
    ASSUME NEW S, NEW s \in Seq(S), NEW i \in 1..Len(s)
    PROVE  LET r == RemoveElementFromArray(s, i)
           IN  /\ r \in Seq(S)
               /\ Len(r) = Len(s) - 1
               /\ \A j \in 1..Len(s) - 1 : r[j] = IF j < i THEN s[j] ELSE s[j + 1]
<1> DEFINE A == SubSeq(s, 1, i - 1)
           B == SubSeq(s, i + 1, Len(s))
<1>1. A \in Seq(S) /\ Len(A) = i - 1 /\ \A j \in 1..i - 1 : A[j] = s[j]
  BY SubSeqProperties
<1>2. B \in Seq(S) /\ Len(B) = Len(s) - i /\ \A j \in 1..Len(s) - i : B[j] = s[i + j]
  BY SubSeqProperties
<1>3. RemoveElementFromArray(s, i) = A \o B
  BY DEF RemoveElementFromArray
<1> HIDE DEF A, B
<1>4. A \o B \in Seq(S) /\ Len(A \o B) = Len(A) + Len(B)
      /\ \A j \in 1..Len(A) + Len(B) :
            (A \o B)[j] = IF j <= Len(A) THEN A[j] ELSE B[j - Len(A)]
  <2>1. A \in Seq(S) /\ B \in Seq(S)
    BY <1>1, <1>2
  <2>2. QED
    BY <2>1, ConcatProperties
<1>5. ASSUME NEW j \in 1..Len(s) - 1
      PROVE  (A \o B)[j] = IF j < i THEN s[j] ELSE s[j + 1]
  <2>1. (A \o B)[j] = IF j <= Len(A) THEN A[j] ELSE B[j - Len(A)]
    BY <1>1, <1>2, <1>4
  <2>2. CASE j < i
    BY <1>1, <2>1, <2>2
  <2>3. CASE ~(j < i)
    <3>1. j - Len(A) \in 1..Len(s) - i /\ i + (j - Len(A)) = j + 1
      BY <1>1, <2>3
    <3>2. B[j - Len(A)] = s[j + 1]
      BY <1>2, <3>1
    <3>3. ~(j <= Len(A))
      BY <1>1, <2>3
    <3>4. QED
      BY <2>1, <2>3, <3>2, <3>3
  <2>4. QED
    BY <2>2, <2>3
<1>6. Len(A \o B) = Len(s) - 1
  BY <1>1, <1>2, <1>4
<1>7. \A j \in 1..Len(s) - 1 : (A \o B)[j] = IF j < i THEN s[j] ELSE s[j + 1]
  BY <1>5
<1>8. QED
  BY <1>3, <1>4, <1>6, <1>7

(***************************************************************************)
(* The list built by a size hint or a reset has one node per piece.        *)
(***************************************************************************)
LEMMA AllPiecesNeededType ==
    ASSUME NEW n \in Nat
    PROVE  /\ AllPiecesNeeded(n) \in Seq(NeededNode)
           /\ Len(AllPiecesNeeded(n)) = n
           /\ \A i \in 1..n : AllPiecesNeeded(n)[i].piece \in 0..n - 1
BY DEF AllPiecesNeeded, NeededNode

(***************************************************************************)
(* getPieceNeededIndex finds a listed piece: a nonzero index is a position *)
(* of the needed list holding that piece.                                   *)
(***************************************************************************)
LEMMA PieceNeededIndexFound ==
    ASSUME NEW m, NEW piece, PieceNeededIndex(m, piece) # 0
    PROVE  /\ PieceNeededIndex(m, piece) \in DOMAIN m.needed
           /\ m.needed[PieceNeededIndex(m, piece)].piece = piece
<1>1. piece \in NeededPieces(m)
  BY DEF PieceNeededIndex
<1>2. \E i \in DOMAIN m.needed : m.needed[i].piece = piece
  BY <1>1 DEF NeededPieces
<1>3. QED
  BY <1>1, <1>2 DEF PieceNeededIndex

\* The records an incomplete metadata buffer of n pieces ranges over.
MetaRecord(n) == [size: 1..IntMax, pieceCount: Nat \ {0}, needed: Seq(NeededNode),
                  buf: [0..n - 1 -> BufferByte]]

(***************************************************************************)
(* Storing a piece in the buffer, or replacing the needed list, keeps an   *)
(* incomplete-metadata record well formed.                                  *)
(***************************************************************************)
LEMMA MetaRecordStore ==
    ASSUME NEW n \in Nat, NEW r \in MetaRecord(n), NEW p, NEW d \in BufferByte
    PROVE  [r EXCEPT !.buf[p] = d] \in MetaRecord(n)
<1>1. r.buf \in [0..n - 1 -> BufferByte]
  BY DEF MetaRecord
<1>2. [r.buf EXCEPT ![p] = d] \in [0..n - 1 -> BufferByte]
  BY <1>1
<1>3. QED
  BY <1>2 DEF MetaRecord

LEMMA MetaRecordNeeded ==
    ASSUME NEW n \in Nat, NEW r \in MetaRecord(n), NEW f \in Seq(NeededNode)
    PROVE  [r EXCEPT !.needed = f] \in MetaRecord(n)
BY DEF MetaRecord

-----------------------------------------------------------------------------

LEMMA InitTypeOK == Init => TypeOK
<1> SUFFICES ASSUME Init PROVE TypeOK
  OBVIOUS
<1>1. meta = NoMeta /\ now \in StartTime..MaxTime /\ reply \in {NoCall, NoPiece} \cup Nat
  BY DEF Init
<1>2. info \in {"magnet", "genuine", "corrupt"} /\ torrentFile \in {"magnet", "full", "absent"}
  BY DEF Init
<1>3. infoKind \in InfoKinds /\ infoDictOffset \in {"uncached", "correct", "zero"}
      /\ served \in {"nothing", "genuine", "wrong"}
  BY DEF Init
<1>4. /\ resumeFile \in BOOLEAN /\ localError \in BOOLEAN
      /\ isStopping \in BOOLEAN /\ magnetVerify \in BOOLEAN
  BY Zenon DEF Init
<1>5. QED
  BY <1>1, <1>2, <1>3, <1>4 DEF TypeOK

LEMMA SizeHintTypeOK ==
    ASSUME TypeOK, NEW size \in HintSizes, SetMetadataSizeHint(size)
    PROVE  TypeOK'
<1> DEFINE n == PieceCountOf(size)
<1>1. size \in 1..IntMax /\ n > 0
  <2>1. (IF size <= 0 \/ size > IntMax THEN -1 ELSE n) > 0
    BY DEF SetMetadataSizeHint
  <2> HIDE DEF n
  <2>2. QED
    BY <2>1
<1>2. meta' = [size |-> size, pieceCount |-> n, needed |-> AllPiecesNeeded(n),
               buf |-> [i \in 0..n - 1 |-> "junk"]]
  <2>1. ~(size <= 0 \/ size > IntMax)
    BY <1>1
  <2> HIDE DEF PieceCountOf
  <2>2. QED
    BY <2>1 DEF SetMetadataSizeHint
<1>3. n \in Nat \ {0}
  <2>1. size \div PieceSize \in Int
    BY <1>1
  <2>2. QED
    BY <1>1, <2>1 DEF PieceCountOf
<1> HIDE DEF n
<1>4. AllPiecesNeeded(n) \in Seq(NeededNode) /\ Len(AllPiecesNeeded(n)) = n
  BY <1>3 DEF AllPiecesNeeded, NeededNode
<1>5. NeededPieces(meta') \subseteq 0..meta'.pieceCount - 1
  BY <1>2, <1>3 DEF NeededPieces, AllPiecesNeeded
<1>6. meta' \in [size: 1..IntMax, pieceCount: Nat \ {0}, needed: Seq(NeededNode),
                 buf: [0..meta'.pieceCount - 1 -> BufferByte]]
  BY <1>1, <1>2, <1>3, <1>4 DEF BufferByte
<1>7. meta'.pieceCount = PieceCountOf(meta'.size) /\ Len(meta'.needed) <= meta'.pieceCount
  BY <1>2, <1>3, <1>4 DEF n
<1>8. UNCHANGED <<info, torrentFile, resumeFile, localError, isStopping,
                  magnetVerify, infoDictOffset, served, reply, now, infoKind>>
  BY DEF SetMetadataSizeHint
<1>9. QED
  BY <1>5, <1>6, <1>7, <1>8 DEF TypeOK

LEMMA SetPieceTypeOK ==
    ASSUME TypeOK, NEW piece \in PeerPieces, NEW data \in PieceData,
           NEW len \in PeerLengths, NEW kind \in InfoKinds,
           NEW loadOK \in BOOLEAN, NEW writeOK \in BOOLEAN,
           SetMetadataPiece(piece, data, len, kind, loadOK, writeOK)
    PROVE  TypeOK'
<1> DEFINE k == PieceNeededIndex(meta, piece)
           rest == RemoveElementFromArray(meta.needed, k)
           m1 == [meta EXCEPT !.buf[piece] = data, !.needed = rest]
           pc == meta.pieceCount
<1> HIDE DEF PieceCountOf
<1>1. /\ meta # NoMeta
      /\ piece \in 0..pc - 1
      /\ k # 0
  <2>1. meta # NoMeta /\ 0 <= piece /\ piece < pc /\ k # 0
    BY Zenon DEF SetMetadataPiece
  <2>2. piece \in Int /\ pc \in Nat
    BY <2>1 DEF PeerPieces, TypeOK
  <2> QED
    BY <2>1, <2>2
<1>2. /\ meta \in [size: 1..IntMax, pieceCount: Nat \ {0}, needed: Seq(NeededNode),
                    buf: [0..pc - 1 -> BufferByte]]
      /\ pc \in Nat \ {0}
      /\ pc = PieceCountOf(meta.size)
      /\ Len(meta.needed) <= pc
      /\ NeededPieces(meta) \subseteq 0..pc - 1
  BY <1>1 DEF TypeOK
<1>3. k \in 1..Len(meta.needed)
  BY <1>1, <1>2, PieceNeededIndexFound
<1>4. /\ rest \in Seq(NeededNode)
      /\ Len(rest) = Len(meta.needed) - 1
      /\ \A j \in 1..Len(meta.needed) - 1 :
            rest[j] = IF j < k THEN meta.needed[j] ELSE meta.needed[j + 1]
  <2> HIDE DEF k
  <2> QED
    BY <1>2, <1>3, RemoveElementProperties
<1>5. /\ m1.needed = rest
      /\ m1.buf = [meta.buf EXCEPT ![piece] = data]
      /\ m1.pieceCount = pc
      /\ m1.size = meta.size
      /\ DOMAIN m1 = {"size", "pieceCount", "needed", "buf"}
  BY <1>2
<1>6. [meta.buf EXCEPT ![piece] = data] \in [0..pc - 1 -> BufferByte]
  BY <1>1, <1>2 DEF BufferByte, PieceData
<1>7. \A j \in 1..Len(rest) : rest[j].piece \in 0..pc - 1
  <2> SUFFICES ASSUME NEW j \in 1..Len(rest) PROVE rest[j].piece \in 0..pc - 1
    OBVIOUS
  <2>1. meta.needed[j].piece \in 0..pc - 1 /\ meta.needed[j + 1].piece \in 0..pc - 1
    BY <1>2, <1>4 DEF NeededPieces
  <2> HIDE DEF k, rest
  <2> QED
    BY <1>4, <2>1
<1> HIDE DEF m1
<1>8. /\ m1 \in MetaRecord(pc)
      /\ m1 \in [size: 1..IntMax, pieceCount: Nat \ {0}, needed: Seq(NeededNode),
                  buf: [0..m1.pieceCount - 1 -> BufferByte]]
      /\ m1.pieceCount = PieceCountOf(m1.size)
      /\ Len(m1.needed) <= m1.pieceCount
      /\ NeededPieces(m1) \subseteq 0..m1.pieceCount - 1
  <2>1. m1 \in MetaRecord(pc)
    <3>1. data \in BufferByte
      BY DEF BufferByte, PieceData
    <3>2. meta \in MetaRecord(pc)
      BY <1>2 DEF MetaRecord
    <3>3. [meta EXCEPT !.buf[piece] = data] \in MetaRecord(pc)
      BY <1>2, <3>1, <3>2, MetaRecordStore
    <3> HIDE DEF rest, pc
    <3>4. [[meta EXCEPT !.buf[piece] = data] EXCEPT !.needed = rest] \in MetaRecord(pc)
      BY <1>2, <1>4, <3>3, MetaRecordNeeded
    <3> QED
      BY <3>4 DEF m1
  <2> HIDE DEF rest, pc
  <2>2. m1 \in [size: 1..IntMax, pieceCount: Nat \ {0}, needed: Seq(NeededNode),
                buf: [0..m1.pieceCount - 1 -> BufferByte]]
    BY <1>5, <2>1 DEF MetaRecord
  <2>3. m1.pieceCount = PieceCountOf(m1.size) /\ Len(m1.needed) <= m1.pieceCount
    BY <1>2, <1>4, <1>5
  <2>4. NeededPieces(m1) \subseteq 0..m1.pieceCount - 1
    <3>1. DOMAIN rest = 1..Len(rest)
      BY <1>4
    <3> QED
      BY <1>5, <1>7, <3>1 DEF NeededPieces
  <2>5. QED
    BY <2>1, <2>2, <2>3, <2>4
<1>10. UNCHANGED <<infoDictOffset, served, reply, now, infoKind>>
  BY DEF SetMetadataPiece
<1>11. CASE m1.needed # <<>>
  <2>1. meta' = m1 /\ UNCHANGED <<info, torrentFile, resumeFile, localError,
                                   isStopping, magnetVerify>>
    BY <1>11 DEF SetMetadataPiece, m1
  <2>2. QED
    BY <1>8, <1>10, <2>1 DEF TypeOK
<1>12. CASE m1.needed = <<>>
  <2>1. /\ torrentFile' \in {"magnet", "full", "absent"}
        /\ resumeFile' \in BOOLEAN /\ localError' \in BOOLEAN
    BY <1>12, Zenon DEF SetMetadataPiece, TypeOK
  <2>2. /\ info' \in {"magnet", "genuine", "corrupt"}
        /\ isStopping' \in BOOLEAN /\ magnetVerify' \in BOOLEAN
    BY <1>12, Zenon DEF SetMetadataPiece, TypeOK
  <2>3. meta' = NoMeta \/ meta' = [m1 EXCEPT !.needed = AllPiecesNeeded(pc)]
    BY <1>12 DEF SetMetadataPiece, m1
  <2> DEFINE m2 == [m1 EXCEPT !.needed = AllPiecesNeeded(pc)]
  <2>4. /\ m2 \in [size: 1..IntMax, pieceCount: Nat \ {0}, needed: Seq(NeededNode),
                  buf: [0..m2.pieceCount - 1 -> BufferByte]]
        /\ m2.pieceCount = PieceCountOf(m2.size)
        /\ Len(m2.needed) <= m2.pieceCount
        /\ NeededPieces(m2) \subseteq 0..m2.pieceCount - 1
    <3>1. /\ AllPiecesNeeded(pc) \in Seq(NeededNode) /\ Len(AllPiecesNeeded(pc)) = pc
          /\ \A i \in 1..pc : AllPiecesNeeded(pc)[i].piece \in 0..pc - 1
      BY <1>2, AllPiecesNeededType
    <3>2. /\ m2.needed = AllPiecesNeeded(pc)
          /\ m2.buf = m1.buf /\ m2.pieceCount = pc /\ m2.size = m1.size
          /\ DOMAIN m2 = {"size", "pieceCount", "needed", "buf"}
      BY <1>5, <1>8
    <3> HIDE DEF pc, m2
    <3>3. DOMAIN m2.needed = 1..pc
      BY <3>1, <3>2
    <3>4. m2 \in [size: 1..IntMax, pieceCount: Nat \ {0}, needed: Seq(NeededNode),
                  buf: [0..m2.pieceCount - 1 -> BufferByte]]
      <4>1. m2 \in MetaRecord(pc)
        BY <1>2, <1>8, <3>1, MetaRecordNeeded DEF m2
      <4> QED
        BY <3>2, <4>1 DEF MetaRecord
    <3>5. NeededPieces(m2) \subseteq 0..m2.pieceCount - 1
      BY <3>1, <3>2, <3>3 DEF NeededPieces
    <3>6. m2.pieceCount = PieceCountOf(m2.size)
      BY <1>5, <1>8, <3>2
    <3>7. Len(m2.needed) <= m2.pieceCount
      BY <1>2, <3>1, <3>2
    <3> QED
      BY <3>4, <3>5, <3>6, <3>7
  <2>5. CASE meta' = NoMeta
    BY <1>10, <2>1, <2>2, <2>5 DEF TypeOK
  <2>6. CASE meta' = m2
    <3> HIDE DEF pc, m2
    <3> QED
      BY <1>10, <2>1, <2>2, <2>4, <2>6 DEF TypeOK
  <2>7. QED
    BY <2>3, <2>5, <2>6
<1>13. QED
  BY <1>11, <1>12

LEMMA NextRequestTypeOK ==
    ASSUME TypeOK, GetNextMetadataRequest
    PROVE  TypeOK'
<1>1. UNCHANGED <<info, torrentFile, resumeFile, localError, isStopping,
                  magnetVerify, infoDictOffset, served, now, infoKind>>
  BY DEF GetNextMetadataRequest
<1>2. CASE HeadEligible
  <2> DEFINE pc == meta.pieceCount
             h == Head(meta.needed)
             nd == Append(Tail(meta.needed), [piece |-> h.piece, requestedAt |-> now])
  <2>1. /\ meta \in MetaRecord(pc)
        /\ pc \in Nat \ {0}
        /\ pc = PieceCountOf(meta.size)
        /\ Len(meta.needed) <= pc
        /\ NeededPieces(meta) \subseteq 0..pc - 1
        /\ meta.needed # <<>>
        /\ now \in StartTime..MaxTime
    BY <1>2 DEF TypeOK, HeadEligible, MetaRecord
  <2>2. /\ h \in NeededNode
        /\ h.piece \in 0..pc - 1
        /\ Tail(meta.needed) \in Seq(NeededNode)
        /\ Len(Tail(meta.needed)) = Len(meta.needed) - 1
        /\ \A j \in 1..Len(meta.needed) - 1 : Tail(meta.needed)[j] = meta.needed[j + 1]
    BY <2>1, HeadTailProperties DEF MetaRecord, NeededPieces
  <2>3. /\ nd \in Seq(NeededNode)
        /\ Len(nd) = Len(meta.needed)
        /\ \A j \in 1..Len(nd) : nd[j].piece \in 0..pc - 1
    <3>1. [piece |-> h.piece, requestedAt |-> now] \in NeededNode
      BY <2>1, <2>2 DEF NeededNode
    <3>2. \A j \in 1..Len(meta.needed) - 1 : meta.needed[j + 1].piece \in 0..pc - 1
      BY <2>1 DEF MetaRecord, NeededPieces
    <3> HIDE DEF h
    <3> QED
      BY <2>1, <2>2, <3>1, <3>2, AppendProperties
  <2>4. meta' = [meta EXCEPT !.needed = nd] /\ reply' = h.piece
    BY <1>2 DEF GetNextMetadataRequest
  <2> HIDE DEF nd, h
  <2>5. meta' \in MetaRecord(pc)
    BY <2>1, <2>3, <2>4, MetaRecordNeeded
  <2>6. meta'.pieceCount = pc /\ meta'.size = meta.size /\ meta'.needed = nd
    BY <2>1, <2>4 DEF MetaRecord
  <2>7. NeededPieces(meta') \subseteq 0..meta'.pieceCount - 1
    BY <2>3, <2>6 DEF NeededPieces
  <2>8. reply' \in Nat
    BY <2>2, <2>4
  <2> QED
    BY <1>1, <2>1, <2>3, <2>5, <2>6, <2>7, <2>8 DEF TypeOK, MetaRecord
<1>3. CASE ~HeadEligible
  <2>1. meta' = meta /\ reply' = NoPiece
    BY <1>3 DEF GetNextMetadataRequest
  <2> QED
    BY <1>1, <2>1 DEF TypeOK
<1>4. QED
  BY <1>2, <1>3

LEMMA MetadataPieceTypeOK ==
    ASSUME TypeOK, NEW piece \in PeerPieces, NEW findOK \in BOOLEAN,
           NEW openOK \in BOOLEAN, GetMetadataPiece(piece, findOK, openOK)
    PROVE  TypeOK'
<1>1. UNCHANGED <<info, meta, torrentFile, resumeFile, localError, isStopping,
                  magnetVerify, reply, now, infoKind>>
  BY DEF GetMetadataPiece
<1>2. infoDictOffset' \in {"uncached", "correct", "zero"}
  BY DEF GetMetadataPiece, InfoDictOffsetAfter, TypeOK
<1>3. served' \in {"nothing", "genuine", "wrong", "overrun"}
  BY DEF GetMetadataPiece, ServedBytes
<1>4. QED
  BY <1>1, <1>2, <1>3 DEF TypeOK

LEMMA TickTypeOK ==
    ASSUME TypeOK, Tick
    PROVE  TypeOK'
<1>1. now' \in StartTime..MaxTime /\ reply' = NoCall
  BY DEF Tick, TypeOK
<1>2. UNCHANGED <<info, meta, torrentFile, resumeFile, localError, isStopping,
                  magnetVerify, infoDictOffset, served, infoKind>>
  BY DEF Tick
<1>3. QED
  BY <1>1, <1>2 DEF TypeOK

LEMMA StutterTypeOK ==
    ASSUME TypeOK, UNCHANGED vars
    PROVE  TypeOK'
BY DEF TypeOK, vars

(***************************************************************************)
(* Every step of the handlers, and a stutter, keeps the state well typed.  *)
(***************************************************************************)
LEMMA TypeStep == TypeOK /\ [Next]_vars => TypeOK'
<1> SUFFICES ASSUME TypeOK, [Next]_vars PROVE TypeOK'
  OBVIOUS
<1>1. CASE \E size \in HintSizes : SetMetadataSizeHint(size)
  BY <1>1, SizeHintTypeOK
<1>2. CASE \E piece \in PeerPieces, data \in PieceData, len \in PeerLengths,
              kind \in InfoKinds, loadOK, writeOK \in BOOLEAN :
              SetMetadataPiece(piece, data, len, kind, loadOK, writeOK)
  BY <1>2, SetPieceTypeOK
<1>3. CASE GetNextMetadataRequest
  BY <1>3, NextRequestTypeOK
<1>4. CASE \E piece \in PeerPieces, findOK, openOK \in BOOLEAN :
              GetMetadataPiece(piece, findOK, openOK)
  BY <1>4, MetadataPieceTypeOK
<1>5. CASE Tick
  BY <1>5, TickTypeOK
<1>6. CASE UNCHANGED vars
  BY <1>6, StutterTypeOK
<1> QED
  BY <1>1, <1>2, <1>3, <1>4, <1>5, <1>6 DEF Next

(***************************************************************************)
(* Every reachable state is well typed: the needed list of the incomplete  *)
(* metadata only ever holds in-range pieces and is never longer than the   *)
(* piece count, through size hints, deliveries, resets and rotations.      *)
(***************************************************************************)
THEOREM TypeCorrect == Spec => []TypeOK
<1>1. Init => TypeOK
  BY InitTypeOK
<1>2. TypeOK /\ [Next]_vars => TypeOK'
  BY TypeStep
<1>3. QED
  BY <1>1, <1>2, PTL DEF Spec

(***************************************************************************)
(* The length tr_torrentGetMetadataPiece computes keeps the bytes it hands *)
(* out inside the dict: a piece within the dict gets METADATA_PIECE_SIZE   *)
(* bytes or the dict's tail, and for a piece past the dict the wrapped     *)
(* size_t length is larger than METADATA_PIECE_SIZE and refused.           *)
(***************************************************************************)
LEMMA ServedLengthWithinDict ==
    ASSUME NEW piece \in 0..MaxPieces
    PROVE  LET o == (piece * PieceSize) % SizeT
               l == IF (o + PieceSize) % SizeT <= TrueSize THEN PieceSize
                    ELSE (TrueSize - o) % SizeT
           IN  0 < l /\ l <= PieceSize => o + l <= TrueSize
<1> DEFINE o == (piece * PieceSize) % SizeT
           l == IF (o + PieceSize) % SizeT <= TrueSize THEN PieceSize
                ELSE (TrueSize - o) % SizeT
<1> SUFFICES 0 < l /\ l <= PieceSize => o + l <= TrueSize
  OBVIOUS
<1>1. MaxPieces \in Nat
  <2>1. IntMax \div PieceSize \in Nat
    OBVIOUS
  <2> QED
    BY <2>1 DEF MaxPieces, PieceCountOf
<1>2. piece * PieceSize \in 0..MaxPieces * PieceSize
  BY <1>1
<1>3. o = piece * PieceSize
  BY <1>1, <1>2, SizeTAssumption
<1>4. o + PieceSize < SizeT /\ o \in Nat
  BY <1>1, <1>2, <1>3, SizeTAssumption
<1>5. (o + PieceSize) % SizeT = o + PieceSize
  BY <1>4
<1> HIDE DEF o
<1>6. CASE o + PieceSize <= TrueSize
  BY <1>4, <1>5, <1>6
<1>7. CASE o + PieceSize > TrueSize /\ o <= TrueSize
  <2>1. (TrueSize - o) % SizeT = TrueSize - o
    BY <1>4, <1>7, SizeTAssumption
  <2> QED
    BY <1>4, <1>5, <1>7, <2>1
<1>8. CASE o > TrueSize
  <2>1. (TrueSize - o) % SizeT = TrueSize - o + SizeT
    BY <1>4, <1>8, SizeTAssumption
  <2>2. TrueSize - o + SizeT > PieceSize
    BY <1>4, <1>8
  <2> QED
    BY <1>4, <1>5, <1>8, <2>1, <2>2
<1>9. QED
  BY <1>4, <1>6, <1>7, <1>8

(***************************************************************************)
(* Every step keeps what tr_torrentGetMetadataPiece served inside the dict. *)
(***************************************************************************)
LEMMA NextServedWithin ==
    TypeOK /\ ServedWithinDict /\ [Next]_vars => ServedWithinDict'
<1> SUFFICES ASSUME TypeOK, ServedWithinDict, [Next]_vars
             PROVE  ServedWithinDict'
  OBVIOUS
<1>1. CASE \E size \in HintSizes : SetMetadataSizeHint(size)
  BY <1>1 DEF SetMetadataSizeHint, ServedWithinDict
<1>2. CASE \E piece \in PeerPieces, data \in PieceData, len \in PeerLengths,
              kind \in InfoKinds, loadOK, writeOK \in BOOLEAN :
              SetMetadataPiece(piece, data, len, kind, loadOK, writeOK)
  BY <1>2 DEF SetMetadataPiece, ServedWithinDict
<1>3. CASE GetNextMetadataRequest
  BY <1>3 DEF GetNextMetadataRequest, ServedWithinDict
<1>4. CASE \E piece \in PeerPieces, findOK, openOK \in BOOLEAN :
              GetMetadataPiece(piece, findOK, openOK)
  <2> PICK piece \in PeerPieces, findOK \in BOOLEAN, openOK \in BOOLEAN :
             GetMetadataPiece(piece, findOK, openOK)
    BY <1>4
  <2> DEFINE o == (piece * PieceSize) % SizeT
             l == IF (o + PieceSize) % SizeT <= TrueSize THEN PieceSize
                  ELSE (TrueSize - o) % SizeT
  <2>1. piece \in 0..MaxPieces
    BY DEF GetMetadataPiece, PeerPieces
  <2>2. 0 < l /\ l <= PieceSize => o + l <= TrueSize
    BY <2>1, ServedLengthWithinDict
  <2>3. served' = IF openOK /\ torrentFile = "full" /\ 0 < l /\ l <= PieceSize
                  THEN ServedBytes(InfoDictOffsetAfter(findOK), o, l)
                  ELSE "nothing"
    BY DEF GetMetadataPiece
  <2>4. o \in Int /\ l \in Int
    BY <2>1
  <2> HIDE DEF o, l
  <2> QED
    BY <2>2, <2>3, <2>4 DEF ServedBytes, ServedWithinDict
<1>5. CASE Tick
  BY <1>5 DEF Tick, ServedWithinDict
<1>6. CASE UNCHANGED vars
  BY <1>6 DEF vars, ServedWithinDict
<1>7. QED
  BY <1>1, <1>2, <1>3, <1>4, <1>5, <1>6 DEF Next

(***************************************************************************)
(* No peer is ever served bytes past the end of the info dict, for every   *)
(* piece size and dict size a size_t wider than the piece offsets allows.  *)
(***************************************************************************)
THEOREM ServedSafe == Spec => []ServedWithinDict
<1>1. Init => TypeOK /\ ServedWithinDict
  BY InitTypeOK DEF Init, ServedWithinDict
<1>2. TypeOK /\ ServedWithinDict /\ [Next]_vars => TypeOK' /\ ServedWithinDict'
  BY TypeStep, NextServedWithin
<1>3. QED
  BY <1>1, <1>2, PTL DEF Spec

=============================================================================
