------------------------ MODULE MetadataPercentProofs ------------------------
(***************************************************************************)
(* Proof that the progress tr_torrentGetMetadataPercent reports only falls *)
(* when a completed buffer is rejected and its needed list refilled.       *)
(***************************************************************************)
EXTENDS MetadataRefinementProofs

USE ConstantsAssumption

\* tr_torrentGetMetadataPercent for a torrent with info i and metadata m.
Pct(i, m) ==
    IF i # "magnet" THEN <<1, 1>>
    ELSE IF m = NoMeta \/ m.pieceCount = 0 THEN <<0, 1>>
    ELSE <<m.pieceCount - Len(m.needed), m.pieceCount>>

\* A fraction between 0 and 1 with a positive denominator.
PctOK(p) == p[1] \in Nat /\ p[2] \in Nat \ {0} /\ p[1] <= p[2]

\* The step that refills the needed list of a rejected buffer.
ResetStep ==
    /\ info' = "magnet"
    /\ meta # NoMeta /\ meta' # NoMeta
    /\ meta'.needed = AllPiecesNeeded(meta.pieceCount)

LEMMA PercentIsPct ==
    MetadataPercent = Pct(info, meta) /\ MetadataPercent' = Pct(info', meta')
BY DEF MetadataPercent, HasMetadata, Pct

\* The progress of a well-formed buffer is a fraction between 0 and 1.
LEMMA PctBounds ==
    ASSUME NEW i, NEW m,
           \/ m = NoMeta
           \/ /\ m.pieceCount \in Nat \ {0}
              /\ m.needed \in Seq(NeededNode)
              /\ Len(m.needed) <= m.pieceCount
    PROVE  PctOK(Pct(i, m))
BY DEF Pct, PctOK

\* The metadata of a well-typed state gives such a fraction.
LEMMA TypePctBounds ==
    ASSUME TypeOK, NEW i
    PROVE  PctOK(Pct(i, meta))
<1>1. \/ meta = NoMeta
      \/ /\ meta.pieceCount \in Nat \ {0}
         /\ meta.needed \in Seq(NeededNode)
         /\ Len(meta.needed) <= meta.pieceCount
  BY DEF TypeOK
<1>2. QED
  BY <1>1, PctBounds

\* The same for the next state.
LEMMA TypePctBoundsPrime ==
    ASSUME TypeOK', NEW i
    PROVE  PctOK(Pct(i, meta'))
<1>1. \/ meta' = NoMeta
      \/ /\ meta'.pieceCount \in Nat \ {0}
         /\ meta'.needed \in Seq(NeededNode)
         /\ Len(meta'.needed) <= meta'.pieceCount
  BY DEF TypeOK
<1>2. QED
  BY <1>1, PctBounds

(***************************************************************************)
(* A fraction is not below 0, 1 is not below a fraction, and a fraction   *)
(* with no smaller numerator over the same denominator is not below.      *)
(***************************************************************************)
LEMMA NotBelowZero ==
    ASSUME NEW p, PctOK(p) PROVE ~FractionBelow(p, <<0, 1>>)
BY DEF PctOK, FractionBelow

LEMMA OneNotBelow ==
    ASSUME NEW q, PctOK(q) PROVE ~FractionBelow(<<1, 1>>, q)
BY DEF PctOK, FractionBelow

LEMMA SameDenominatorNotBelow ==
    ASSUME NEW a \in Int, NEW b \in Int, NEW c \in Nat, b <= a
    PROVE  ~FractionBelow(<<a, c>>, <<b, c>>)
BY DEF FractionBelow

\* A step that changes neither the info nor the metadata leaves the progress.
LEMMA UnchangedPercent ==
    ASSUME TypeOK, info' = info, meta' = meta
    PROVE  ~FractionBelow(MetadataPercent', MetadataPercent)
<1>1. PctOK(Pct(info, meta))
  BY TypePctBounds
<1>2. MetadataPercent' = MetadataPercent
  BY PercentIsPct
<1>3. QED
  BY <1>1, <1>2, PercentIsPct DEF PctOK, FractionBelow

\* A size hint starts from no buffer, whose progress is 0.
LEMMA SizeHintPercent ==
    ASSUME MagnetInv, NEW size \in HintSizes, SetMetadataSizeHint(size)
    PROVE  ~FractionBelow(MetadataPercent', MetadataPercent)
<1>1. TypeOK'
  BY SizeHintTypeOK DEF MagnetInv
<1>2. info = "magnet" /\ meta = NoMeta /\ info' = info
  BY DEF SetMetadataSizeHint, HasMetadata
<1>3. MetadataPercent = <<0, 1>>
  BY <1>2, PercentIsPct DEF Pct
<1>4. PctOK(MetadataPercent')
  BY <1>1, <1>2, TypePctBoundsPrime, PercentIsPct
<1>5. QED
  BY <1>3, <1>4, NotBelowZero

(***************************************************************************)
(* A delivery strikes one node, so the progress rises; the installation    *)
(* reports 1; only the refilled list of a rejected buffer goes back.       *)
(***************************************************************************)
LEMMA SetPiecePercent ==
    ASSUME MagnetInv, NEW piece \in PeerPieces, NEW data \in PieceData,
           NEW len \in PeerLengths, NEW kind \in InfoKinds,
           NEW loadOK \in BOOLEAN, NEW writeOK \in BOOLEAN,
           SetMetadataPiece(piece, data, len, kind, loadOK, writeOK)
    PROVE  ~FractionBelow(MetadataPercent', MetadataPercent) \/ ResetStep
<1> DEFINE k == PieceNeededIndex(meta, piece)
           rest == RemoveElementFromArray(meta.needed, k)
           m1 == [meta EXCEPT !.buf[piece] = data, !.needed = rest]
           pc == meta.pieceCount
           m2 == [m1 EXCEPT !.needed = AllPiecesNeeded(pc)]
           success == /\ ChecksumPasses(m1) /\ kind # "notBenc" /\ loadOK
                      /\ torrentFile # "absent" /\ kind = "usable"
<1>1. TypeOK'
  BY SetPieceTypeOK DEF MagnetInv
<1>2. meta # NoMeta /\ piece \in 0..pc - 1 /\ k # 0
  <2>1. meta # NoMeta /\ 0 <= piece /\ piece < pc /\ k # 0
    BY Zenon DEF SetMetadataPiece
  <2>2. piece \in Int /\ pc \in Nat
    BY <2>1 DEF PeerPieces, MagnetInv, TypeOK
  <2> QED
    BY <2>1, <2>2
<1>3. info = "magnet" /\ meta \in MetaRecord(pc) /\ pc \in 1..IntMax
  BY <1>2, MetaIsRecord DEF MagnetInv
<1>4. m1 # NoMeta /\ m2 # NoMeta
  BY <1>2, StoreKeepsRecord DEF MagnetInv
<1>5. k \in 1..Len(meta.needed) /\ Len(rest) = Len(meta.needed) - 1
  <2>1. k \in 1..Len(meta.needed)
    BY <1>2, <1>3, PieceNeededIndexFound DEF MetaRecord
  <2>2. meta.needed \in Seq(NeededNode)
    BY <1>3 DEF MetaRecord
  <2> HIDE DEF k
  <2> QED
    BY <2>1, <2>2, RemoveElementProperties
<1>6. m1.needed = rest /\ m1.pieceCount = pc /\ m2.needed = AllPiecesNeeded(pc)
  BY <1>3 DEF MetaRecord
<1>7. MetadataPercent = <<pc - Len(meta.needed), pc>>
  BY <1>2, <1>3, PercentIsPct DEF Pct
<1>8. Len(meta.needed) \in Nat
  BY <1>3 DEF MetaRecord
<1> HIDE DEF m1, m2, rest, k, pc
<1>9. CASE m1.needed # <<>>
  <2>1. meta' = m1 /\ info' = info
    BY <1>9 DEF SetMetadataPiece, m1, rest, k
  <2>2. info' = "magnet" /\ meta' # NoMeta /\ meta'.pieceCount = pc /\ pc # 0
        /\ Len(meta'.needed) = Len(meta.needed) - 1
    BY <1>3, <1>4, <1>5, <1>6, <2>1
  <2>3. MetadataPercent' = <<pc - Len(meta'.needed), pc>>
    BY <2>2, PercentIsPct DEF Pct
  <2>4. ~FractionBelow(<<pc - (Len(meta.needed) - 1), pc>>, <<pc - Len(meta.needed), pc>>)
    <3>1. pc \in Nat /\ pc - (Len(meta.needed) - 1) \in Int /\ pc - Len(meta.needed) \in Int
          /\ pc - Len(meta.needed) <= pc - (Len(meta.needed) - 1)
      BY <1>3, <1>8
    <3> QED
      BY <3>1, SameDenominatorNotBelow
  <2>5. QED
    BY <1>7, <2>2, <2>3, <2>4
<1>10. CASE m1.needed = <<>> /\ success
  <2>1. info' = "genuine"
    BY <1>10 DEF SetMetadataPiece, ChecksumPasses, m1, rest, k, success
  <2>2. MetadataPercent' = <<1, 1>>
    BY <2>1, PercentIsPct DEF Pct
  <2>3. PctOK(MetadataPercent)
    BY TypePctBounds, PercentIsPct DEF MagnetInv
  <2>4. QED
    BY <2>2, <2>3, OneNotBelow
<1>11. CASE m1.needed = <<>> /\ ~success
  <2>1. meta' = m2 /\ info' = info
    BY <1>11 DEF SetMetadataPiece, ChecksumPasses, m1, m2, rest, k, pc, success
  <2>2. ResetStep
    BY <1>2, <1>3, <1>4, <1>6, <2>1 DEF ResetStep, pc
  <2>3. QED
    BY <2>2
<1>12. QED
  BY <1>9, <1>10, <1>11

\* Handing out a request rotates the list: as many nodes as before.
LEMMA GetNextPercent ==
    ASSUME MagnetInv, GetNextMetadataRequest
    PROVE  ~FractionBelow(MetadataPercent', MetadataPercent)
<1>1. info' = info
  BY DEF GetNextMetadataRequest
<1>2. CASE HeadEligible
  <2> DEFINE pc == meta.pieceCount
             h == Head(meta.needed)
             nd == Append(Tail(meta.needed), [piece |-> h.piece, requestedAt |-> now])
  <2>1. meta # NoMeta /\ meta.needed # <<>>
    BY <1>2 DEF HeadEligible
  <2>2. meta \in MetaRecord(pc) /\ pc \in 1..IntMax /\ info = "magnet"
    BY <2>1, MetaIsRecord DEF MagnetInv
  <2>3. nd \in Seq(NeededNode) /\ Len(nd) = Len(meta.needed)
    <3>1. meta.needed \in Seq(NeededNode)
      BY <2>2 DEF MetaRecord
    <3>2. /\ h \in NeededNode /\ Tail(meta.needed) \in Seq(NeededNode)
          /\ Len(Tail(meta.needed)) = Len(meta.needed) - 1
      BY <2>1, <3>1, HeadTailProperties
    <3>3. [piece |-> h.piece, requestedAt |-> now] \in NeededNode
      BY <3>2 DEF NeededNode, MagnetInv, TypeOK
    <3> HIDE DEF h
    <3> QED
      BY <3>2, <3>3, AppendProperties
  <2>4. meta' = [meta EXCEPT !.needed = nd]
    BY <1>2 DEF GetNextMetadataRequest
  <2> HIDE DEF nd, pc
  <2>5. meta' \in MetaRecord(pc) /\ meta'.needed = nd /\ meta'.pieceCount = pc
    <3>1. pc \in Nat
      BY <2>2
    <3>2. meta' \in MetaRecord(pc)
      BY <2>2, <2>3, <2>4, <3>1, MetaRecordNeeded
    <3>3. meta'.needed = nd /\ meta'.pieceCount = pc
      BY <2>2, <2>4 DEF MetaRecord, pc
    <3> QED
      BY <3>2, <3>3
  <2>6. meta' # NoMeta
    BY <2>2, <2>5, MetaNotNoMeta
  <2>7. MetadataPercent' = MetadataPercent
    <3>1. info' = "magnet" /\ meta' # NoMeta /\ meta'.pieceCount = pc /\ pc # 0
          /\ Len(meta'.needed) = Len(meta.needed)
      BY <1>1, <2>1, <2>2, <2>3, <2>5, <2>6
    <3> QED
      BY <2>1, <2>2, <3>1, PercentIsPct DEF Pct, pc
  <2>8. PctOK(MetadataPercent)
    BY TypePctBounds, PercentIsPct DEF MagnetInv
  <2>9. QED
    BY <2>7, <2>8 DEF PctOK, FractionBelow
<1>3. CASE ~HeadEligible
  <2>1. meta' = meta
    BY <1>3 DEF GetNextMetadataRequest
  <2>2. QED
    BY <1>1, <2>1, UnchangedPercent DEF MagnetInv
<1>4. QED
  BY <1>2, <1>3


\* Every step of the handlers either keeps the progress from falling or refills the list.
LEMMA PercentStep ==
    MagnetInv /\ [Next]_vars =>
        (FractionBelow(MetadataPercent', MetadataPercent) =>
             /\ info' = "magnet"
             /\ meta # NoMeta /\ meta' # NoMeta
             /\ meta'.needed = AllPiecesNeeded(meta.pieceCount))
<1> SUFFICES ASSUME MagnetInv, [Next]_vars
             PROVE  ~FractionBelow(MetadataPercent', MetadataPercent) \/ ResetStep
  BY DEF ResetStep
<1>1. CASE \E size \in HintSizes : SetMetadataSizeHint(size)
  BY <1>1, SizeHintPercent
<1>2. CASE \E piece \in PeerPieces, data \in PieceData, len \in PeerLengths,
             kind \in InfoKinds, loadOK, writeOK \in BOOLEAN :
             SetMetadataPiece(piece, data, len, kind, loadOK, writeOK)
  BY <1>2, SetPiecePercent
<1>3. CASE GetNextMetadataRequest
  BY <1>3, GetNextPercent
<1>4. CASE \E piece \in PeerPieces, findOK, openOK \in BOOLEAN :
             GetMetadataPiece(piece, findOK, openOK)
  <2>1. info' = info /\ meta' = meta
    BY <1>4 DEF GetMetadataPiece
  <2> QED
    BY <2>1, UnchangedPercent DEF MagnetInv
<1>5. CASE Tick
  <2>1. info' = info /\ meta' = meta
    BY <1>5 DEF Tick
  <2> QED
    BY <2>1, UnchangedPercent DEF MagnetInv
<1>6. CASE UNCHANGED vars
  <2>1. info' = info /\ meta' = meta
    BY <1>6 DEF vars
  <2> QED
    BY <2>1, UnchangedPercent DEF MagnetInv
<1>7. QED
  BY <1>1, <1>2, <1>3, <1>4, <1>5, <1>6 DEF Next

(***************************************************************************)
(* The progress tr_torrentGetMetadataPercent reports falls only on the     *)
(* refill of the needed list after a rejected buffer, in every behaviour   *)
(* and for every value of the constants.                                   *)
(***************************************************************************)
THEOREM PercentSafe == Spec => PercentOnlyFallsOnReset
<1>1. Init => MagnetInv
  BY InitMagnet
<1>2. MagnetInv /\ [Next]_vars => MagnetInv'
  BY NextMagnet
<1>3. Spec => []MagnetInv
  BY <1>1, <1>2, PTL DEF Spec
<1>4. MagnetInv /\ [Next]_vars =>
        [FractionBelow(MetadataPercent', MetadataPercent) =>
             /\ info' = "magnet"
             /\ meta # NoMeta /\ meta' # NoMeta
             /\ meta'.needed = AllPiecesNeeded(meta.pieceCount)]_vars
  BY PercentStep
<1> QED
  BY <1>3, <1>4, PTL DEF Spec, PercentOnlyFallsOnReset


=============================================================================
