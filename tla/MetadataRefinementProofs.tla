--------------------- MODULE MetadataRefinementProofs ---------------------
(***************************************************************************)
(* Proof that the handlers of torrent-magnet.cc implement the life cycle   *)
(* of MagnetStates under the mapping MagnetState, and that the installed   *)
(* info is always the infohash's own dict.                                  *)
(***************************************************************************)
EXTENDS MetadataExchangeProofs

USE ConstantsAssumption

(***************************************************************************)
(* The piece count of an accepted size is between 1 and the size itself,   *)
(* so it never exceeds INT_MAX.                                             *)
(***************************************************************************)
LEMMA PieceCountBound ==
    ASSUME NEW s \in 1..IntMax
    PROVE  PieceCountOf(s) \in 1..s
<1> DEFINE q == s \div PieceSize
           r == s % PieceSize
<1>1. s = q * PieceSize + r /\ r \in 0..PieceSize - 1 /\ q \in Nat
  BY DEF q, r
<1>2. PieceCountOf(s) = q + (IF r # 0 THEN 1 ELSE 0)
  BY DEF PieceCountOf, q, r
<1> HIDE DEF q, r
<1>3. q * PieceSize >= q
  BY <1>1
<1>4. CASE r = 0
  <2>1. q >= 1
    BY <1>1, <1>4
  <2>2. PieceCountOf(s) = q
    BY <1>1, <1>2, <1>4
  <2>3. q <= s
    BY <1>1, <1>3, <1>4
  <2>4. QED
    BY <1>1, <2>1, <2>2, <2>3
<1>5. CASE r # 0
  <2>1. PieceCountOf(s) = q + 1
    BY <1>1, <1>2, <1>5
  <2>2. q + 1 <= s
    BY <1>1, <1>3, <1>5
  <2>3. QED
    BY <1>1, <2>1, <2>2
<1>6. QED
  BY <1>4, <1>5

(***************************************************************************)
(* An allocated incomplete-metadata record is never the null pointer.      *)
(***************************************************************************)
LEMMA MetaNotNoMeta ==
    ASSUME NEW n \in 1..IntMax, NEW r \in MetaRecord(n)
    PROVE  r # NoMeta
BY NoMetaAssumption DEF MetaRecord

(***************************************************************************)
(* The incomplete metadata of a well-typed state is a record of at most    *)
(* INT_MAX pieces.                                                          *)
(***************************************************************************)
LEMMA MetaIsRecord ==
    ASSUME TypeOK, meta # NoMeta
    PROVE  /\ meta \in MetaRecord(meta.pieceCount)
           /\ meta.pieceCount \in 1..IntMax
<1>1. meta \in MetaRecord(meta.pieceCount) /\ meta.pieceCount = PieceCountOf(meta.size)
  BY DEF TypeOK, MetaRecord
<1>2. meta.size \in 1..IntMax
  BY <1>1 DEF MetaRecord
<1>3. QED
  BY <1>1, <1>2, PieceCountBound

(***************************************************************************)
(* The invariant the refinement rests on: an incomplete-metadata buffer    *)
(* exists only while the torrent is a bare magnet link, a magnet link has  *)
(* no verify scheduled, and no info but the genuine one is ever installed. *)
(***************************************************************************)
MagnetInv ==
    /\ TypeOK
    /\ info # "corrupt"
    /\ meta # NoMeta => info = "magnet"
    /\ info = "magnet" => ~magnetVerify

\* The abstract variables, as the mapping computes them.
mvars == <<MagnetState, magnetVerify>>

LEMMA InitMagnet == Init => MagnetInv /\ Magnet!Init
<1> SUFFICES ASSUME Init PROVE MagnetInv /\ Magnet!Init
  OBVIOUS
<1>1. TypeOK
  BY InitTypeOK
<1>2. info \in {"magnet", "genuine"} /\ meta = NoMeta /\ ~magnetVerify
  BY DEF Init
<1>3. MagnetState \in {"NO_METADATA", "INSTALLED"}
  BY <1>2 DEF MagnetState
<1>4. QED
  BY <1>1, <1>2, <1>3 DEF MagnetInv, Magnet!Init

(***************************************************************************)
(* Storing a delivered piece, and resetting the needed list after a failed *)
(* check, leave an allocated record: neither is the null pointer.          *)
(***************************************************************************)
LEMMA StoreKeepsRecord ==
    ASSUME TypeOK, meta # NoMeta, NEW piece \in 0..meta.pieceCount - 1,
           NEW data \in PieceData, PieceNeededIndex(meta, piece) # 0
    PROVE  LET m1 == [meta EXCEPT !.buf[piece] = data,
                                  !.needed = RemoveElementFromArray(meta.needed,
                                                 PieceNeededIndex(meta, piece))]
           IN  /\ m1 # NoMeta
               /\ [m1 EXCEPT !.needed = AllPiecesNeeded(meta.pieceCount)] # NoMeta
<1> DEFINE pc == meta.pieceCount
           k == PieceNeededIndex(meta, piece)
           rest == RemoveElementFromArray(meta.needed, k)
           m1 == [meta EXCEPT !.buf[piece] = data, !.needed = rest]
           m2 == [m1 EXCEPT !.needed = AllPiecesNeeded(pc)]
<1>1. meta \in MetaRecord(pc) /\ pc \in 1..IntMax /\ pc \in Nat
  BY MetaIsRecord
<1>2. k \in 1..Len(meta.needed)
  BY <1>1, PieceNeededIndexFound DEF MetaRecord
<1>3. rest \in Seq(NeededNode)
  <2> HIDE DEF k
  <2> QED
    BY <1>1, <1>2, RemoveElementProperties DEF MetaRecord
<1> HIDE DEF rest, pc
<1>4. m1 \in MetaRecord(pc)
  <2>1. data \in BufferByte
    BY DEF BufferByte, PieceData
  <2>2. [meta EXCEPT !.buf[piece] = data] \in MetaRecord(pc)
    BY <1>1, <2>1, MetaRecordStore
  <2>3. [[meta EXCEPT !.buf[piece] = data] EXCEPT !.needed = rest] \in MetaRecord(pc)
    BY <1>1, <1>3, <2>2, MetaRecordNeeded
  <2> QED
    BY <2>3 DEF m1
<1> HIDE DEF m1
<1>5. m2 \in MetaRecord(pc)
  <2>1. AllPiecesNeeded(pc) \in Seq(NeededNode)
    BY <1>1, AllPiecesNeededType
  <2> QED
    BY <1>1, <1>4, <2>1, MetaRecordNeeded DEF m2
<1>6. m1 # NoMeta /\ m2 # NoMeta
  BY <1>1, <1>4, <1>5, MetaNotNoMeta
<1>7. QED
  BY <1>6 DEF m1, m2, rest, k, pc

(***************************************************************************)
(* A size hint is the step from NO_METADATA to ACQUIRING, or a stutter.    *)
(***************************************************************************)
LEMMA SizeHintMagnet ==
    ASSUME MagnetInv, NEW size \in HintSizes, SetMetadataSizeHint(size)
    PROVE  MagnetInv' /\ [Magnet!Next]_mvars
<1>1. TypeOK'
  BY SizeHintTypeOK DEF MagnetInv
<1>2. info = "magnet" /\ meta = NoMeta /\ UNCHANGED <<info, magnetVerify>>
  BY DEF SetMetadataSizeHint, HasMetadata
<1>3. MagnetInv'
  BY <1>1, <1>2 DEF MagnetInv
<1>4. MagnetState = "NO_METADATA"
  BY <1>2 DEF MagnetState
<1>5. CASE meta' = NoMeta
  <2>1. MagnetState' = "NO_METADATA"
    BY <1>2, <1>5 DEF MagnetState
  <2> QED
    BY <1>2, <1>3, <1>4, <2>1 DEF mvars
<1>6. CASE meta' # NoMeta
  <2>1. MagnetState' = "ACQUIRING"
    BY <1>2, <1>6 DEF MagnetState
  <2>2. Magnet!SizeHint
    BY <1>2, <1>4, <2>1 DEF Magnet!SizeHint
  <2> QED
    BY <1>3, <2>2 DEF Magnet!Next
<1>7. QED
  BY <1>5, <1>6

(***************************************************************************)
(* A delivered piece keeps the torrent ACQUIRING, unless it completes a    *)
(* dict that passes the checksum, parses and loads: that is the step to    *)
(* INSTALLED, and it sets tor->magnetVerify.                                *)
(***************************************************************************)
LEMMA SetPieceMagnet ==
    ASSUME MagnetInv, NEW piece \in PeerPieces, NEW data \in PieceData,
           NEW len \in PeerLengths, NEW kind \in InfoKinds,
           NEW loadOK \in BOOLEAN, NEW writeOK \in BOOLEAN,
           SetMetadataPiece(piece, data, len, kind, loadOK, writeOK)
    PROVE  MagnetInv' /\ [Magnet!Next]_mvars
<1> DEFINE k == PieceNeededIndex(meta, piece)
           m1 == [meta EXCEPT !.buf[piece] = data,
                              !.needed = RemoveElementFromArray(meta.needed, k)]
           m2 == [m1 EXCEPT !.needed = AllPiecesNeeded(meta.pieceCount)]
           success == /\ ChecksumPasses(m1) /\ kind # "notBenc" /\ loadOK
                      /\ torrentFile # "absent" /\ kind = "usable"
<1>1. TypeOK'
  BY SetPieceTypeOK DEF MagnetInv
<1>2. meta # NoMeta /\ piece \in 0..meta.pieceCount - 1 /\ k # 0
  <2>1. meta # NoMeta /\ 0 <= piece /\ piece < meta.pieceCount /\ k # 0
    BY Zenon DEF SetMetadataPiece
  <2>2. piece \in Int /\ meta.pieceCount \in Nat
    BY <2>1 DEF PeerPieces, MagnetInv, TypeOK
  <2> QED
    BY <2>1, <2>2
<1>3. info = "magnet" /\ ~magnetVerify /\ MagnetState = "ACQUIRING"
  BY <1>2 DEF MagnetInv, MagnetState
<1>4. m1 # NoMeta /\ m2 # NoMeta
  BY <1>2, StoreKeepsRecord DEF MagnetInv
<1> HIDE DEF m1, m2
<1>5. CASE m1.needed # <<>>
  <2>1. meta' = m1 /\ UNCHANGED <<info, magnetVerify>>
    BY <1>5 DEF SetMetadataPiece, m1
  <2>2. MagnetState' = "ACQUIRING"
    BY <1>3, <1>4, <2>1 DEF MagnetState
  <2>3. MagnetInv'
    BY <1>1, <1>3, <2>1 DEF MagnetInv
  <2> QED
    BY <1>3, <2>1, <2>2, <2>3 DEF mvars
<1>6. CASE m1.needed = <<>> /\ success
  <2>1. info' = "genuine" /\ meta' = NoMeta /\ magnetVerify' = TRUE
    BY <1>6 DEF SetMetadataPiece, ChecksumPasses, m1
  <2>2. MagnetState' = "INSTALLED"
    BY <2>1 DEF MagnetState
  <2>3. MagnetInv'
    BY <1>1, <2>1 DEF MagnetInv
  <2>4. Magnet!Install
    BY <1>3, <2>1, <2>2 DEF Magnet!Install
  <2> QED
    BY <2>3, <2>4 DEF Magnet!Next
<1>7. CASE m1.needed = <<>> /\ ~success
  <2>1. meta' = m2 /\ UNCHANGED <<info, magnetVerify>>
    BY <1>7 DEF SetMetadataPiece, m1, m2, ChecksumPasses
  <2>2. MagnetState' = "ACQUIRING"
    BY <1>3, <1>4, <2>1 DEF MagnetState
  <2>3. MagnetInv'
    BY <1>1, <1>3, <2>1 DEF MagnetInv
  <2> QED
    BY <1>3, <2>1, <2>2, <2>3 DEF mvars
<1>8. QED
  BY <1>5, <1>6, <1>7

(***************************************************************************)
(* Handing out a request rotates the needed list of an allocated record:   *)
(* the torrent stays ACQUIRING.                                             *)
(***************************************************************************)
LEMMA NextRequestMagnet ==
    ASSUME MagnetInv, GetNextMetadataRequest
    PROVE  MagnetInv' /\ [Magnet!Next]_mvars
<1>1. TypeOK'
  BY NextRequestTypeOK DEF MagnetInv
<1>2. UNCHANGED <<info, magnetVerify>>
  BY DEF GetNextMetadataRequest
<1>3. CASE HeadEligible
  <2> DEFINE pc == meta.pieceCount
             h == Head(meta.needed)
             nd == Append(Tail(meta.needed), [piece |-> h.piece, requestedAt |-> now])
  <2>1. meta # NoMeta /\ meta.needed # <<>>
    BY <1>3 DEF HeadEligible
  <2>2. meta \in MetaRecord(pc) /\ pc \in 1..IntMax /\ pc \in Nat
    BY <2>1, MetaIsRecord DEF MagnetInv
  <2>3. info = "magnet" /\ MagnetState = "ACQUIRING"
    BY <2>1 DEF MagnetInv, MagnetState
  <2>4. nd \in Seq(NeededNode)
    <3>1. meta.needed \in Seq(NeededNode)
      BY <2>2 DEF MetaRecord
    <3>2. h \in NeededNode /\ Tail(meta.needed) \in Seq(NeededNode)
      BY <2>1, <3>1, HeadTailProperties
    <3>3. [piece |-> h.piece, requestedAt |-> now] \in NeededNode
      BY <3>2 DEF NeededNode, MagnetInv, TypeOK
    <3> HIDE DEF h
    <3> QED
      BY <3>2, <3>3, AppendProperties
  <2>5. meta' = [meta EXCEPT !.needed = nd]
    BY <1>3 DEF GetNextMetadataRequest
  <2> HIDE DEF nd, pc
  <2>6. meta' \in MetaRecord(pc)
    BY <2>2, <2>4, <2>5, MetaRecordNeeded
  <2>7. meta' # NoMeta
    BY <2>2, <2>6, MetaNotNoMeta
  <2>8. MagnetState' = "ACQUIRING"
    BY <1>2, <2>3, <2>7 DEF MagnetState
  <2>9. MagnetInv'
    BY <1>1, <1>2, <2>3 DEF MagnetInv
  <2> QED
    BY <1>2, <2>3, <2>8, <2>9 DEF mvars
<1>4. CASE ~HeadEligible
  <2>1. UNCHANGED meta
    BY <1>4 DEF GetNextMetadataRequest
  <2> QED
    BY <1>1, <1>2, <2>1 DEF MagnetInv, mvars, MagnetState
<1>5. QED
  BY <1>3, <1>4

(***************************************************************************)
(* Serving a piece to a peer and the clock change no life-cycle state.     *)
(***************************************************************************)
LEMMA MetadataPieceMagnet ==
    ASSUME MagnetInv, NEW piece \in PeerPieces, NEW findOK \in BOOLEAN,
           NEW openOK \in BOOLEAN, GetMetadataPiece(piece, findOK, openOK)
    PROVE  MagnetInv' /\ [Magnet!Next]_mvars
<1>1. TypeOK'
  BY MetadataPieceTypeOK DEF MagnetInv
<1>2. UNCHANGED <<info, meta, magnetVerify>>
  BY DEF GetMetadataPiece
<1>3. QED
  BY <1>1, <1>2 DEF MagnetInv, mvars, MagnetState

LEMMA TickMagnet ==
    ASSUME MagnetInv, Tick
    PROVE  MagnetInv' /\ [Magnet!Next]_mvars
<1>1. TypeOK'
  BY TickTypeOK DEF MagnetInv
<1>2. UNCHANGED <<info, meta, magnetVerify>>
  BY DEF Tick
<1>3. QED
  BY <1>1, <1>2 DEF MagnetInv, mvars, MagnetState

(***************************************************************************)
(* Every step of the handlers preserves MagnetInv and is a step of         *)
(* MagnetStates or leaves the mapped state alone.                          *)
(***************************************************************************)
LEMMA NextMagnet ==
    MagnetInv /\ [Next]_vars => MagnetInv' /\ [Magnet!Next]_mvars
<1> SUFFICES ASSUME MagnetInv, [Next]_vars
             PROVE  MagnetInv' /\ [Magnet!Next]_mvars
  OBVIOUS
<1>1. CASE \E size \in HintSizes : SetMetadataSizeHint(size)
  BY <1>1, SizeHintMagnet
<1>2. CASE \E piece \in PeerPieces, data \in PieceData, len \in PeerLengths,
              kind \in InfoKinds, loadOK, writeOK \in BOOLEAN :
              SetMetadataPiece(piece, data, len, kind, loadOK, writeOK)
  BY <1>2, SetPieceMagnet
<1>3. CASE GetNextMetadataRequest
  BY <1>3, NextRequestMagnet
<1>4. CASE \E piece \in PeerPieces, findOK, openOK \in BOOLEAN :
              GetMetadataPiece(piece, findOK, openOK)
  BY <1>4, MetadataPieceMagnet
<1>5. CASE Tick
  BY <1>5, TickMagnet
<1>6. CASE UNCHANGED vars
  <2>1. TypeOK'
    BY <1>6, StutterTypeOK DEF MagnetInv
  <2> QED
    BY <1>6, <2>1 DEF MagnetInv, mvars, MagnetState, vars
<1>7. QED
  BY <1>1, <1>2, <1>3, <1>4, <1>5, <1>6 DEF Next

(***************************************************************************)
(* The handlers of torrent-magnet.cc implement MagnetStates: every         *)
(* behaviour, seen through MagnetState and tor->magnetVerify, is one of    *)
(* the abstract life cycle, for every piece size, INT_MAX, dict size and  *)
(* set of advertised sizes.                                                 *)
(***************************************************************************)
THEOREM RefinesMagnetStates == Spec => ImplementsMagnetStates
<1>1. Init => MagnetInv /\ Magnet!Init
  BY InitMagnet
<1>2. MagnetInv /\ [Next]_vars => MagnetInv' /\ [Magnet!Next]_mvars
  BY NextMagnet
<1>3. QED
  BY <1>1, <1>2, PTL DEF Spec, ImplementsMagnetStates, Magnet!Spec, Magnet!vars, mvars

=============================================================================
