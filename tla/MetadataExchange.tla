-------------------------- MODULE MetadataExchange --------------------------
(***************************************************************************)
(* The incremental acquisition of a magnet torrent's info dictionary       *)
(* (libtransmission/torrent-magnet.cc, src/unnamed/part_000 lines          *)
(* 1049-1430), together with the torrent state it touches: the torrent's   *)
(* info, its .torrent and .resume files on disk, its local error, the      *)
(* stop-and-verify flags set on installation, and the cached offset of the *)
(* info dict inside the .torrent file used to serve metadata to peers.     *)
(*                                                                         *)
(* Bytes are abstracted: a metadata piece delivered by a peer is "good"    *)
(* (the bytes of the genuine info dict at that offset) or "bad"; the       *)
(* SHA-1 over the buffer equals the infohash exactly when the buffer has   *)
(* the genuine dict's size and every piece is good.  What the genuine dict *)
(* parses to is a property of the torrent, infoKind, fixed in Init.        *)
(***************************************************************************)
EXTENDS Integers, Sequences

CONSTANTS
    PieceSize,   \* METADATA_PIECE_SIZE (16384), scaled down
    IntMax,      \* INT_MAX, the largest size hint accepted
    TrueSize,    \* the length of the genuine info dict named by the infohash
    HintSizes,   \* the sizes peers may advertise in a size hint
    MinRepeat,   \* MIN_REPEAT_INTERVAL_SECS (3)
    StartTime,   \* tr_time() when the model starts
    MaxTime,     \* bound on the clock
    NoMeta,      \* tor->incompleteMetadata == nullptr
    NoPiece,     \* tr_torrentGetNextMetadataRequest returned false
    NoCall,      \* no tr_torrentGetNextMetadataRequest yet in this second
    SizeT        \* SIZE_MAX + 1: size_t arithmetic is modulo SizeT

ASSUME ConstantsAssumption ==
    /\ PieceSize \in Nat \ {0}
    /\ IntMax \in Nat \ {0}
    /\ TrueSize \in 1..IntMax
    /\ HintSizes \subseteq Int
    /\ MinRepeat \in Nat
    /\ StartTime \in Nat
    /\ MaxTime \in Nat
    /\ StartTime <= MaxTime
    /\ NoPiece \notin Int
    /\ NoCall \notin Int \cup {NoPiece}
    /\ SizeT \in Nat \ {0}

VARIABLES
    info,            \* tor->info: "magnet" (infohash only), "genuine", "corrupt"
    meta,            \* tor->incompleteMetadata, or NoMeta
    torrentFile,     \* the .torrent on disk: "magnet", "full" or "absent"
    resumeFile,      \* does the .resume file exist?
    localError,      \* tor->error == TR_STAT_LOCAL_ERROR
    isStopping,      \* tor->isStopping
    magnetVerify,    \* tor->magnetVerify
    infoDictOffset,  \* tor->infoDictOffset(IsCached): "uncached", "correct", "zero"
    served,          \* what the last tr_torrentGetMetadataPiece returned
    reply,           \* what the last tr_torrentGetNextMetadataRequest returned
    now,             \* tr_time()
    infoKind         \* what the genuine info dict parses to (never changes)

vars == <<info, meta, torrentFile, resumeFile, localError, isStopping,
          magnetVerify, infoDictOffset, served, reply, now, infoKind>>

(***************************************************************************)
(* What parsing the genuine info dict yields: not bencoded at all           *)
(* (tr_variantFromBenc fails), bencoded but rejected by tr_metainfoParse,   *)
(* parsed with a piece size tr_getBlockSize maps to 0, or usable.           *)
(***************************************************************************)
InfoKinds == {"notBenc", "badMetainfo", "zeroBlockSize", "usable"}

PieceData == {"good", "bad"}

\* tr_torrentHasMetadata
HasMetadata == info # "magnet"

\* size / METADATA_PIECE_SIZE + (size % METADATA_PIECE_SIZE != 0 ? 1 : 0)
PieceCountOf(size) ==
    size \div PieceSize + (IF size % PieceSize # 0 THEN 1 ELSE 0)

MaxPieces == PieceCountOf(IntMax)

\* size_t is wider than the offset of any piece a peer names and than
\* INT_MAX (SIZE_MAX is 2^64 - 1, and INT_MAX * METADATA_PIECE_SIZE < 2^46).
ASSUME SizeTAssumption ==
    /\ (MaxPieces + 1) * PieceSize < SizeT
    /\ IntMax < SizeT

\* getPieceLength: the last piece is the remainder of the dict
GetPieceLength(m, piece) ==
    IF piece + 1 = m.pieceCount
    THEN m.size - piece * PieceSize
    ELSE PieceSize

\* The pieces listed in m->piecesNeeded
NeededPieces(m) == {m.needed[i].piece : i \in DOMAIN m.needed}

\* getPieceNeededIndex, 1-based (0 stands for -1)
PieceNeededIndex(m, piece) ==
    IF piece \in NeededPieces(m)
    THEN CHOOSE i \in DOMAIN m.needed : m.needed[i].piece = piece
    ELSE 0

\* tr_removeElementFromArray on m->piecesNeeded, 1-based index
RemoveElementFromArray(s, i) == SubSeq(s, 1, i - 1) \o SubSeq(s, i + 1, Len(s))

\* piecesNeeded[i] = {i, 0} for every piece: the list after a size hint or a reset
AllPiecesNeeded(n) == [i \in 1..n |-> [piece |-> i - 1, requestedAt |-> 0]]

\* Ground truth: the buffer holds exactly the genuine info dict.
IsGenuineDict(m) ==
    /\ m.size = TrueSize
    /\ \A i \in DOMAIN m.buf : m.buf[i] = "good"

\* A plausible slip in the check below: only the length is compared.
ChecksumPassesSizeOnly(m) == m.size = TrueSize

\* tr_sha1 over the buffer equals tor->info.hash (SHA-1 has no collisions
\* in the model, so this holds exactly for the genuine dict).
ChecksumPasses(m) == IsGenuineDict(m)

\* What tr_variantFromBenc and tr_metainfoParse can make of the buffer: the
\* genuine dict parses to infoKind, other bytes to anything.
ParseOutcomes(m) == IF IsGenuineDict(m) THEN {infoKind} ELSE InfoKinds

-----------------------------------------------------------------------------

\* A struct metadata_node
NeededNode == [piece: Nat, requestedAt: 0..MaxTime]

BufferByte == {"junk"} \cup PieceData

\* tor->incompleteMetadata == nullptr is told apart from every allocated
\* struct tr_incomplete_metadata.
ASSUME NoMetaAssumption ==
    \A n \in 1..IntMax :
        NoMeta \notin [size: 1..IntMax, pieceCount: Nat \ {0},
                       needed: Seq(NeededNode), buf: [0..n - 1 -> BufferByte]]

TypeOK ==
    /\ info \in {"magnet", "genuine", "corrupt"}
    /\ meta = NoMeta \/
       /\ meta \in [size: 1..IntMax, pieceCount: Nat \ {0},
                    needed: Seq(NeededNode),
                    buf: [0..meta.pieceCount - 1 -> BufferByte]]
       /\ meta.pieceCount = PieceCountOf(meta.size)
       /\ Len(meta.needed) <= meta.pieceCount
       /\ NeededPieces(meta) \subseteq 0..meta.pieceCount - 1
    /\ torrentFile \in {"magnet", "full", "absent"}
    /\ resumeFile \in BOOLEAN
    /\ localError \in BOOLEAN
    /\ isStopping \in BOOLEAN
    /\ magnetVerify \in BOOLEAN
    /\ infoDictOffset \in {"uncached", "correct", "zero"}
    /\ served \in {"nothing", "genuine", "wrong", "overrun"}
    /\ reply \in {NoCall, NoPiece} \cup Nat
    /\ now \in StartTime..MaxTime
    /\ infoKind \in InfoKinds

-----------------------------------------------------------------------------

(***************************************************************************)
(* A torrent added from a .torrent file already has its info; one added    *)
(* from a magnet link has only the infohash and a .torrent container       *)
(* without an info dict.                                                    *)
(***************************************************************************)
Init ==
    /\ \/ info = "genuine" /\ torrentFile = "full"
       \/ info = "magnet" /\ torrentFile = "magnet"
    /\ meta = NoMeta
    /\ resumeFile = TRUE
    /\ localError = FALSE
    /\ isStopping = FALSE
    /\ magnetVerify = FALSE
    /\ infoDictOffset = "uncached"
    /\ served = "nothing"
    /\ reply = NoCall
    /\ now = StartTime
    /\ infoKind \in InfoKinds

(***************************************************************************)
(* tr_torrentSetMetadataSizeHint (lines 1079-1127).  The allocation        *)
(* failure path returns false and changes nothing.                          *)
(***************************************************************************)
\* A plausible slip: the upper bound on the advertised size is not checked.
SetMetadataSizeHintUnbounded(size) ==
    /\ ~HasMetadata
    /\ meta = NoMeta
    /\ LET n == IF size <= 0 THEN -1 ELSE PieceCountOf(size)
       IN  /\ n > 0
           /\ meta' = [size |-> size, pieceCount |-> n,
                       needed |-> AllPiecesNeeded(n),
                       buf |-> [i \in 0..n - 1 |-> "junk"]]
    /\ UNCHANGED <<info, torrentFile, resumeFile, localError, isStopping,
                   magnetVerify, infoDictOffset, served, reply, now, infoKind>>

SetMetadataSizeHint(size) ==
    /\ ~HasMetadata
    /\ meta = NoMeta
    /\ LET n == IF size <= 0 \/ size > IntMax THEN -1 ELSE PieceCountOf(size)
       IN  /\ n > 0
           /\ meta' = [size |-> size, pieceCount |-> n,
                       needed |-> AllPiecesNeeded(n),
                       buf |-> [i \in 0..n - 1 |-> "junk"]]
    /\ UNCHANGED <<info, torrentFile, resumeFile, localError, isStopping,
                   magnetVerify, infoDictOffset, served, reply, now, infoKind>>

\* A plausible slip: a failed check keeps the emptied needed list.
SetMetadataPieceNoReset(piece, data, len, kind, loadOK, writeOK) ==
    /\ meta # NoMeta
    /\ 0 <= piece /\ piece < meta.pieceCount
    /\ GetPieceLength(meta, piece) = len
    /\ PieceNeededIndex(meta, piece) # 0
    /\ LET m1 == [meta EXCEPT !.buf[piece] = data,
                              !.needed = RemoveElementFromArray(meta.needed,
                                             PieceNeededIndex(meta, piece))]
           checksumPassed == ChecksumPasses(m1)
           metainfoParsed == checksumPassed /\ kind # "notBenc"
           loaded == metainfoParsed /\ loadOK /\ torrentFile # "absent"
           success == loaded /\ kind = "usable"
       IN
       IF m1.needed # <<>>
       THEN /\ meta' = m1
            /\ UNCHANGED <<info, torrentFile, resumeFile, localError,
                           isStopping, magnetVerify>>
       ELSE
            /\ kind \in ParseOutcomes(m1)
            /\ torrentFile' = IF success /\ writeOK THEN "full"
                              ELSE IF loaded THEN "absent" ELSE torrentFile
            /\ resumeFile' = (resumeFile /\ ~loaded)
            /\ localError' = (localError \/ (loaded /\ kind = "zeroBlockSize"))
            /\ IF success
               THEN /\ info' = IF IsGenuineDict(m1) THEN "genuine" ELSE "corrupt"
                    /\ meta' = NoMeta
                    /\ isStopping' = TRUE
                    /\ magnetVerify' = TRUE
               ELSE /\ meta' = m1
                    /\ UNCHANGED <<info, isStopping, magnetVerify>>
    /\ UNCHANGED <<infoDictOffset, served, reply, now, infoKind>>

(***************************************************************************)
(* tr_torrentSetMetadataPiece (lines 1244-1381): the piece is stored and   *)
(* struck from the needed list; when it was the last one, the checksum,    *)
(* the parse, the merge into the .torrent file and the installation run,   *)
(* and any failure resets the needed list.  loadOK is the outcome of       *)
(* tr_variantFromFile, writeOK that of tr_variantToFile (whose result the   *)
(* code ignores).                                                           *)
(***************************************************************************)
SetMetadataPiece(piece, data, len, kind, loadOK, writeOK) ==
    /\ meta # NoMeta
    /\ 0 <= piece /\ piece < meta.pieceCount
    /\ GetPieceLength(meta, piece) = len
    /\ PieceNeededIndex(meta, piece) # 0
    /\ LET m1 == [meta EXCEPT !.buf[piece] = data,
                              !.needed = RemoveElementFromArray(meta.needed,
                                             PieceNeededIndex(meta, piece))]
           checksumPassed == ChecksumPasses(m1)
           metainfoParsed == checksumPassed /\ kind # "notBenc"
           loaded == metainfoParsed /\ loadOK /\ torrentFile # "absent"
           success == loaded /\ kind = "usable"
       IN
       IF m1.needed # <<>>
       THEN /\ meta' = m1
            /\ UNCHANGED <<info, torrentFile, resumeFile, localError,
                           isStopping, magnetVerify>>
       ELSE
            /\ kind \in ParseOutcomes(m1)
            /\ torrentFile' = IF success /\ writeOK THEN "full"
                              ELSE IF loaded THEN "absent" ELSE torrentFile
            /\ resumeFile' = (resumeFile /\ ~loaded)
            /\ localError' = (localError \/ (loaded /\ kind = "zeroBlockSize"))
            /\ IF success
               THEN /\ info' = IF IsGenuineDict(m1) THEN "genuine" ELSE "corrupt"
                    /\ meta' = NoMeta
                    /\ isStopping' = TRUE
                    /\ magnetVerify' = TRUE
               ELSE /\ meta' = [m1 EXCEPT !.needed = AllPiecesNeeded(meta.pieceCount)]
                    /\ UNCHANGED <<info, isStopping, magnetVerify>>
    /\ UNCHANGED <<infoDictOffset, served, reply, now, infoKind>>

(***************************************************************************)
(* tr_torrentGetNextMetadataRequest (lines 1383-1405): the least recently  *)
(* requested piece is handed out and moved to the tail, stamped with now,  *)
(* unless it was requested within MIN_REPEAT_INTERVAL_SECS.                 *)
(***************************************************************************)
HeadEligible ==
    /\ meta # NoMeta
    /\ meta.needed # <<>>
    /\ Head(meta.needed).requestedAt + MinRepeat < now

\* Plausible slips in the rotation: the head is appended without being
\* removed, or restamped in place instead of moved to the tail.
GetNextMetadataRequestNoRemove ==
    /\ IF HeadEligible
       THEN LET piece == Head(meta.needed).piece
            IN  /\ meta' = [meta EXCEPT !.needed =
                               Append(meta.needed,
                                      [piece |-> piece, requestedAt |-> now])]
                /\ reply' = piece
       ELSE /\ reply' = NoPiece
            /\ UNCHANGED meta
    /\ UNCHANGED <<info, torrentFile, resumeFile, localError, isStopping,
                   magnetVerify, infoDictOffset, served, now, infoKind>>

GetNextMetadataRequestInPlace ==
    /\ IF HeadEligible
       THEN LET piece == Head(meta.needed).piece
            IN  /\ meta' = [meta EXCEPT !.needed[1].requestedAt = now]
                /\ reply' = piece
       ELSE /\ reply' = NoPiece
            /\ UNCHANGED meta
    /\ UNCHANGED <<info, torrentFile, resumeFile, localError, isStopping,
                   magnetVerify, infoDictOffset, served, now, infoKind>>

GetNextMetadataRequest ==
    /\ IF HeadEligible
       THEN LET piece == Head(meta.needed).piece
            IN  /\ meta' = [meta EXCEPT !.needed =
                               Append(Tail(meta.needed),
                                      [piece |-> piece, requestedAt |-> now])]
                /\ reply' = piece
       ELSE /\ reply' = NoPiece
            /\ UNCHANGED meta
    /\ UNCHANGED <<info, torrentFile, resumeFile, localError, isStopping,
                   magnetVerify, infoDictOffset, served, now, infoKind>>

(***************************************************************************)
(* tr_torrentGetMetadataPiece with ensureInfoDictOffsetIsCached and         *)
(* findInfoDictOffset (lines 1129-1222).  findOK: the .torrent could be     *)
(* loaded and parsed and the re-serialized dict found in it; otherwise the *)
(* offset 0 is cached.  openOK: tr_sys_file_open, the seek and the read    *)
(* succeed (the .torrent goes on past the dict, so a read that runs over   *)
(* the dict's end still returns l bytes).  The offset o and the length l   *)
(* are size_t: infoDictLength - o wraps for a piece past the dict.         *)
(* The caller guarantees piece >= 0 (TR_ASSERT).                           *)
(***************************************************************************)
InfoDictOffsetAfter(findOK) ==
    IF infoDictOffset # "uncached" THEN infoDictOffset
    ELSE IF findOK /\ torrentFile = "full" THEN "correct"
    ELSE "zero"

\* What the l bytes read at the cached offset plus o are.
ServedBytes(offset, o, l) ==
    IF o + l > TrueSize THEN "overrun"
    ELSE IF offset = "correct" THEN "genuine"
    ELSE "wrong"

\* A plausible slip: only l > 0 is checked, not l <= METADATA_PIECE_SIZE.
GetMetadataPieceNoUpperCheck(piece, findOK, openOK) ==
    /\ HasMetadata
    /\ piece >= 0
    /\ LET offset == InfoDictOffsetAfter(findOK)
           o == (piece * PieceSize) % SizeT
           l == IF (o + PieceSize) % SizeT <= TrueSize THEN PieceSize
                ELSE (TrueSize - o) % SizeT
       IN  /\ infoDictOffset' = offset
           /\ served' = IF openOK /\ torrentFile = "full" /\ 0 < l
                        THEN ServedBytes(offset, o, l)
                        ELSE "nothing"
    /\ UNCHANGED <<info, meta, torrentFile, resumeFile, localError, isStopping,
                   magnetVerify, reply, now, infoKind>>

GetMetadataPiece(piece, findOK, openOK) ==
    /\ HasMetadata
    /\ piece >= 0
    /\ LET offset == InfoDictOffsetAfter(findOK)
           o == (piece * PieceSize) % SizeT
           l == IF (o + PieceSize) % SizeT <= TrueSize THEN PieceSize
                ELSE (TrueSize - o) % SizeT
       IN  /\ infoDictOffset' = offset
           /\ served' = IF openOK /\ torrentFile = "full" /\ 0 < l /\ l <= PieceSize
                        THEN ServedBytes(offset, o, l)
                        ELSE "nothing"
    /\ UNCHANGED <<info, meta, torrentFile, resumeFile, localError, isStopping,
                   magnetVerify, reply, now, infoKind>>

\* The session clock advances; a new second makes the last reply stale.
Tick ==
    /\ now < MaxTime
    /\ now' = now + 1
    /\ reply' = NoCall
    /\ UNCHANGED <<info, meta, torrentFile, resumeFile, localError, isStopping,
                   magnetVerify, infoDictOffset, served, infoKind>>

\* Pieces and lengths a peer may send: in and out of range, right and wrong.
PeerPieces == -1..MaxPieces
PeerLengths == 0..PieceSize + 1

Next ==
    \/ \E size \in HintSizes : SetMetadataSizeHint(size)
    \/ \E piece \in PeerPieces, data \in PieceData, len \in PeerLengths,
          kind \in InfoKinds, loadOK, writeOK \in BOOLEAN :
          SetMetadataPiece(piece, data, len, kind, loadOK, writeOK)
    \/ GetNextMetadataRequest
    \/ \E piece \in PeerPieces, findOK, openOK \in BOOLEAN :
          GetMetadataPiece(piece, findOK, openOK)
    \/ Tick

Spec == Init /\ [][Next]_vars

(***************************************************************************)
(* tr_torrentGetMetadataPercent (lines 1407-1430), as a numerator and a    *)
(* denominator: 1 with metadata, 0 without a buffer, otherwise the share   *)
(* of pieces no longer listed in piecesNeeded.                              *)
(***************************************************************************)
\* A plausible slip: the share of pieces still needed is returned.
MetadataPercentInverted ==
    IF HasMetadata THEN <<1, 1>>
    ELSE IF meta = NoMeta \/ meta.pieceCount = 0 THEN <<0, 1>>
    ELSE <<Len(meta.needed), meta.pieceCount>>

MetadataPercent ==
    IF HasMetadata THEN <<1, 1>>
    ELSE IF meta = NoMeta \/ meta.pieceCount = 0 THEN <<0, 1>>
    ELSE <<meta.pieceCount - Len(meta.needed), meta.pieceCount>>

\* The fraction p is smaller than the fraction q.
FractionBelow(p, q) == p[1] * q[2] < q[1] * p[2]

(***************************************************************************)
(* The life-cycle state of MagnetStates that the code's state stands for:  *)
(* tr_torrentHasMetadata and tor->incompleteMetadata tell NO_METADATA,     *)
(* ACQUIRING and INSTALLED apart; an info that is not the infohash's dict  *)
(* has no abstract counterpart.                                             *)
(***************************************************************************)
MagnetState ==
    IF info = "magnet"
    THEN IF meta = NoMeta THEN "NO_METADATA" ELSE "ACQUIRING"
    ELSE IF info = "genuine" THEN "INSTALLED" ELSE "CORRUPT"

Magnet == INSTANCE MagnetStates WITH state <- MagnetState, verify <- magnetVerify

-----------------------------------------------------------------------------
(***************************************************************************)
(* Properties.                                                              *)
(***************************************************************************)

(***************************************************************************)
(* A magnet link still acquiring its metadata always has a piece left to   *)
(* ask for: when the last piece of a round fails the SHA-1 check, the      *)
(* parse or the load, tr_torrentSetMetadataPiece refills piecesNeeded, so  *)
(* tr_torrentGetNextMetadataRequest has something to hand out and the      *)
(* download does not stall with a full, rejected buffer.                    *)
(***************************************************************************)
IncompleteHasWork == meta # NoMeta => meta.needed # <<>>

(***************************************************************************)
(* The needed list and the buffer account for every metadata piece: no     *)
(* piece is listed twice (so one delivery strikes it for good), and a      *)
(* piece that is not listed holds bytes a peer delivered, never the        *)
(* uninitialized contents of the tr_new'd buffer, so the checksum in       *)
(* tr_torrentSetMetadataPiece never reads junk.  It has to survive the     *)
(* rotation in tr_torrentGetNextMetadataRequest, the removal by index and  *)
(* the reset after a failed installation.                                   *)
(***************************************************************************)
NeededAccounting ==
    meta # NoMeta =>
        /\ \A i, j \in DOMAIN meta.needed :
              i # j => meta.needed[i].piece # meta.needed[j].piece
        /\ \A p \in DOMAIN meta.buf :
              p \notin NeededPieces(meta) => meta.buf[p] # "junk"

(***************************************************************************)
(* piecesNeeded is "sorted from least to most recently requested" (the     *)
(* comment on struct tr_incomplete_metadata), and no piece carries a       *)
(* request time in the future: the head examined by                         *)
(* tr_torrentGetNextMetadataRequest is the piece asked for longest ago.     *)
(***************************************************************************)
NeededOrderedByRequestTime ==
    meta # NoMeta =>
        \A i, j \in DOMAIN meta.needed :
            /\ i < j => meta.needed[i].requestedAt <= meta.needed[j].requestedAt
            /\ meta.needed[i].requestedAt <= now

\* The spec's throttle: the head is due once requestedAt + 3 <= now.
SpecEligible ==
    /\ meta # NoMeta
    /\ meta.needed # <<>>
    /\ Head(meta.needed).requestedAt + MinRepeat <= now

(***************************************************************************)
(* The spec (4.E, next_request) returns none only while                     *)
(* head.last_requested_at + MIN_REPEAT_INTERVAL_SECS > now: a call of       *)
(* tr_torrentGetNextMetadataRequest that hands out nothing happens only     *)
(* when the head is not yet due.                                            *)
(***************************************************************************)
ThrottleAsSpecified ==
    [][GetNextMetadataRequest /\ reply' = NoPiece => ~SpecEligible]_vars

(***************************************************************************)
(* The spec (4.E, installation) removes the .resume file and rewrites the  *)
(* .torrent atomically on full success only: the torrent's .torrent file   *)
(* is on disk in every state, whatever tr_torrentSetMetadataPiece met.     *)
(***************************************************************************)
TorrentFileKept == torrentFile # "absent"

(***************************************************************************)
(* A metadata piece that tr_torrentGetMetadataPiece hands to a peer is a   *)
(* slice of the info dict (spec 4.E, info-dict extraction), even when an   *)
(* earlier lookup of the dict's offset in the .torrent file failed.        *)
(***************************************************************************)
ServedPieceGenuine == served # "wrong"

(***************************************************************************)
(* A piece tr_torrentGetMetadataPiece hands out never reaches past the end *)
(* of the info dict, for every piece index a peer may ask for: the length  *)
(* infoDictLength - o is computed in size_t and wraps to a huge value for  *)
(* a piece past the dict, which only the l <= METADATA_PIECE_SIZE test     *)
(* turns away.                                                              *)
(***************************************************************************)
ServedWithinDict == served # "overrun"

(***************************************************************************)
(* The progress tr_torrentGetMetadataPercent reports for a torrent only    *)
(* falls when a completed buffer fails its checksum, parse or load and the *)
(* needed list is refilled with every piece: request rotations, duplicate  *)
(* or stale deliveries and the installation never make it go back.         *)
(***************************************************************************)
PercentOnlyFallsOnReset ==
    [][FractionBelow(MetadataPercent', MetadataPercent) =>
         /\ info' = "magnet"
         /\ meta # NoMeta /\ meta' # NoMeta
         /\ meta'.needed = AllPiecesNeeded(meta.pieceCount)]_vars

(***************************************************************************)
(* The handlers of torrent-magnet.cc implement the life cycle MagnetStates *)
(* promises: a size hint is the only way into ACQUIRING, and only the      *)
(* success path of tr_torrentSetMetadataPiece leaves it, with the infohash's *)
(* own dict installed and tor->magnetVerify set in the same step; a failed *)
(* checksum, parse or load stays in ACQUIRING, and serving pieces, the     *)
(* request rotation and the clock change no life-cycle state.              *)
(***************************************************************************)
ImplementsMagnetStates == Magnet!Spec

=============================================================================
