---------------------------- MODULE MsgWinProofs ----------------------------
(***************************************************************************)
(* Proofs about MsgWin for every value of the constants.                   *)
(***************************************************************************)
EXTENDS MsgWin, SequenceTheorems, TLAPS

USE MsgWinAssumption

(***************************************************************************)
(* The messages of two lists chained together are those of each.          *)
(***************************************************************************)
LEMMA ToSetConcat ==
    ASSUME NEW S, NEW s \in Seq(S), NEW t \in Seq(S)
    PROVE  ToSet(s \o t) = ToSet(s) \cup ToSet(t)
<1>1. Range(s \o t) = Range(s) \cup Range(t)
  BY RangeConcatenation
<1>2. QED
  BY <1>1, Zenon DEF ToSet, Range

(***************************************************************************)
(* addMessages inserts a list of the same kind, every node but the last,  *)
(* and none that is not on the list.                                       *)
(***************************************************************************)
LEMMA AddMessagesProperties ==
    ASSUME NEW S, NEW s \in Seq(S)
    PROVE  /\ AddMessages(s) \in Seq(S)
           /\ ToSet(AddMessages(s)) \subseteq ToSet(s)
<1>1. /\ SubSeq(s, 1, Len(s) - 1) \in Seq(S)
      /\ Len(SubSeq(s, 1, Len(s) - 1)) = IF 1 <= Len(s) - 1 THEN Len(s) - 1 ELSE 0
      /\ \A i \in 1..Len(s) - 1 : SubSeq(s, 1, Len(s) - 1)[i] = s[i]
  BY SubSeqProperties
<1>2. QED
  BY <1>1 DEF AddMessages, Front, ToSet

\* No message is shown by an empty store.
LEMMA ToSetEmpty == ToSet(<<>>) = {}
  BY DEF ToSet

(***************************************************************************)
(* A file chooser more or one fewer keeps choosers a bag of MsgData.       *)
(***************************************************************************)
LEMMA BagAddOne ==
    ASSUME NEW B, IsABag(B), NEW x
    PROVE  /\ IsABag(B (+) SetToBag({x}))
           /\ BagToSet(B (+) SetToBag({x})) = BagToSet(B) \cup {x}
  BY DEF IsABag, BagToSet, SetToBag, (+)

LEMMA BagRemoveOne ==
    ASSUME NEW B, IsABag(B), NEW x
    PROVE  /\ IsABag(B (-) SetToBag({x}))
           /\ BagToSet(B (-) SetToBag({x})) \subseteq BagToSet(B)
  BY DEF IsABag, BagToSet, SetToBag, (-)

(***************************************************************************)
(* s is a run of consecutive messages that ends just before message n.    *)
(***************************************************************************)
InLogOrder(s, n) == \A i \in 1..Len(s) : s[i] = n - Len(s) + i - 1

\* Logging message n after such a run extends it.
LEMMA InLogOrderAppend ==
    ASSUME NEW s \in Seq(Nat), NEW n \in Nat, InLogOrder(s, n)
    PROVE  InLogOrder(Append(s, n), n + 1)
  BY AppendProperties DEF InLogOrder

\* Cutting a prefix off such a run leaves one.
LEMMA InLogOrderSuffix ==
    ASSUME NEW s \in Seq(Nat), NEW t \in Seq(Nat), NEW n \in Nat,
           InLogOrder(s \o t, n)
    PROVE  InLogOrder(t, n)
<1>1. Len(s \o t) = Len(s) + Len(t)
      /\ \A i \in 1..Len(s) + Len(t) :
            (s \o t)[i] = IF i <= Len(s) THEN s[i] ELSE t[i - Len(s)]
  BY ConcatProperties
<1>2. QED
  <2> SUFFICES ASSUME NEW i \in 1..Len(t) PROVE t[i] = n - Len(t) + i - 1
    BY DEF InLogOrder
  <2>1. \A j \in 1..Len(s \o t) : (s \o t)[j] = n - Len(s \o t) + j - 1
    BY DEF InLogOrder
  <2>2. Len(s) \in Nat /\ Len(t) \in Nat /\ Len(s) + i \in 1..Len(s \o t)
    BY <1>1
  <2>3. (s \o t)[Len(s) + i] = t[i]
    BY <1>1, <2>2
  <2>4. QED
    BY <1>1, <2>1, <2>2, <2>3

\* KeptInLogOrder in these terms.
LEMMA KeptInLogOrderDef ==
    KeptInLogOrder <=> InLogOrder(kept \o queue, nextMsg)
  BY DEF KeptInLogOrder, InLogOrder

\* Logging after a chained list is logging after the whole history.
LEMMA ConcatAppend ==
    ASSUME NEW S, NEW s \in Seq(S), NEW t \in Seq(S), NEW e \in S
    PROVE  s \o Append(t, e) = Append(s \o t, e)
<1>1. Append(t, e) = t \o <<e>> /\ Append(s \o t, e) = (s \o t) \o <<e>>
  BY AppendIsConcat, ConcatProperties
<1>2. <<e>> \in Seq(S)
  OBVIOUS
<1>3. QED
  BY <1>1, <1>2, ConcatAssociative

(***************************************************************************)
(* s lists its messages in strictly increasing order.                      *)
(***************************************************************************)
Increasing(s) == \A i, j \in 1..Len(s) : i < j => s[i] < s[j]

\* RowsInLogOrder in these terms.
LEMMA RowsInLogOrderDef == RowsInLogOrder <=> Increasing(store)
  BY DEF RowsInLogOrder, Increasing

\* An empty store lists nothing out of order.
LEMMA IncreasingEmpty == Increasing(<<>>)
  BY DEF Increasing

\* A run of consecutive messages is increasing.
LEMMA InLogOrderIncreasing ==
    ASSUME NEW S, S \subseteq Int, NEW s \in Seq(S), NEW n \in Int, InLogOrder(s, n)
    PROVE  Increasing(s)
  BY DEF InLogOrder, Increasing

(***************************************************************************)
(* An increasing list chained from two parts has increasing parts, and     *)
(* every message of the first comes before every message of the second.    *)
(***************************************************************************)
LEMMA IncreasingSplit ==
    ASSUME NEW S, S \subseteq Int, NEW s \in Seq(S), NEW t \in Seq(S),
           Increasing(s \o t)
    PROVE  /\ Increasing(s)
           /\ Increasing(t)
           /\ \A x \in ToSet(s), y \in ToSet(t) : x < y
<1>1. /\ Len(s \o t) = Len(s) + Len(t)
      /\ \A i \in 1..Len(s) + Len(t) :
            (s \o t)[i] = IF i <= Len(s) THEN s[i] ELSE t[i - Len(s)]
  BY ConcatProperties
<1>2. Len(s) \in Nat /\ Len(t) \in Nat
  OBVIOUS
<1>3. Increasing(s)
  BY <1>1, <1>2 DEF Increasing
<1>4. Increasing(t)
  <2> SUFFICES ASSUME NEW i \in 1..Len(t), NEW j \in 1..Len(t), i < j
               PROVE  t[i] < t[j]
    BY DEF Increasing
  <2>1. Len(s) + i \in 1..Len(s \o t) /\ Len(s) + j \in 1..Len(s \o t)
        /\ Len(s) + i < Len(s) + j
    BY <1>1, <1>2
  <2>2. (s \o t)[Len(s) + i] = t[i] /\ (s \o t)[Len(s) + j] = t[j]
    BY <1>1, <1>2
  <2> QED
    BY <2>1, <2>2 DEF Increasing
<1>5. \A x \in ToSet(s), y \in ToSet(t) : x < y
  <2> SUFFICES ASSUME NEW i \in 1..Len(s), NEW j \in 1..Len(t)
               PROVE  s[i] < t[j]
    BY DEF ToSet, Range
  <2>1. i \in 1..Len(s \o t) /\ Len(s) + j \in 1..Len(s \o t) /\ i < Len(s) + j
    BY <1>1, <1>2
  <2>2. (s \o t)[i] = s[i] /\ (s \o t)[Len(s) + j] = t[j]
    BY <1>1, <1>2
  <2> QED
    BY <2>1, <2>2 DEF Increasing
<1>6. QED
  BY <1>3, <1>4, <1>5

\* Two increasing lists, the first entirely before the second, chain to one.
LEMMA IncreasingConcat ==
    ASSUME NEW S, S \subseteq Int, NEW s \in Seq(S), NEW t \in Seq(S),
           Increasing(s), Increasing(t), \A x \in ToSet(s), y \in ToSet(t) : x < y
    PROVE  Increasing(s \o t)
<1>1. /\ Len(s \o t) = Len(s) + Len(t)
      /\ \A i \in 1..Len(s) + Len(t) :
            (s \o t)[i] = IF i <= Len(s) THEN s[i] ELSE t[i - Len(s)]
  BY ConcatProperties
<1>2. Len(s) \in Nat /\ Len(t) \in Nat
  OBVIOUS
<1> SUFFICES ASSUME NEW i \in 1..Len(s \o t), NEW j \in 1..Len(s \o t), i < j
             PROVE  (s \o t)[i] < (s \o t)[j]
  BY DEF Increasing
<1>3. CASE j <= Len(s)
  BY <1>1, <1>2, <1>3 DEF Increasing
<1>4. CASE i <= Len(s) /\ j > Len(s)
  <2>1. s[i] \in ToSet(s) /\ t[j - Len(s)] \in ToSet(t)
    BY <1>1, <1>2, <1>4 DEF ToSet, Range
  <2> QED
    BY <1>1, <1>2, <1>4, <2>1
<1>5. CASE i > Len(s)
  <2>1. i - Len(s) \in 1..Len(t) /\ j - Len(s) \in 1..Len(t) /\ i - Len(s) < j - Len(s)
    BY <1>1, <1>2, <1>5
  <2> QED
    BY <1>1, <1>2, <1>5, <2>1 DEF Increasing
<1>6. QED
  BY <1>2, <1>3, <1>4, <1>5

\* addMessages keeps the order of the list it walks.
LEMMA IncreasingFront ==
    ASSUME NEW S, S \subseteq Int, NEW s \in Seq(S), Increasing(s)
    PROVE  Increasing(AddMessages(s))
<1>1. /\ Len(SubSeq(s, 1, Len(s) - 1)) = IF 1 <= Len(s) - 1 THEN Len(s) - 1 ELSE 0
      /\ \A i \in 1..Len(s) - 1 : SubSeq(s, 1, Len(s) - 1)[i] = s[i]
  BY SubSeqProperties
<1>2. QED
  BY <1>1 DEF AddMessages, Front, Increasing

-----------------------------------------------------------------------------

LEMMA InitInv == Init => MsgWinInv
<1> SUFFICES ASSUME Init PROVE MsgWinInv
  OBVIOUS
<1>1. TypeOK
  <2>1. IsABag(choosers) /\ BagToSet(choosers) = {}
    BY DEF Init, EmptyBag, SetToBag, IsABag, BagToSet
  <2>2. queue \in Seq(Msgs) /\ kept \in Seq(Msgs) /\ store \in Seq(Msgs)
    BY DEF Init
  <2>3. nextMsg \in 1..MaxMsgs + 1 /\ gen \in 0..MaxWindows /\ freed \subseteq Gens
    BY DEF Init
  <2>4. winOpen \in BOOLEAN /\ timerOn \in BOOLEAN /\ isPaused \in BOOLEAN
    BY DEF Init
  <2>5. lastSave \in {"none", "saved", "failed", "dangling"}
    BY DEF Init
  <2>6. QED
    BY <2>1, <2>2, <2>3, <2>4, <2>5 DEF TypeOK
<1>2. RowsPointIntoKept /\ KeptInLogOrder /\ RowsInLogOrder
  BY ToSetEmpty DEF Init, RowsPointIntoKept, KeptInLogOrder, RowsInLogOrder
<1>3. QED
  BY <1>1, <1>2 DEF Init, MsgWinInv, TimerOnlyWithLiveData

\* tr_logAddMessage queues the next message after the history.
LEMMA LogMessageInv == MsgWinInv /\ LogMessage => MsgWinInv'
<1> SUFFICES ASSUME MsgWinInv, LogMessage PROVE MsgWinInv'
  OBVIOUS
<1>1. nextMsg \in Msgs /\ queue \in Seq(Msgs) /\ kept \in Seq(Msgs)
  BY DEF MsgWinInv, TypeOK, LogMessage, Msgs
<1>2. queue' \in Seq(Msgs) /\ nextMsg' \in 1..MaxMsgs + 1
  BY <1>1 DEF LogMessage, Msgs
<1>3. TypeOK'
  BY <1>2 DEF MsgWinInv, TypeOK, LogMessage
<1>4. KeptInLogOrder'
  <2>1. kept' \o queue' = Append(kept \o queue, nextMsg)
    BY <1>1, ConcatAppend DEF LogMessage
  <2>2. kept \o queue \in Seq(Nat) /\ nextMsg \in Nat
    BY <1>1, ConcatProperties DEF Msgs
  <2>3. InLogOrder(kept \o queue, nextMsg)
    BY KeptInLogOrderDef DEF MsgWinInv
  <2>4. InLogOrder(kept' \o queue', nextMsg')
    BY <2>1, <2>2, <2>3, InLogOrderAppend DEF LogMessage
  <2>5. QED
    BY <2>4 DEF KeptInLogOrder, InLogOrder
<1>5. QED
  BY <1>3, <1>4 DEF MsgWinInv, LogMessage, RowsPointIntoKept, TimerOnlyWithLiveData,
                   RowsInLogOrder


(***************************************************************************)
(* Taking the whole queue, inserting every node but the last and chaining *)
(* the list after myTail keeps the rows on the list and the history in    *)
(* order; onRefresh and gtr_message_log_window_new both do it.             *)
(***************************************************************************)
LEMMA ChainQueue ==
    ASSUME MsgWinInv,
           NEW pre \in Seq(Msgs), ToSet(pre) \subseteq ToSet(kept), Increasing(pre),
           store' = pre \o AddMessages(queue), kept' = kept \o queue,
           queue' = <<>>, nextMsg' = nextMsg
    PROVE  /\ store' \in Seq(Msgs) /\ kept' \in Seq(Msgs) /\ queue' \in Seq(Msgs)
           /\ RowsPointIntoKept'
           /\ KeptInLogOrder'
           /\ RowsInLogOrder'
<1>1. queue \in Seq(Msgs) /\ kept \in Seq(Msgs)
  BY DEF MsgWinInv, TypeOK
<1>2. AddMessages(queue) \in Seq(Msgs) /\ ToSet(AddMessages(queue)) \subseteq ToSet(queue)
  BY <1>1, AddMessagesProperties
<1>3. store' \in Seq(Msgs) /\ kept' \in Seq(Msgs) /\ queue' \in Seq(Msgs)
  BY <1>1, <1>2, ConcatProperties
<1>4. ToSet(store') = ToSet(pre) \cup ToSet(AddMessages(queue))
  BY <1>2, ToSetConcat
<1>5. ToSet(kept') = ToSet(kept) \cup ToSet(queue)
  BY <1>1, ToSetConcat
<1>6. RowsPointIntoKept'
  BY <1>2, <1>4, <1>5 DEF RowsPointIntoKept
<1>7. kept' \o queue' = kept \o queue
  BY <1>1, <1>3, ConcatEmptySeq
<1>8. KeptInLogOrder'
  BY <1>7 DEF MsgWinInv, KeptInLogOrder
<1>9. Msgs \subseteq Int /\ nextMsg \in Int /\ kept \o queue \in Seq(Msgs)
  BY <1>1, ConcatProperties DEF MsgWinInv, TypeOK, Msgs
<1>10. Increasing(kept \o queue)
  BY <1>9, KeptInLogOrderDef, InLogOrderIncreasing DEF MsgWinInv
<1>11. Increasing(queue) /\ \A x \in ToSet(kept), y \in ToSet(queue) : x < y
  BY <1>1, <1>9, <1>10, IncreasingSplit
<1>12. Increasing(AddMessages(queue))
  BY <1>1, <1>9, <1>11, IncreasingFront
<1>13. \A x \in ToSet(pre), y \in ToSet(AddMessages(queue)) : x < y
  BY <1>2, <1>11
<1>14. Increasing(pre \o AddMessages(queue))
  BY <1>2, <1>9, <1>12, <1>13, IncreasingConcat
<1>15. RowsInLogOrder'
  BY <1>14 DEF RowsInLogOrder, Increasing
<1>16. QED
  BY <1>3, <1>6, <1>8, <1>15

\* gtr_message_log_window_new replays the history and starts the timer.
LEMMA OpenWindowInv == MsgWinInv /\ OpenWindow => MsgWinInv'
<1> SUFFICES ASSUME MsgWinInv, OpenWindow PROVE MsgWinInv'
  OBVIOUS
<1>1. kept \in Seq(Msgs) /\ gen \in 0..MaxWindows /\ freed \subseteq 1..gen
  BY DEF MsgWinInv, TypeOK
<1>2. AddMessages(kept) \in Seq(Msgs) /\ ToSet(AddMessages(kept)) \subseteq ToSet(kept)
  BY <1>1, AddMessagesProperties
<1>8. Increasing(AddMessages(kept))
  <2>1. Msgs \subseteq Int /\ nextMsg \in Int /\ queue \in Seq(Msgs)
        /\ kept \o queue \in Seq(Msgs)
    BY <1>1, ConcatProperties DEF MsgWinInv, TypeOK, Msgs
  <2>2. Increasing(kept \o queue)
    BY <2>1, KeptInLogOrderDef, InLogOrderIncreasing DEF MsgWinInv
  <2>3. Increasing(kept)
    BY <1>1, <2>1, <2>2, IncreasingSplit
  <2> QED
    BY <1>1, <2>1, <2>3, IncreasingFront
<1>3. /\ store' \in Seq(Msgs) /\ kept' \in Seq(Msgs) /\ queue' \in Seq(Msgs)
      /\ RowsPointIntoKept' /\ KeptInLogOrder' /\ RowsInLogOrder'
  BY <1>2, <1>8, ChainQueue DEF OpenWindow
<1>4. gen' \in 1..MaxWindows /\ gen' \notin freed' /\ freed' \subseteq 1..gen'
  BY <1>1 DEF OpenWindow
<1>5. winOpen' /\ timerOn' /\ ~isPaused'
  BY DEF OpenWindow
<1>6. TypeOK'
  <2>1. UNCHANGED <<nextMsg, freed, choosers, lastSave>>
    BY DEF OpenWindow
  <2>2. /\ IsABag(choosers') /\ BagToSet(choosers') \subseteq Gens
        /\ lastSave' \in {"none", "saved", "failed", "dangling"}
        /\ nextMsg' \in 1..MaxMsgs + 1 /\ freed' \subseteq Gens
    BY <2>1 DEF MsgWinInv, TypeOK
  <2>3. winOpen' \in BOOLEAN /\ timerOn' \in BOOLEAN /\ isPaused' \in BOOLEAN
    BY DEF OpenWindow
  <2>4. gen' \in 0..MaxWindows
    BY <1>4
  <2>5. QED
    BY <1>3, <2>2, <2>3, <2>4 DEF TypeOK
<1>7. QED
  BY <1>3, <1>4, <1>5, <1>6 DEF MsgWinInv, TimerOnlyWithLiveData

\* onRefresh fetches the queue unless the window is paused.
LEMMA RefreshInv == MsgWinInv /\ Refresh => MsgWinInv'
<1> SUFFICES ASSUME MsgWinInv, Refresh PROVE MsgWinInv'
  OBVIOUS
<1>1. CASE isPaused
  BY <1>1 DEF Refresh, MsgWinInv, TypeOK, TimerOnlyWithLiveData,
             RowsPointIntoKept, KeptInLogOrder, RowsInLogOrder
<1>2. CASE ~isPaused
  <2>1. store \in Seq(Msgs) /\ ToSet(store) \subseteq ToSet(kept) /\ Increasing(store)
    BY RowsInLogOrderDef DEF MsgWinInv, TypeOK, RowsPointIntoKept
  <2>2. /\ store' \in Seq(Msgs) /\ kept' \in Seq(Msgs) /\ queue' \in Seq(Msgs)
        /\ RowsPointIntoKept' /\ KeptInLogOrder' /\ RowsInLogOrder'
    BY <1>2, <2>1, ChainQueue DEF Refresh, FetchQueue
  <2>3. QED
    BY <1>2, <2>2 DEF Refresh, MsgWinInv, TypeOK, TimerOnlyWithLiveData
<1>3. QED
  BY <1>1, <1>2


\* onPauseToggled only sets data->isPaused.
LEMMA PauseToggledInv ==
    ASSUME MsgWinInv, NEW active \in BOOLEAN, PauseToggled(active)
    PROVE  MsgWinInv'
<1>1. isPaused' \in BOOLEAN
  BY DEF PauseToggled
<1>2. QED
  BY <1>1 DEF PauseToggled, MsgWinInv, TypeOK, TimerOnlyWithLiveData,
             RowsPointIntoKept, KeptInLogOrder, RowsInLogOrder

\* onClearRequest empties the store and the list; the queue stays in order.
LEMMA ClearRequestInv == MsgWinInv /\ ClearRequest => MsgWinInv'
<1> SUFFICES ASSUME MsgWinInv, ClearRequest PROVE MsgWinInv'
  OBVIOUS
<1>1. queue \in Seq(Nat) /\ kept \in Seq(Nat) /\ nextMsg \in Nat
  BY DEF MsgWinInv, TypeOK, Msgs
<1>2. InLogOrder(queue, nextMsg)
  BY <1>1, KeptInLogOrderDef, InLogOrderSuffix DEF MsgWinInv
<1>3. kept' \o queue' = queue
  BY <1>1, ConcatEmptySeq DEF ClearRequest
<1>4. KeptInLogOrder'
  BY <1>2, <1>3 DEF ClearRequest, KeptInLogOrder, InLogOrder
<1>5. RowsPointIntoKept'
  BY ToSetEmpty DEF ClearRequest, RowsPointIntoKept
<1>6. TypeOK'
  BY DEF ClearRequest, MsgWinInv, TypeOK
<1>8. RowsInLogOrder'
  BY DEF ClearRequest, RowsInLogOrder
<1>7. QED
  BY <1>4, <1>5, <1>6, <1>8 DEF ClearRequest, MsgWinInv, TimerOnlyWithLiveData

\* onSaveRequest's chooser holds the MsgData of the open window.
LEMMA SaveRequestInv == MsgWinInv /\ SaveRequest => MsgWinInv'
<1> SUFFICES ASSUME MsgWinInv, SaveRequest PROVE MsgWinInv'
  OBVIOUS
<1>1. gen \in Gens /\ IsABag(choosers) /\ BagToSet(choosers) \subseteq Gens
  BY DEF SaveRequest, MsgWinInv, TypeOK, Gens
<1>2. /\ IsABag(choosers (+) SetToBag({gen}))
      /\ BagToSet(choosers (+) SetToBag({gen})) = BagToSet(choosers) \cup {gen}
  BY <1>1, BagAddOne
<1>3. IsABag(choosers') /\ BagToSet(choosers') \subseteq Gens
  BY <1>1, <1>2 DEF SaveRequest
<1>4. QED
  BY <1>3 DEF SaveRequest, MsgWinInv, TypeOK, TimerOnlyWithLiveData,
             RowsPointIntoKept, KeptInLogOrder, RowsInLogOrder

\* onSaveDialogResponse destroys one chooser and records what doSave did.
LEMMA SaveDialogResponseInv ==
    ASSUME MsgWinInv, NEW g \in Gens, NEW accept \in BOOLEAN, NEW fopenOK \in BOOLEAN,
           SaveDialogResponse(g, accept, fopenOK)
    PROVE  MsgWinInv'
<1>1. IsABag(choosers) /\ BagToSet(choosers) \subseteq Gens
  BY DEF MsgWinInv, TypeOK
<1>2. /\ IsABag(choosers (-) SetToBag({g}))
      /\ BagToSet(choosers (-) SetToBag({g})) \subseteq BagToSet(choosers)
  BY <1>1, BagRemoveOne
<1>5. IsABag(choosers') /\ BagToSet(choosers') \subseteq Gens
  BY <1>1, <1>2 DEF SaveDialogResponse
<1>3. lastSave' \in {"none", "saved", "failed", "dangling"}
  BY DEF SaveDialogResponse, MsgWinInv, TypeOK
<1>4. QED
  BY <1>5, <1>3 DEF SaveDialogResponse, MsgWinInv, TypeOK, TimerOnlyWithLiveData,
                   RowsPointIntoKept, KeptInLogOrder, RowsInLogOrder

\* onWindowDestroyed removes the timer, then frees the open window's MsgData.
LEMMA WindowDestroyedInv == MsgWinInv /\ WindowDestroyed => MsgWinInv'
<1> SUFFICES ASSUME MsgWinInv, WindowDestroyed PROVE MsgWinInv'
  OBVIOUS
<1>1. gen \in 1..MaxWindows /\ freed \subseteq 1..gen
  BY DEF WindowDestroyed, MsgWinInv, TypeOK
<1>2. freed' \subseteq Gens /\ freed' \subseteq 1..gen'
  BY <1>1 DEF WindowDestroyed, Gens
<1>3. ~timerOn' /\ ~winOpen' /\ store' = <<>>
  BY DEF WindowDestroyed
<1>4. RowsPointIntoKept'
  BY <1>3, ToSetEmpty DEF RowsPointIntoKept
<1>5. TypeOK'
  <2>1. UNCHANGED <<queue, kept, nextMsg, gen, isPaused, choosers, lastSave>>
    BY DEF WindowDestroyed
  <2>2. timerOn' \in BOOLEAN /\ winOpen' \in BOOLEAN
    BY Zenon DEF WindowDestroyed
  <2>3. store' \in Seq(Msgs)
    BY DEF WindowDestroyed
  <2>4. QED
    BY <1>2, <2>1, <2>2, <2>3 DEF MsgWinInv, TypeOK
<1>7. RowsInLogOrder'
  BY <1>3 DEF RowsInLogOrder
<1>6. QED
  BY <1>2, <1>3, <1>4, <1>5, <1>7 DEF WindowDestroyed, MsgWinInv, TimerOnlyWithLiveData,
                                     KeptInLogOrder

\* Every callback, libtransmission's logging and the idle loop keep MsgWinInv.
LEMMA NextInv == MsgWinInv /\ [Next]_vars => MsgWinInv'
<1> SUFFICES ASSUME MsgWinInv, [Next]_vars PROVE MsgWinInv'
  OBVIOUS
<1>1. CASE LogMessage
  BY <1>1, LogMessageInv
<1>2. CASE OpenWindow
  BY <1>2, OpenWindowInv
<1>3. CASE Refresh
  BY <1>3, RefreshInv
<1>4. CASE \E active \in BOOLEAN : PauseToggled(active)
  BY <1>4, PauseToggledInv
<1>5. CASE ClearRequest
  BY <1>5, ClearRequestInv
<1>6. CASE SaveRequest
  BY <1>6, SaveRequestInv
<1>7. CASE \E g \in Gens, accept, fopenOK \in BOOLEAN : SaveDialogResponse(g, accept, fopenOK)
  BY <1>7, SaveDialogResponseInv
<1>8. CASE WindowDestroyed
  BY <1>8, WindowDestroyedInv
<1>9. CASE Idle \/ UNCHANGED vars
  <2>1. UNCHANGED <<queue, kept, store, nextMsg, winOpen, gen, freed, timerOn,
                    isPaused, choosers, lastSave>>
    BY <1>9 DEF Idle, vars
  <2>2. TypeOK'
    BY <2>1 DEF MsgWinInv, TypeOK
  <2>3. QED
    BY <2>1, <2>2 DEF MsgWinInv, TimerOnlyWithLiveData, RowsPointIntoKept,
                      KeptInLogOrder, RowsInLogOrder
<1>10. QED
  BY <1>1, <1>2, <1>3, <1>4, <1>5, <1>6, <1>7, <1>8, <1>9 DEF Next


-----------------------------------------------------------------------------

\* The strengthened invariant holds in every reachable state.
LEMMA InvAlways == Spec => []MsgWinInv
<1>1. QED
  BY InitInv, NextInv, PTL DEF Spec

(***************************************************************************)
(* renderText and doSave never reach a freed tr_log_message: every row of  *)
(* the store is a node of the static list, whatever the order of Clear,    *)
(* refreshes, closing and reopening.                                        *)
(***************************************************************************)
THEOREM RowsSafe == Spec => []RowsPointIntoKept
<1>1. MsgWinInv => RowsPointIntoKept
  BY DEF MsgWinInv
<1>2. QED
  BY <1>1, InvAlways, PTL

(***************************************************************************)
(* The window's rows, in COL_SEQUENCE order, list the messages in the      *)
(* order libtransmission logged them, each once, through any number of     *)
(* refreshes, pauses, Clears, closings and reopenings.                      *)
(***************************************************************************)
THEOREM RowsOrderSafe == Spec => []RowsInLogOrder
<1>1. MsgWinInv => RowsInLogOrder
  BY DEF MsgWinInv
<1>2. QED
  BY <1>1, InvAlways, PTL

=============================================================================
