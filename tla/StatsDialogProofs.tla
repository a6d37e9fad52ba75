------------------------- MODULE StatsDialogProofs -------------------------
(***************************************************************************)
(* Proofs about StatsDialog for every value of the constants.              *)
(***************************************************************************)
EXTENDS StatsDialog, TLAPS

USE StatsDialogAssumption

(***************************************************************************)
(* The strengthened invariant holds initially.                             *)
(***************************************************************************)
LEMMA InitLiveUi == Init => LiveUiInv
<1> SUFFICES ASSUME Init PROVE LiveUiInv
  OBVIOUS
<1>1. TypeOK
  <2>1. single \in 0..MaxBytes /\ old \in 0..MaxBytes /\ touchedFreed \in BOOLEAN
    <3>1. single \in 0..MaxBytes /\ old \in 0..MaxBytes
      BY DEF Init
    <3>2. touchedFreed \in BOOLEAN
      BY Zenon DEF Init
    <3> QED
      BY <3>1, <3>2
  <2>2. open \subseteq Gens /\ freed \subseteq Gens /\ timers \subseteq Gens
        /\ behind \subseteq Gens
    BY DEF Init
  <2>3. gen \in 0..MaxDialogs /\ confirm \in 0..MaxDialogs
    BY DEF Init
  <2>4. shownOne \in [Gens -> 0..MaxBytes] /\ shownAll \in [Gens -> 0..2 * MaxBytes]
    BY DEF Init
  <2>5. QED
    BY <2>1, <2>2, <2>3, <2>4 DEF TypeOK
<1>2. ~touchedFreed /\ freed = {} /\ open = {} /\ timers = {} /\ confirm = 0
      /\ behind = {}
  BY DEF Init
<1>3. QED
  BY <1>1, <1>2 DEF LiveUiInv

\* updateStats on a live stat_ui keeps the labels typed and touches nothing freed.
LEMMA UpdateStatsType ==
    ASSUME TypeOK, NEW ui \in Gens, UpdateStats(ui)
    PROVE  /\ shownOne' \in [Gens -> 0..MaxBytes]
           /\ shownAll' \in [Gens -> 0..2 * MaxBytes]
           /\ touchedFreed' \in BOOLEAN
           /\ behind' \subseteq behind
           /\ touchedFreed' = (touchedFreed \/ ui \in freed)
BY DEF TypeOK, UpdateStats

(***************************************************************************)
(* Every step of the dialogs, their refresh timers, the nested             *)
(* confirmation loop and the session preserves the strengthened invariant. *)
(***************************************************************************)
LEMMA NextLiveUi == LiveUiInv /\ [Next]_vars => LiveUiInv'
<1> SUFFICES ASSUME LiveUiInv, [Next]_vars PROVE LiveUiInv'
  OBVIOUS
<1>1. CASE Transfer
  BY <1>1 DEF LiveUiInv, TypeOK, Transfer
<1>2. CASE DialogNew
  <2>1. gen' = gen + 1 /\ gen' \in Gens
    BY <1>2 DEF DialogNew, LiveUiInv, TypeOK, Gens
  <2>2. gen' \notin freed
    BY <2>1 DEF LiveUiInv, TypeOK, Gens
  <2>3. /\ shownOne' \in [Gens -> 0..MaxBytes]
        /\ shownAll' \in [Gens -> 0..2 * MaxBytes]
        /\ behind' \subseteq behind
        /\ touchedFreed' = touchedFreed
    <3>1. UpdateStats(gen')
      BY <1>2 DEF DialogNew
    <3>2. /\ shownOne' \in [Gens -> 0..MaxBytes]
          /\ shownAll' \in [Gens -> 0..2 * MaxBytes]
          /\ behind' \subseteq behind
          /\ touchedFreed' = (touchedFreed \/ gen' \in freed)
      BY <2>1, <3>1, UpdateStatsType DEF LiveUiInv
    <3>3. touchedFreed' = touchedFreed
      BY <2>2, <3>2, Zenon DEF LiveUiInv, TypeOK
    <3> QED
      BY <3>2, <3>3
  <2>4. /\ open' = open \cup {gen'} /\ timers' = timers \cup {gen'}
        /\ UNCHANGED <<single, old, freed, confirm>>
    BY <1>2 DEF DialogNew
  <2>5. single' = single /\ old' = old /\ freed' = freed /\ confirm' = confirm
    BY <2>4
  <2>6. TypeOK'
    <3>1. open' \subseteq Gens /\ timers' \subseteq Gens /\ gen' \in 0..MaxDialogs
      BY <2>1, <2>4 DEF LiveUiInv, TypeOK, Gens
    <3>2. touchedFreed' \in BOOLEAN
      BY <2>3, Zenon DEF LiveUiInv, TypeOK
    <3> QED
      BY <2>3, <2>5, <3>1, <3>2 DEF LiveUiInv, TypeOK
  <2>7. ~touchedFreed'
    BY <2>3, Zenon DEF LiveUiInv
  <2>8. freed' \subseteq 1..gen' /\ open' \subseteq 1..gen' /\ open' \cap freed' = {}
    BY <2>1, <2>2, <2>4, <2>5 DEF LiveUiInv, TypeOK
  <2>9. timers' \subseteq open' /\ (confirm' # 0 => confirm' \in open')
        /\ behind' \subseteq open'
    BY <2>3, <2>4, <2>5 DEF LiveUiInv
  <2> QED
    BY <2>6, <2>7, <2>8, <2>9 DEF LiveUiInv
<1>3. ASSUME NEW g \in Gens, Refresh(g)
      PROVE  LiveUiInv'
  <2>1. g \in open /\ g \notin freed
    BY <1>3 DEF Refresh, LiveUiInv
  <2>2. /\ shownOne' \in [Gens -> 0..MaxBytes]
        /\ shownAll' \in [Gens -> 0..2 * MaxBytes]
        /\ behind' \subseteq behind
        /\ touchedFreed' = touchedFreed
    <3>1. UpdateStats(g)
      BY <1>3 DEF Refresh
    <3>2. /\ shownOne' \in [Gens -> 0..MaxBytes]
          /\ shownAll' \in [Gens -> 0..2 * MaxBytes]
          /\ behind' \subseteq behind
          /\ touchedFreed' = (touchedFreed \/ g \in freed)
      BY <3>1, UpdateStatsType DEF LiveUiInv
    <3>3. touchedFreed' = touchedFreed
      BY <2>1, <3>2, Zenon DEF LiveUiInv, TypeOK
    <3> QED
      BY <3>2, <3>3
  <2>3. UNCHANGED <<single, old, open, gen, freed, timers, confirm>>
    BY <1>3 DEF Refresh
  <2> QED
    BY <2>2, <2>3 DEF LiveUiInv, TypeOK
<1>4. ASSUME NEW g \in Gens, ResetClicked(g)
      PROVE  LiveUiInv'
  BY <1>4 DEF LiveUiInv, TypeOK, ResetClicked
<1>5. ASSUME NEW reset \in BOOLEAN, ConfirmAnswered(reset)
      PROVE  LiveUiInv'
  <2>1. confirm \in open /\ confirm \notin freed
    BY <1>5 DEF ConfirmAnswered, LiveUiInv
  <2>2. confirm' = 0 /\ UNCHANGED <<open, gen, freed, timers>>
    BY <1>5 DEF ConfirmAnswered
  <2>3. CASE reset
    <3>1. /\ single' = 0 /\ old' = 0
          /\ shownOne' = [shownOne EXCEPT ![confirm] = 0]
          /\ shownAll' = [shownAll EXCEPT ![confirm] = 0]
          /\ touchedFreed' = (touchedFreed \/ confirm \in freed)
          /\ behind' = open \ {confirm}
      BY <1>5, <2>3 DEF ConfirmAnswered
    <3> QED
      BY <2>1, <2>2, <3>1 DEF LiveUiInv, TypeOK
  <2>4. CASE ~reset
    <3>1. UNCHANGED <<single, old, shownOne, shownAll, touchedFreed, behind>>
      BY <1>5, <2>4 DEF ConfirmAnswered
    <3> QED
      BY <2>2, <3>1 DEF LiveUiInv, TypeOK
  <2> QED
    BY <2>3, <2>4
<1>6. ASSUME NEW g \in Gens, DialogDestroyed(g)
      PROVE  LiveUiInv'
  <2>1. /\ open' = open \ {g} /\ timers' = timers \ {g} /\ freed' = freed \cup {g}
        /\ confirm' = (IF confirm = g THEN 0 ELSE confirm) /\ behind' = behind \ {g}
        /\ UNCHANGED <<single, old, gen, shownOne, shownAll, touchedFreed>>
    BY <1>6 DEF DialogDestroyed
  <2>2. g \in 1..gen
    BY <1>6 DEF DialogDestroyed, LiveUiInv
  <2>3. confirm' \in 0..MaxDialogs /\ (confirm' # 0 => confirm' \in open')
    BY <2>1 DEF LiveUiInv, TypeOK
  <2> QED
    BY <2>1, <2>2, <2>3 DEF LiveUiInv, TypeOK, Gens
<1>7. ASSUME NEW g \in Gens, CloseClicked(g)
      PROVE  LiveUiInv'
  BY <1>6, <1>7 DEF CloseClicked
<1>8. CASE Idle \/ UNCHANGED vars
  <2>1. UNCHANGED <<single, old, open, gen, freed, timers, confirm, shownOne,
                    shownAll, touchedFreed, behind>>
    BY <1>8 DEF Idle, vars
  <2>2. TypeOK'
    BY <2>1 DEF LiveUiInv, TypeOK
  <2> QED
    BY <2>1, <2>2 DEF LiveUiInv
<1>9. QED
  BY <1>1, <1>2, <1>3, <1>4, <1>5, <1>6, <1>7, <1>8 DEF Next

(***************************************************************************)
(* updateStats never runs on a freed stat_ui, neither from the refresh     *)
(* timer nor after a Reset answered in the nested confirmation loop.       *)
(***************************************************************************)
THEOREM LiveUiSafe == Spec => []StatsReadLiveUi
<1>1. Init => LiveUiInv
  BY InitLiveUi
<1>2. LiveUiInv /\ [Next]_vars => LiveUiInv'
  BY NextLiveUi
<1>3. LiveUiInv => StatsReadLiveUi
  BY DEF LiveUiInv, StatsReadLiveUi
<1>4. QED
  BY <1>1, <1>2, <1>3, PTL DEF Spec

(***************************************************************************)
(* Every step preserves the bound of each up-to-date dialog's labels by    *)
(* the session's statistics, in states of the strengthened invariant.      *)
(***************************************************************************)
LEMMA NextShown ==
    LiveUiInv /\ ShownNeverAhead /\ [Next]_vars => ShownNeverAhead'
<1> SUFFICES ASSUME LiveUiInv, ShownNeverAhead, [Next]_vars
             PROVE  ShownNeverAhead'
  OBVIOUS
<1> USE DEF LiveUiInv, TypeOK, ShownNeverAhead
<1>1. CASE Transfer
  BY <1>1 DEF Transfer
<1>2. CASE DialogNew
  <2>1. gen' = gen + 1 /\ gen' \notin open /\ gen' \in Gens
    BY <1>2 DEF DialogNew, Gens
  <2> QED
    BY <1>2, <2>1 DEF DialogNew, UpdateStats
<1>3. ASSUME NEW g \in Gens, Refresh(g)
      PROVE  ShownNeverAhead'
  BY <1>3 DEF Refresh, UpdateStats
<1>4. ASSUME NEW g \in Gens, ResetClicked(g)
      PROVE  ShownNeverAhead'
  BY <1>4 DEF ResetClicked
<1>5. ASSUME NEW reset \in BOOLEAN, ConfirmAnswered(reset)
      PROVE  ShownNeverAhead'
  <2>1. CASE reset
    <3>1. /\ single' = 0 /\ old' = 0 /\ open' = open
          /\ shownOne' = [shownOne EXCEPT ![confirm] = 0]
          /\ shownAll' = [shownAll EXCEPT ![confirm] = 0]
          /\ behind' = open \ {confirm}
      BY <1>5, <2>1 DEF ConfirmAnswered
    <3>2. open' \ behind' \subseteq {confirm}
      BY <3>1
    <3> QED
      BY <3>1, <3>2
  <2>2. CASE ~reset
    BY <1>5, <2>2 DEF ConfirmAnswered
  <2> QED
    BY <2>1, <2>2
<1>6. ASSUME NEW g \in Gens, DialogDestroyed(g)
      PROVE  ShownNeverAhead'
  BY <1>6 DEF DialogDestroyed
<1>7. ASSUME NEW g \in Gens, CloseClicked(g)
      PROVE  ShownNeverAhead'
  BY <1>6, <1>7 DEF CloseClicked
<1>8. CASE Idle \/ UNCHANGED vars
  BY <1>8 DEF Idle, vars
<1>9. QED
  BY <1>1, <1>2, <1>3, <1>4, <1>5, <1>6, <1>7, <1>8 DEF Next

(***************************************************************************)
(* A Reset is shown at once in the dialog that asked for it, and a timer   *)
(* only shows fresh statistics: the labels of an open dialog never exceed  *)
(* what libtransmission holds, except in a dialog a Reset elsewhere left   *)
(* behind until its next refresh.                                           *)
(***************************************************************************)
THEOREM ShownSafe == Spec => []ShownNeverAhead
<1>1. Init => LiveUiInv /\ ShownNeverAhead
  BY InitLiveUi DEF Init, ShownNeverAhead
<1>2. LiveUiInv /\ ShownNeverAhead /\ [Next]_vars
        => LiveUiInv' /\ ShownNeverAhead'
  BY NextLiveUi, NextShown
<1>3. QED
  BY <1>1, <1>2, PTL DEF Spec

=============================================================================
