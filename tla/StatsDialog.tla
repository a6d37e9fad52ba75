---------------------------- MODULE StatsDialog ----------------------------
(***************************************************************************)
(* The GTK client's Statistics dialog (src/gtk/stats.cc).  A dialog shows  *)
(* the current session's and the cumulative transfer statistics;           *)
(* updateStats copies them into its labels when the dialog is built and   *)
(* then every SECONDARY_WINDOW_REFRESH_INTERVAL_SECONDS from a GLib        *)
(* timeout.  Its Reset button opens a modal confirmation dialog run by     *)
(* gtk_dialog_run, a nested main loop: the refresh timers, the session's  *)
(* transfers and the destruction of any Statistics dialog (by its parent  *)
(* or the window manager) all go on while the question is on screen.      *)
(*                                                                         *)
(* gtr_stats_dialog_new keeps no record of earlier dialogs, so several     *)
(* may be open at once, each with its own stat_ui, timer and labels.  Each *)
(* call allocates a new struct stat_ui, named by its generation number.    *)
(* A byte count stands for the statistics: the session's own counter       *)
(* (single) and what earlier sessions left (old); libtransmission's        *)
(* cumulative statistics are old + single.  Label formatting               *)
(* (tr_strlsize, tr_strlratio, tr_strltime) is left out.                   *)
(***************************************************************************)
EXTENDS Naturals

CONSTANTS
    MaxBytes,     \* bytes the session transfers between two resets
    MaxDialogs    \* times a Statistics dialog is opened

ASSUME StatsDialogAssumption ==
    /\ MaxBytes \in Nat
    /\ MaxDialogs \in Nat

VARIABLES
    single,     \* libtransmission's stats of this session
    old,        \* the cumulative stats of the sessions before it
    open,       \* the stat_ui of every Statistics dialog that exists
    gen,        \* the stat_ui of the latest dialog (0: none yet)
    freed,      \* stat_ui structs released by g_free
    timers,     \* the stat_ui of every attached updateStats timeout source
    confirm,    \* the stat_ui whose confirmation dialog is running (0: none)
    shownOne,   \* each stat_ui's "Current Session" labels
    shownAll,   \* each stat_ui's "Total" labels
    touchedFreed, \* updateStats ran on a freed stat_ui
    behind      \* dialogs whose labels predate a Reset confirmed elsewhere

vars == <<single, old, open, gen, freed, timers, confirm, shownOne,
          shownAll, touchedFreed, behind>>

Gens == 1..MaxDialogs

TypeOK ==
    /\ single \in 0..MaxBytes
    /\ old \in 0..MaxBytes
    /\ open \subseteq Gens
    /\ gen \in 0..MaxDialogs
    /\ freed \subseteq Gens
    /\ timers \subseteq Gens
    /\ confirm \in 0..MaxDialogs
    /\ shownOne \in [Gens -> 0..MaxBytes]
    /\ shownAll \in [Gens -> 0..2 * MaxBytes]
    /\ touchedFreed \in BOOLEAN
    /\ behind \subseteq Gens

\* updateStats(ui): read tr_sessionGetStats and tr_sessionGetCumulativeStats
\* and set every label of ui from them.
UpdateStats(ui) ==
    /\ shownOne' = [shownOne EXCEPT ![ui] = single]
    /\ shownAll' = [shownAll EXCEPT ![ui] = old + single]
    /\ touchedFreed' = (touchedFreed \/ ui \in freed)
    /\ behind' = behind \ {ui}

-----------------------------------------------------------------------------

\* A previous session left some statistics; no dialog is open.
Init ==
    /\ single = 0
    /\ old \in 0..MaxBytes
    /\ open = {}
    /\ gen = 0
    /\ freed = {}
    /\ timers = {}
    /\ confirm = 0
    /\ shownOne = [g \in Gens |-> 0]
    /\ shownAll = [g \in Gens |-> 0]
    /\ touchedFreed = FALSE
    /\ behind = {}

\* The session transfers a byte: both statistics grow.
Transfer ==
    /\ single < MaxBytes
    /\ single' = single + 1
    /\ UNCHANGED <<old, open, gen, freed, timers, confirm, shownOne,
                   shownAll, touchedFreed, behind>>

\* A plausible slip: the refresh timeout is never added.
DialogNewNoTimer ==
    /\ gen < MaxDialogs
    /\ gen' = gen + 1
    /\ open' = open \cup {gen'}
    /\ UpdateStats(gen')
    /\ UNCHANGED <<single, old, freed, timers, confirm>>

(***************************************************************************)
(* gtr_stats_dialog_new: a zeroed stat_ui, one updateStats, then the       *)
(* timer.  Its caller is not in src/; nothing here stops it from opening   *)
(* a dialog while others are open.                                         *)
(***************************************************************************)
DialogNew ==
    /\ gen < MaxDialogs
    /\ gen' = gen + 1
    /\ open' = open \cup {gen'}
    /\ UpdateStats(gen')
    /\ timers' = timers \cup {gen'}
    /\ UNCHANGED <<single, old, freed, confirm>>

\* The timeout source of stat_ui g fires updateStats(g).
Refresh(g) ==
    /\ g \in timers
    /\ UpdateStats(g)
    /\ UNCHANGED <<single, old, open, gen, freed, timers, confirm>>

(***************************************************************************)
(* dialogResponse with TR_RESPONSE_RESET: the confirmation dialog is built *)
(* and gtk_dialog_run enters its nested loop.  The question is             *)
(* GTK_DIALOG_MODAL, so while it is up no dialog's buttons get input.      *)
(***************************************************************************)
ResetClicked(g) ==
    /\ g \in open
    /\ confirm = 0
    /\ confirm' = g
    /\ UNCHANGED <<single, old, open, gen, freed, timers, shownOne,
                   shownAll, touchedFreed, behind>>

\* A plausible slip: the statistics are cleared but the labels not updated.
ConfirmAnsweredNoUpdate(reset) ==
    /\ confirm # 0
    /\ confirm' = 0
    /\ IF reset
         THEN /\ single' = 0
              /\ old' = 0
              /\ behind' = open \ {confirm}
              /\ UNCHANGED <<shownOne, shownAll, touchedFreed>>
         ELSE UNCHANGED <<single, old, shownOne, shownAll, touchedFreed, behind>>
    /\ UNCHANGED <<open, gen, freed, timers>>

(***************************************************************************)
(* gtk_dialog_run returns the user's answer.  On Reset,                    *)
(* tr_sessionClearStats zeroes both the session's and the cumulative       *)
(* statistics, and updateStats(ui) shows them in the asking dialog; every  *)
(* other open dialog keeps its labels until its own timer fires.  The      *)
(* question is destroyed either way.                                        *)
(***************************************************************************)
ConfirmAnswered(reset) ==
    /\ confirm # 0
    /\ confirm' = 0
    /\ IF reset
         THEN /\ single' = 0
              /\ old' = 0
              /\ shownOne' = [shownOne EXCEPT ![confirm] = 0]
              /\ shownAll' = [shownAll EXCEPT ![confirm] = 0]
              /\ touchedFreed' = (touchedFreed \/ confirm \in freed)
              /\ behind' = open \ {confirm}
         ELSE UNCHANGED <<single, old, shownOne, shownAll, touchedFreed, behind>>
    /\ UNCHANGED <<open, gen, freed, timers>>

\* A plausible slip: the confirmation dialog is not destroyed with its parent.
DialogDestroyedKeepsChild(g) ==
    /\ g \in open
    /\ open' = open \ {g}
    /\ timers' = timers \ {g}
    /\ freed' = freed \cup {g}
    /\ behind' = behind \ {g}
    /\ UNCHANGED <<single, old, gen, shownOne, shownAll, touchedFreed, confirm>>

(***************************************************************************)
(* Statistics dialog g is destroyed: by dialogResponse on                  *)
(* GTK_RESPONSE_CLOSE, by the window manager or with its parent.  The weak *)
(* reference dialogDestroyed removes its timer and the object data frees   *)
(* its stat_ui.  Its confirmation dialog, if it runs one, was made         *)
(* GTK_DIALOG_DESTROY_WITH_PARENT and goes too: gtk_dialog_run returns     *)
(* GTK_RESPONSE_NONE.                                                       *)
(***************************************************************************)
DialogDestroyed(g) ==
    /\ g \in open
    /\ open' = open \ {g}
    /\ timers' = timers \ {g}
    /\ freed' = freed \cup {g}
    /\ confirm' = IF confirm = g THEN 0 ELSE confirm
    /\ behind' = behind \ {g}
    /\ UNCHANGED <<single, old, gen, shownOne, shownAll, touchedFreed>>

\* The Close button of dialog g: dialogResponse with GTK_RESPONSE_CLOSE,
\* while no modal confirmation dialog holds the input.
CloseClicked(g) ==
    /\ confirm = 0
    /\ DialogDestroyed(g)

\* Every bound of the model is used up and every dialog is closed.
Idle ==
    /\ single = MaxBytes
    /\ open = {}
    /\ gen = MaxDialogs
    /\ UNCHANGED vars

Next ==
    \/ Transfer
    \/ DialogNew
    \/ \E g \in Gens : Refresh(g)
    \/ \E g \in Gens : ResetClicked(g)
    \/ \E reset \in BOOLEAN : ConfirmAnswered(reset)
    \/ \E g \in Gens : DialogDestroyed(g)
    \/ \E g \in Gens : CloseClicked(g)
    \/ Idle

Spec == Init /\ [][Next]_vars

(***************************************************************************)
(* gdk_threads_add_timeout_seconds makes each updateStats a GLib timeout   *)
(* source that the main loop, and the nested loop of gtk_dialog_run,       *)
(* dispatch whenever its interval has passed and it is still attached:     *)
(* every dialog's refresh is weakly fair.  Nothing else is assumed of the  *)
(* user or the session.                                                     *)
(***************************************************************************)
LiveSpec == Spec /\ \A g \in Gens : WF_vars(Refresh(g))

-----------------------------------------------------------------------------
(***************************************************************************)
(* Properties.                                                              *)
(***************************************************************************)

(***************************************************************************)
(* The labels of an open dialog never show more than libtransmission       *)
(* holds, unless a Reset confirmed in another dialog cleared the           *)
(* statistics and this one's timer has not fired since: statistics only    *)
(* grow between two updateStats calls, and the dialog that asked for the   *)
(* Reset runs updateStats(ui) right after tr_sessionClearStats, even when  *)
(* its timer fired during the nested loop of the confirmation dialog.      *)
(***************************************************************************)
ShownNeverAhead ==
    \A g \in open \ behind :
        shownOne[g] <= single /\ shownAll[g] <= old + single

(***************************************************************************)
(* updateStats never runs on a freed stat_ui: dialogDestroyed removes a    *)
(* dialog's timer before its data is freed, and a confirmation dialog      *)
(* whose Statistics dialog is destroyed goes with it, so no Reset answer   *)
(* reaches updateStats(ui) afterwards, whichever dialogs come and go       *)
(* during the nested loop.                                                  *)
(***************************************************************************)
StatsReadLiveUi == ~touchedFreed

(***************************************************************************)
(* The labels of an open dialog that lag behind libtransmission's          *)
(* statistics catch up with them, unless the dialog goes first: the timer *)
(* gtr_stats_dialog_new adds keeps running for as long as the dialog      *)
(* lives, through the nested loop of a Reset confirmation too, and also    *)
(* after a Reset confirmed in another dialog.                               *)
(***************************************************************************)
LabelsStale(g) ==
    g \in open /\ (shownOne[g] # single \/ shownAll[g] # old + single)

LabelsCatchUp == \A g \in Gens : LabelsStale(g) ~> ~LabelsStale(g)

(***************************************************************************)
(* Why StatsReadLiveUi holds: only stat_ui structs up to the latest are    *)
(* allocated, an open dialog's stat_ui is live, a timer and a running      *)
(* question belong to an open dialog.                                       *)
(***************************************************************************)
LiveUiInv ==
    /\ TypeOK
    /\ ~touchedFreed
    /\ freed \subseteq 1..gen
    /\ open \subseteq 1..gen
    /\ open \cap freed = {}
    /\ timers \subseteq open
    /\ confirm # 0 => confirm \in open
    /\ behind \subseteq open

=============================================================================
