------------------------------- MODULE MsgWin -------------------------------
(***************************************************************************)
(* The GTK client's message log window (gtk/msgwin.cc, src/unnamed/         *)
(* part_001).  libtransmission queues log messages; while the window is    *)
(* open a one-second GLib timeout (onRefresh) takes the whole queue,        *)
(* inserts its messages as rows of the window's list store and chains the  *)
(* batch onto a process-wide list (myHead .. myTail) that outlives the     *)
(* window, so that a reopened window shows the history again.  The         *)
(* toolbar's Clear, Pause and Save As callbacks, the Save file chooser's   *)
(* response and the window's destruction run on the same GTK main loop,    *)
(* in any order the user and the timer produce.                            *)
(*                                                                         *)
(* A message is a number, the order in which libtransmission logged it.    *)
(* Each gtr_message_log_window_new allocates a new struct MsgData; it is   *)
(* named by its generation number, and freed holds the freed ones.         *)
(* Rendering, scrolling, the level filter and the text written by doSave   *)
(* are left out: they change no state the properties below speak of.       *)
(***************************************************************************)
EXTENDS Naturals, Sequences, SequencesExt, Bags

CONSTANTS
    MaxMsgs,      \* messages libtransmission logs in a behaviour
    MaxWindows,   \* times the window is opened
    MaxChoosers   \* Save file choosers open at once

ASSUME MsgWinAssumption ==
    /\ MaxMsgs \in Nat
    /\ MaxWindows \in Nat
    /\ MaxChoosers \in Nat

VARIABLES
    queue,      \* libtransmission's message queue (tr_logGetQueue's list)
    kept,       \* the static list myHead .. myTail
    store,      \* rows of data->store, in COL_SEQUENCE order
    nextMsg,    \* the next message libtransmission logs
    winOpen,    \* the message window exists
    gen,        \* the MsgData of the latest window (0: none yet)
    freed,      \* MsgData structs released by g_free
    timerOn,    \* data->refresh_tag is an active GLib source
    isPaused,   \* data->isPaused
    choosers,   \* open Save file choosers, as a bag of the MsgData they hold
    lastSave    \* what the last doSave did: "none", "saved", "failed", "dangling"

vars == <<queue, kept, store, nextMsg, winOpen, gen, freed, timerOn,
          isPaused, choosers, lastSave>>

Msgs == 1..MaxMsgs

Gens == 1..MaxWindows

\* The rows addMessages inserts for a list: the loop stops at the node whose
\* next is nullptr, so every node but the last.
AddMessages(s) == Front(s)

\* A plausible slip: the rows are inserted from myHead, not from the batch.
FetchQueueFromHead ==
    /\ store' = store \o AddMessages(kept \o queue)
    /\ kept' = kept \o queue
    /\ queue' = <<>>

\* onRefresh's body when the window is not paused: take the queue, insert
\* it, chain it after myTail.
FetchQueue ==
    /\ store' = store \o AddMessages(queue)
    /\ kept' = kept \o queue
    /\ queue' = <<>>

TypeOK ==
    /\ queue \in Seq(Msgs)
    /\ kept \in Seq(Msgs)
    /\ store \in Seq(Msgs)
    /\ nextMsg \in 1..MaxMsgs + 1
    /\ winOpen \in BOOLEAN
    /\ gen \in 0..MaxWindows
    /\ freed \subseteq Gens
    /\ timerOn \in BOOLEAN
    /\ isPaused \in BOOLEAN
    /\ IsABag(choosers) /\ BagToSet(choosers) \subseteq Gens
    /\ lastSave \in {"none", "saved", "failed", "dangling"}

-----------------------------------------------------------------------------

\* The application starts with the window closed and both lists empty.
Init ==
    /\ queue = <<>>
    /\ kept = <<>>
    /\ store = <<>>
    /\ nextMsg = 1
    /\ winOpen = FALSE
    /\ gen = 0
    /\ freed = {}
    /\ timerOn = FALSE
    /\ isPaused = FALSE
    /\ choosers = EmptyBag
    /\ lastSave = "none"

\* tr_logAddMessage (libtransmission, another thread, under the log lock)
LogMessage ==
    /\ nextMsg <= MaxMsgs
    /\ queue' = Append(queue, nextMsg)
    /\ nextMsg' = nextMsg + 1
    /\ UNCHANGED <<kept, store, winOpen, gen, freed, timerOn, isPaused,
                   choosers, lastSave>>

\* A plausible slip: the refresh timeout is never added.
OpenWindowNoTimer ==
    /\ ~winOpen
    /\ gen < MaxWindows
    /\ gen' = gen + 1
    /\ winOpen' = TRUE
    /\ isPaused' = FALSE
    /\ store' = AddMessages(kept) \o AddMessages(queue)
    /\ kept' = kept \o queue
    /\ queue' = <<>>
    /\ timerOn' = FALSE
    /\ UNCHANGED <<nextMsg, freed, choosers, lastSave>>

(***************************************************************************)
(* gtr_message_log_window_new: a zeroed MsgData, the history replayed with *)
(* addMessages(store, myHead), an immediate onRefresh, then the timer.      *)
(* The application keeps at most one message window.                       *)
(***************************************************************************)
OpenWindow ==
    /\ ~winOpen
    /\ gen < MaxWindows
    /\ gen' = gen + 1
    /\ winOpen' = TRUE
    /\ isPaused' = FALSE
    /\ store' = AddMessages(kept) \o AddMessages(queue)
    /\ kept' = kept \o queue
    /\ queue' = <<>>
    /\ timerOn' = TRUE
    /\ UNCHANGED <<nextMsg, freed, choosers, lastSave>>

\* onRefresh, fired by the timeout source
Refresh ==
    /\ timerOn
    /\ IF isPaused THEN UNCHANGED <<queue, kept, store>> ELSE FetchQueue
    /\ UNCHANGED <<nextMsg, winOpen, gen, freed, timerOn, isPaused, choosers,
                   lastSave>>

\* onPauseToggled
PauseToggled(active) ==
    /\ winOpen
    /\ isPaused' = active
    /\ UNCHANGED <<queue, kept, store, nextMsg, winOpen, gen, freed, timerOn,
                   choosers, lastSave>>

\* A plausible slip: the nodes are freed but the rows are left in place.
ClearRequestKeepsRows ==
    /\ winOpen
    /\ kept' = <<>>
    /\ UNCHANGED <<queue, store, nextMsg, winOpen, gen, freed, timerOn,
                   isPaused, choosers, lastSave>>

\* onClearRequest: the rows go first, then the nodes they point to
ClearRequest ==
    /\ winOpen
    /\ store' = <<>>
    /\ kept' = <<>>
    /\ UNCHANGED <<queue, nextMsg, winOpen, gen, freed, timerOn, isPaused,
                   choosers, lastSave>>

\* onSaveRequest: a file chooser, transient for the window, holding data
SaveRequest ==
    /\ winOpen
    /\ BagCardinality(choosers) < MaxChoosers
    /\ choosers' = choosers (+) SetToBag({gen})
    /\ UNCHANGED <<queue, kept, store, nextMsg, winOpen, gen, freed, timerOn,
                   isPaused>>
    /\ UNCHANGED lastSave

(***************************************************************************)
(* onSaveDialogResponse for a chooser holding MsgData g: on Save, doSave    *)
(* opens the file (fopenOK) and walks data->sort; the chooser is then      *)
(* destroyed.                                                               *)
(***************************************************************************)
SaveDialogResponse(g, accept, fopenOK) ==
    /\ BagIn(g, choosers)
    /\ choosers' = choosers (-) SetToBag({g})
    /\ lastSave' = IF ~accept THEN lastSave
                   ELSE IF ~fopenOK THEN "failed"
                   ELSE IF g \in freed THEN "dangling"
                   ELSE "saved"
    /\ UNCHANGED <<queue, kept, store, nextMsg, winOpen, gen, freed, timerOn,
                   isPaused>>

(***************************************************************************)
(* onWindowDestroyed, the weak-reference notification: the timer source is *)
(* removed and MsgData freed; the list store goes with the window.  The    *)
(* Save choosers are not destroyed with their parent.                       *)
(***************************************************************************)
WindowDestroyed ==
    /\ winOpen
    /\ timerOn' = FALSE
    /\ freed' = freed \cup {gen}
    /\ winOpen' = FALSE
    /\ store' = <<>>
    /\ UNCHANGED <<queue, kept, nextMsg, gen, isPaused, choosers, lastSave>>

\* Every bound of the model is used up and the window is closed: the
\* application idles.
Idle ==
    /\ nextMsg > MaxMsgs
    /\ ~winOpen
    /\ gen = MaxWindows
    /\ UNCHANGED vars

Next ==
    \/ LogMessage
    \/ OpenWindow
    \/ Refresh
    \/ \E active \in BOOLEAN : PauseToggled(active)
    \/ ClearRequest
    \/ SaveRequest
    \/ \E g \in Gens, accept, fopenOK \in BOOLEAN : SaveDialogResponse(g, accept, fopenOK)
    \/ WindowDestroyed
    \/ Idle

Spec == Init /\ [][Next]_vars

(***************************************************************************)
(* onRefresh is a GLib timeout source (gdk_threads_add_timeout_seconds)    *)
(* that the main loop dispatches each second for as long as it is         *)
(* attached: the refresh is weakly fair.  The user, libtransmission and    *)
(* the save choosers get no fairness.                                      *)
(***************************************************************************)
LiveSpec == Spec /\ WF_vars(Refresh)

-----------------------------------------------------------------------------
(***************************************************************************)
(* Properties.                                                              *)
(***************************************************************************)

(***************************************************************************)
(* Every row of the window's store points at a node of the static list:    *)
(* onClearRequest empties the store before tr_logFreeQueue frees the      *)
(* nodes, and a reopened window only replays nodes still on the list, so   *)
(* renderText and doSave never dereference a freed tr_log_message.          *)
(***************************************************************************)
RowsPointIntoKept == ToSet(store) \subseteq ToSet(kept)

(***************************************************************************)
(* The window lists its rows, in the order of the COL_SEQUENCE numbers     *)
(* that the static counter in addMessages hands out, in the order          *)
(* libtransmission logged the messages, each message once: every refresh  *)
(* inserts only the batch it took off the queue, after everything already *)
(* shown, and a reopened window replays the history once before the first *)
(* batch, across any order of refreshes, pauses, clears and reopenings.    *)
(***************************************************************************)
RowsInLogOrder == \A i, j \in 1..Len(store) : i < j => store[i] < store[j]

(***************************************************************************)
(* A message libtransmission queues while the window is open and not      *)
(* paused is taken off the queue and chained onto the static list, unless *)
(* the window is closed or paused first: the timer that                    *)
(* gtr_message_log_window_new adds keeps fetching for the window's whole  *)
(* life.                                                                    *)
(***************************************************************************)
QueuedMessagesFetched ==
    \A m \in Msgs :
        (winOpen /\ ~isPaused /\ m \in ToSet(queue))
            ~> (m \in ToSet(kept) \/ ~winOpen \/ isPaused)

(***************************************************************************)
(* onRefresh's comment: "add the new messages and append them to the end  *)
(* of our persistent list".  After an unpaused refresh, or the window's    *)
(* creation, every message on the list is a row of the store.              *)
(***************************************************************************)
AllFetchedShown ==
    [][(Refresh \/ OpenWindow) /\ ~isPaused' => ToSet(kept') \subseteq ToSet(store')]_vars

(***************************************************************************)
(* Saving the log reads the MsgData of a live window: doSave is never      *)
(* handed the data of a window that was destroyed while its file chooser   *)
(* stayed open.                                                             *)
(***************************************************************************)
SaveReadsLiveData == lastSave # "dangling"

(***************************************************************************)
(* The static list followed by libtransmission's queue is an unbroken run  *)
(* of the latest messages in the order they were logged: onRefresh and     *)
(* the window's creation chain each batch after myTail, and only Clear     *)
(* cuts the history.                                                        *)
(***************************************************************************)
KeptInLogOrder ==
    LET all == kept \o queue
    IN  \A i \in 1..Len(all) : all[i] = nextMsg - Len(all) + i - 1

\* The refresh timer only runs while its MsgData is alive.
TimerOnlyWithLiveData == timerOn => winOpen /\ gen \notin freed

(***************************************************************************)
(* Why RowsPointIntoKept and RowsInLogOrder hold: an open window has a     *)
(* MsgData, only the MsgData of earlier windows are freed, its timer is    *)
(* removed before its MsgData is, and the history and the queue are in     *)
(* log order; every callback preserves the lot.                             *)
(***************************************************************************)
MsgWinInv ==
    /\ TypeOK
    /\ winOpen => gen # 0
    /\ freed \subseteq 1..gen
    /\ TimerOnlyWithLiveData
    /\ RowsPointIntoKept
    /\ KeptInLogOrder
    /\ RowsInLogOrder

=============================================================================
