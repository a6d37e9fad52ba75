# TLA+ models of transmission's magnet bootstrap, message log window and statistics dialog

This directory holds TLA+ specifications of three parts of the sources under
`src/`. TLC model-checks each one on small instances, for safety and, under
the fairness of their GLib timers, for liveness. The metadata exchange is also
shown to implement an abstract life cycle (`MagnetStates`). TLAPS proves the
main safety properties and that refinement for every value of the constants.

## The system and its parts

| Part | Source | Interacts with | Module |
|---|---|---|---|
| Range I/O engine (`inout.cc`) | `src/unnamed/part_000` 1-356 | file cache, block cache, SHA-1 | not modelled |
| JSON codec (`variant-json.cc`) | `src/unnamed/part_000` 357-1040 | the variant tree | not modelled |
| Metadata exchange (`torrent-magnet.cc`) | `src/unnamed/part_000` 1041-1431 | peers (size hints, pieces, requests), the .torrent and .resume files, the torrent's info and flags | `MetadataExchange`, `MagnetStates` |
| Magnet link renderer | `src/unnamed/part_000` 1433-1461 | none (string building) | not modelled |
| Message log window (`gtk/msgwin.cc`) | `src/unnamed/part_001` | libtransmission's log queue, the GTK main loop, the Save file chooser | `MsgWin` |
| Statistics dialog (`gtk/stats.cc`) | `src/gtk/stats.cc` 1-191 | libtransmission's session statistics, the GTK main loop, a nested confirmation loop | `StatsDialog` |

Lines 192-352 of `src/gtk/stats.cc` hold only declarations from `util.h`.

**Metadata exchange.** A torrent added from a magnet link has only its infohash.

- A peer's size hint (`tr_torrentSetMetadataSizeHint`) allocates a buffer and a list of the pieces still needed.
- `tr_torrentGetNextMetadataRequest` picks the piece requested longest ago. A piece may be asked for again only after `MIN_REPEAT_INTERVAL_SECS`.
- `tr_torrentSetMetadataPiece` stores each delivered piece. When the last piece arrives it runs these steps:
  1. the SHA-1 check against the infohash;
  2. the bencode parse;
  3. the merge into the `.torrent` file;
  4. `tr_metainfoParse` and the block-size check;
  5. the installation.

  If any step fails, the needed list is reset.
- Once the torrent has its info, `tr_torrentGetMetadataPiece` serves pieces of the dict to other peers. It reads them from the `.torrent` file at a cached offset.

**Message log window.** libtransmission queues log messages.

- A one-second timer (`onRefresh`) takes the queue while the window is open. It inserts the messages as rows of the window's list store (`addMessages`). It then chains the batch onto a process-wide list `myHead..myTail`, which outlives the window.
- Pause, Clear and Save As are toolbar callbacks.
- Save As opens a file chooser, and the chooser's response calls `doSave`.
- Closing the window frees its `MsgData` through a weak reference (`onWindowDestroyed`).

All of this runs on the GTK main loop, in any order the user and the timer produce.

**Statistics dialog.** `updateStats` copies the session's statistics and the cumulative statistics into labels. It runs when the dialog is built and then from a timer. `gtr_stats_dialog_new` keeps no record of earlier dialogs, so several may be open at once, each with its own `stat_ui` and timer.

- Reset opens a modal question with `gtk_dialog_run`, which runs a nested main loop. The timer, the session's transfers and the destruction of the Statistics dialog all go on while the question is open.
- The question is `GTK_DIALOG_MODAL`: while it is up, no dialog's buttons get input.
- A confirmed Reset calls `tr_sessionClearStats` and then `updateStats` on the asking dialog only. Every other open dialog keeps its old, larger labels until its own timer fires.
- The dialog's `stat_ui` is freed with the dialog. The timer is removed through a weak reference (`dialogDestroyed`).

## Modules

| Module | Role |
|---|---|
| `MetadataExchange.tla` | the metadata exchange state machine |
| `MCMetadataExchange.tla` | TLC instance of it: the size hints peers advertise |
| `MetadataExchangeProofs.tla` | TLAPS proofs of its type invariant and of `ServedWithinDict` |
| `MagnetStates.tla` | the abstract life cycle NO_METADATA / ACQUIRING / INSTALLED the exchange promises |
| `MetadataRefinementProofs.tla` | TLAPS proof that the exchange implements `MagnetStates` |
| `MetadataNeededProofs.tla` | TLAPS proofs of the needed list's accounting and request order, and that an incomplete buffer always has a piece to request |
| `MetadataPercentProofs.tla` | TLAPS proof that the reported progress falls only on a reset |
| `MsgWin.tla` | the message log window |
| `MCMsgWin.tla` | TLC instance of it |
| `MsgWinProofs.tla` | TLAPS proofs of its two safety properties |
| `StatsDialog.tla` | the statistics dialog |
| `MCStatsDialog.tla` | TLC instance of it |
| `StatsDialogProofs.tla` | TLAPS proofs of its two safety properties |

### MetadataExchange: state and actions

State (`VARIABLES`), with the code it stands for:

- `info` is `tor->info`: "magnet" when only the infohash is known, "genuine" or "corrupt" once installed.
- `meta` is `tor->incompleteMetadata`, a record with:
  - `size`;
  - `pieceCount`;
  - `needed`, the sequence of `struct metadata_node`;
  - `buf`, the content of each piece: "junk" for the uninitialised `tr_new` bytes, or "good"/"bad" bytes from a peer.
- `torrentFile` is the `.torrent` on disk: "magnet", "full" or "absent". `resumeFile` is whether the `.resume` file exists.
- `localError`, `isStopping` and `magnetVerify` are the torrent's flags.
- `infoDictOffset` is the cached offset: "uncached", "correct" or "zero".
- `served` is what the last `tr_torrentGetMetadataPiece` returned.
- `reply` is what the last `tr_torrentGetNextMetadataRequest` returned.
- `now` is `tr_time()`.
- `infoKind` is what the genuine dict parses to. It is fixed in Init, because it is a property of the torrent.

Bytes are abstracted. A piece is "good" (the bytes of the genuine dict) or "bad". The SHA-1 matches exactly when the buffer has the genuine size and every piece is good (`IsGenuineDict`).

Actions, one per entry point, each modelling the whole function:

- `SetMetadataSizeHint(size)`: every early return, and the piece count rounded up from `size`.
- `SetMetadataPiece(piece, data, len, kind, loadOK, writeOK)`:
  - the range, length and needed checks;
  - the copy into the buffer and the removal by index;
  - on the last piece, the whole checksum, parse, merge and install sequence, with its failure paths and the reset. `tr_variantToFile`'s result is ignored by the code, and `writeOK` models it.
- `GetNextMetadataRequest`: the throttle and the head-to-tail rotation.
- `GetMetadataPiece(piece, findOK, openOK)`: `findInfoDictOffset` and its caching (`InfoDictOffsetAfter`), and the length checks. The offset `o` and the length `l` are `size_t`, so they are computed modulo the constant `SizeT` (`SIZE_MAX + 1`). `infoDictLength - o` wraps for a piece past the dict, and `served` becomes "overrun" when the bytes handed out reach past the dict (`ServedBytes`).
- `Tick`: the clock advances.

`MetadataPercent` is `tr_torrentGetMetadataPercent`, kept as a numerator and a denominator so that no division is needed.

**Refinement.** `MagnetStates` has two variables:

- `state`, one of NO_METADATA, ACQUIRING and INSTALLED;
- `verify`, which records whether the installation scheduled a stop-and-verify.

The spec's VERIFYING state runs synchronously inside the handler that stores the last piece, so it never lies between two steps. The abstract spec is not given it.

The mapping `MagnetState` reads the code's state as follows:

- `tr_torrentHasMetadata` false and `incompleteMetadata` null is NO_METADATA;
- `tr_torrentHasMetadata` false and `incompleteMetadata` set is ACQUIRING;
- the genuine info is INSTALLED;
- a corrupt info maps to no abstract state.

`verify` is `tor->magnetVerify`. `MetadataExchange` defines `Magnet == INSTANCE MagnetStates WITH state <- MagnetState, verify <- magnetVerify`.

### MsgWin: state and actions

State:

- `queue` is the log queue, `kept` the list `myHead..myTail`, and `store` the window's rows. All three are sequences of message numbers in log order.
- `winOpen`, `gen` and `freed` track the window and its `MsgData`. `gen` is the generation of the latest `MsgData`; `freed` holds the freed ones.
- `timerOn` is `refresh_tag` and `isPaused` is `data->isPaused`.
- `choosers` is a bag of the `MsgData` that the open Save choosers hold.
- `lastSave` is what the last `doSave` did.

`AddMessages(s) == Front(s)` is what `addMessages`' loop inserts: every node but the last.

Actions:

- `LogMessage`: `tr_logAddMessage`, modelled from the spec because it is not under `src/`.
- `OpenWindow`: `gtr_message_log_window_new`. It replays the kept list, runs `onRefresh` once, then starts the timer.
- `Refresh`: `onRefresh`.
- `PauseToggled`, `ClearRequest` and `SaveRequest`: the toolbar callbacks.
- `SaveDialogResponse`: `onSaveDialogResponse` with `doSave`.
- `WindowDestroyed`: `onWindowDestroyed`.
- `Idle`: a stutter once every bound is used.

`LiveSpec` adds weak fairness of `Refresh`, justified below.

### StatsDialog: state and actions

State:

- `single` and `old` are libtransmission's statistics of this session and of the earlier ones. The cumulative statistics are their sum.
- A dialog is named by the generation of its `stat_ui`. `open` holds the open dialogs, `gen` the latest, `freed` the freed `stat_ui`s and `timers` those with an attached timeout source.
- `shownOne` and `shownAll` map each dialog to its labels.
- `confirm` is the dialog whose modal confirmation question is running, or 0.
- `touchedFreed` records whether `updateStats` ever ran on a freed `stat_ui`.
- `behind` is a ghost set, not in the code: the open dialogs whose labels predate a Reset confirmed in another dialog. A confirmed Reset sets it to every other open dialog; `updateStats` on a dialog removes it.

Actions:

- `Transfer`: the session moves a byte. It is modelled from the spec.
- `DialogNew`: `gtr_stats_dialog_new`, at any time, since its caller is not in `src/`.
- `Refresh(g)`: dialog g's timer firing `updateStats`.
- `ResetClicked(g)`: `dialogResponse` of dialog g entering `gtk_dialog_run`; only while no question is up, since the question is modal.
- `ConfirmAnswered(reset)`: the nested loop returns, followed by the clear and the `updateStats` of the asking dialog.
- `DialogDestroyed(g)`: destruction by the window manager or the parent. Its question goes with it because it is `GTK_DIALOG_DESTROY_WITH_PARENT`.
- `CloseClicked(g)`: the Close response, only while no modal question is up.

`LiveSpec` adds weak fairness of every dialog's `Refresh(g)`.

## Runs

| Run | Config | Expect | What it shows |
|---|---|---|---|
| metadata_core | `MCMetadataExchange.cfg` | pass | `TypeOK`, `NeededAccounting` and `NeededOrderedByRequestTime` hold under good, bad, out-of-range and mis-sized pieces, repeated and conflicting hints, failed loads and writes, and the rotation. An incomplete buffer always has a piece to request, because a rejected round refills the needed list (`IncompleteHasWork`). No served piece reaches past the dict although its length wraps in `size_t` (`ServedWithinDict`). The reported percent falls only on a reset (`PercentOnlyFallsOnReset`). 14428 states. |
| metadata_refinement | `MCMetadataRefinement.cfg` | pass | `ImplementsMagnetStates`: the handlers implement the `MagnetStates` life cycle under the mapping |
| metadata_throttle | `MC_ThrottleAsSpecified.cfg` | violation | the code refuses a piece that is exactly 3 s old, which the spec says is due |
| metadata_torrent_file_kept | `MC_TorrentFileKept.cfg` | violation | a failed installation after the old `.torrent` was removed leaves none on disk |
| metadata_served_piece | `MC_ServedPieceGenuine.cfg` | violation | a failed offset lookup caches 0, and peers are then served bytes of the container |
| msgwin_core | `MCMsgWin.cfg` | pass | rows always point into the kept list (`RowsPointIntoKept`), and the rows, in `COL_SEQUENCE` order, are in the order the messages were logged (`RowsInLogOrder`) (3028 states) |
| msgwin_all_fetched_shown | `MC_AllFetchedShown.cfg` | violation | the last message of every batch is chained onto the history but never shown |
| msgwin_save_live_data | `MC_SaveReadsLiveData.cfg` | violation | a Save chooser that outlives the window calls `doSave` on freed `MsgData` |
| msgwin_liveness | `MCMsgWinLive.cfg` | pass | under `LiveSpec`, a message queued while the window is open and unpaused reaches the kept list unless the window is closed or paused first (`QueuedMessagesFetched`) |
| stats_core | `MCStatsDialog.cfg` | pass | with up to three dialogs, a dialog's labels never exceed the statistics unless a Reset in another dialog left it behind (`ShownNeverAhead`), and `updateStats` never touches a freed `stat_ui` (`StatsReadLiveUi`) (111,736 states). Without the `behind` exception the property fails: a Reset in one dialog leaves the other ahead |
| stats_liveness | `MCStatsDialogLive.cfg` | pass | under `LiveSpec`, stale labels of an open dialog catch up unless the dialog goes first (`LabelsCatchUp`) |

Every property of a passing run has a mutant in `PROJECT.json`: a plausible slip in the code, and TLC finds the property violated when the slip is substituted. Examples:

- the checksum comparing only the length;
- the rotation forgetting to remove the head, or restamping it in place;
- Clear leaving the rows in place;
- the timer not removed on destruction;
- Reset not refreshing the labels;
- the question not destroyed with its parent;
- only `0 < l` checked of the served length;
- the percent computed from the pieces still needed;
- the refresh timeout never added.

### Findings

1. **Throttle off by one** (`part_000:1390`). The code requires `requestedAt + 3 < now`. The spec says a piece is due once `requestedAt + 3 <= now`.
2. **.torrent removed early** (`part_000:1319`). The old `.torrent` is removed before `tr_metainfoParse` and the block-size check. It is rewritten only on success, and the result of `tr_variantToFile` is ignored.
3. **Offset 0 cached on failure** (`part_000:1149`, `1168`). If the `.torrent` cannot be read or the dict is not found in it, offset 0 is cached for the rest of the session.
4. **Last message of a batch never shown** (`part_001:385`). `addMessages` loops `while i->next != nullptr`, so it skips the last node it is given. `onRefresh` chains the whole batch regardless.
5. **Save after close uses freed data** (`part_001:204`, `376`, `194`). The Save chooser is not destroyed with its parent, and its response dereferences freed `MsgData`.

## Bounds

- **MetadataExchange** runs with:
  - `PieceSize = 2`;
  - `IntMax = 4`;
  - a genuine size of 3, so the last piece is short;
  - hints `{0, 2, 3, 5}`, which cover a non-positive, a wrong, the genuine and a too-large size;
  - `MinRepeat = 3` and a clock from 4 to 10, so every piece can be requested, throttled and requested again;
  - `SizeT = 16`, a `size_t` small enough to wrap. The piece indices peers use run from -1 to 2, and piece 2 starts past the 3-byte dict, so `infoDictLength - o` wraps to 15.

  This covers two pieces with a short tail, a wrong-size dict whose checksum fails, and several rounds of reset.
- **MsgWin** runs with 3 messages and 2 window openings. That is enough for a batch of two (where the last-node bug shows), a window closed and reopened over a history, and two choosers at once.
- **StatsDialog** runs with 3 bytes and 3 dialogs. That is enough for a reset between transfers, for two dialogs open when one of them resets, and for a dialog destroyed while its question is open while another stays open.

## Fairness

Only the liveness runs assume fairness: `LiveSpec == Spec /\ WF_vars(Refresh)` in `MsgWin`, and weak fairness of each dialog's `Refresh(g)` in `StatsDialog`.

- Both refresh callbacks are GLib timeout sources added with `gdk_threads_add_timeout_seconds` (`part_001:585`, `stats.cc:188`).
- The main loop, and the nested loop of `gtk_dialog_run`, dispatch such a source each interval for as long as it stays attached. In the model it stays attached while `timerOn` holds, or while g is in `timers`.
- Nothing is assumed of the user, of libtransmission or of the peers. A window may stay paused, a dialog may be closed at once, and messages may keep coming.

The metadata exchange has no liveness property. Its progress depends on peers and on the peer-message code that calls it, and none of that is in `src/`.

## Proofs

Eleven theorems are proved for every value of the constants.

**`MetadataExchangeProofs.TypeCorrect`: `Spec => []TypeOK`.** It rests on `ConstantsAssumption`. `TypeOK` is inductive as it stands, so the proof has one lemma per action.

The hard cases are these:

- `SetMetadataPiece`: the buffer's domain depends on `pieceCount`, and the needed list shrinks by one through `RemoveElementFromArray`;
- the reset;
- the rotation, through `Tail` and `Append`.

They rest on three lemmas:

- `RemoveElementProperties` says what a removal by index returns;
- `MetaRecordStore` and `MetaRecordNeeded` show that a record with its buffer or its list replaced stays in the record set.

**`MetadataExchangeProofs.ServedSafe`: `Spec => []ServedWithinDict`.** Only `GetMetadataPiece` changes `served`, so the invariant is `TypeOK /\ ServedWithinDict`. The lemma `ServedLengthWithinDict` does the `size_t` arithmetic. It rests on `SizeTAssumption`: `size_t` is wider than the offset of any piece a peer names, `(MaxPieces + 1) * PieceSize < SizeT`, and than `INT_MAX`. This holds in the code, where `SIZE_MAX` is 2^64 - 1 and `INT_MAX * METADATA_PIECE_SIZE` is below 2^46.

The lemma has three cases:

- A piece whose end is within the dict gets `METADATA_PIECE_SIZE` bytes.
- A piece that starts within the dict and ends past it gets the dict's tail.
- For a piece that starts past the dict, `infoDictLength - o` wraps to more than `METADATA_PIECE_SIZE`, so the read is refused.

**`StatsDialogProofs.LiveUiSafe`: `Spec => []StatsReadLiveUi`.** `~touchedFreed` is not inductive on its own: a refresh or a Reset answer could touch a freed `stat_ui` if the timer or the question outlived their dialog.

The proof uses the strengthening `LiveUiInv`, which TLC found to hold on the instance of `MCStatsDialog.cfg` before it was proved. It says:

- only stat_uis up to `gen` are freed;
- an open dialog's `stat_ui` is live;
- the timer runs only with an open dialog;
- a timer and a running question belong to an open dialog;
- `behind` holds only open dialogs.

`Init => LiveUiInv`, every step preserves it, and it implies the property.

**`StatsDialogProofs.ShownSafe`: `Spec => []ShownNeverAhead`.** The invariant is `LiveUiInv /\ ShownNeverAhead`. Statistics only grow between `updateStats` calls. The one step that shrinks them, a confirmed Reset, sets the labels of the asking dialog to zero and puts every other open dialog into `behind`, where the property does not constrain it until its next `updateStats` sets its labels to the current values.

**`MetadataRefinementProofs.RefinesMagnetStates`: `Spec => ImplementsMagnetStates`.** This is the refinement. Its proof has three parts:

- `Init` maps to `Magnet!Init`;
- every step of `Next` maps to a step of `Magnet!Next` or leaves `<<MagnetState, magnetVerify>>` unchanged;
- the last step is `PTL`.

The step needs the strengthening `MagnetInv`, which says:

- `TypeOK` holds;
- the info is never corrupt;
- a buffer exists only for a bare magnet link;
- a magnet link has no verify scheduled.

TLC found `MagnetInv` to hold on the `MCMetadataRefinement.cfg` instance before it was proved. The proof has one lemma per action:

- a size hint is the NO_METADATA to ACQUIRING step, or a stutter;
- a stored piece, a reset and a rotation stay ACQUIRING;
- only the success path of the last piece is the INSTALLED step, because it requires the checksum, which holds only for the genuine dict.

That a stored or reset buffer is not the null pointer rests on `NoMetaAssumption`, in `MetadataExchange`: no allocated record of at most `INT_MAX` pieces equals `NoMeta`. It also rests on `PieceCountBound`: the piece count of an accepted size is between 1 and the size.

**`MetadataNeededProofs.AccountingSafe` and `RequestOrderSafe`: `Spec => []NeededAccounting` and `Spec => []NeededOrderedByRequestTime`.** Together with `TypeOK` the two are inductive as they stand; `NeededInv` is their conjunction, which is exactly what the `metadata_core` run checks. The proof names the three facts each one is made of:

- `Distinct`: no piece appears twice in the needed list;
- `Filled`: a buffer byte of a piece not in the list is not junk;
- `SortedBy`: the request times never decrease along the list, and none is after `now`.

The lemmas about the operators are these:

- `AllPiecesNeededFacts`: the list a size hint or a reset builds is distinct, sorted, and names every piece;
- `RemoveElementFacts`: `RemoveElementFromArray` keeps the list distinct and sorted and removes exactly the piece at the index;
- `RotateFacts`: moving the head to the tail with the time `now` keeps it distinct and sorted and keeps its pieces;
- `SortedLater`: a `Tick` keeps it sorted, because it only moves `now` forward.

**`MetadataNeededProofs.IncompleteSafe`: `Spec => []IncompleteHasWork`.** `WorkInv == TypeOK /\ IncompleteHasWork` is inductive. A size hint and a reset build `AllPiecesNeeded(n)` with `n > 0` (`AllPiecesNeededNonEmpty`, resting on `TypeOK`'s `pieceCount \in Nat \ {0}`). A delivery that empties the list either installs the info, which drops the buffer, or refills it. A rotation keeps the list's length.

**`MetadataPercentProofs.PercentSafe`: `Spec => PercentOnlyFallsOnReset`.** This is an action property. It rests on `MagnetInv`, the invariant of the refinement proof, and on the lemma `PercentIsPct`, which writes `MetadataPercent` as the fraction `Pct(info, meta)`. The proof has one lemma per handler:

- a size hint starts from the fraction 0;
- a delivery strikes one node off the list and keeps the piece count, so the numerator rises;
- a checked, parsed and loaded buffer reports 1;
- a rejected buffer is the reset step the property allows;
- a rotation keeps the list's length;
- the other steps change neither `info` nor `meta`.

`PercentStep` combines them, and the last step is `PTL`.

**`MsgWinProofs`: `RowsSafe` and `RowsOrderSafe`.** They prove `Spec => []RowsPointIntoKept` and `Spec => []RowsInLogOrder`. Neither is inductive alone. A refresh reads the generation of MsgData its timer was added for, and the order of the rows rests on the order of the kept list and of the queue behind it. The proof uses the strengthening `MsgWinInv` in `MsgWin.tla`, which adds:

- `TypeOK`;
- an open window has a generation, and only generations up to the newest one are freed;
- `TimerOnlyWithLiveData`: a timer runs only with an open window and live data;
- `KeptInLogOrder`: the kept list followed by the queue is a run of consecutive log numbers ending below `nextMsg`.

TLC checked `MsgWinInv` as an invariant of the `MCMsgWin.cfg` instance (3,028 distinct states) before it was proved. The operator lemmas are these:

- `InLogOrderAppend` and `InLogOrderSuffix`: the kept queue stays in log order when messages are appended and when a prefix is dropped;
- `ToSetConcat` and `AddMessagesProperties`: the rows that `addMessages` appends name messages of the queue;
- `InLogOrderIncreasing`, `IncreasingSplit`, `IncreasingConcat` and `IncreasingFront`: a run of consecutive numbers is strictly increasing, and so are its parts, `Front` of it, and a concatenation whose every left element is below every right one. The rows a refresh appends are `Front` of the queue, which lies after the kept list, so they come after the rows already shown;
- `BagAddOne` and `BagRemoveOne`: adding or removing one pending chooser, proved from the definitions of `Bags`.

**Only model-checked:**

- every violation run: each shows a disagreement on an instance, which needs no proof;
- the liveness properties, below.

Every safety property and the refinement that a passing run checks is also stated by a theorem above.

Liveness (`QueuedMessagesFetched`, `LabelsCatchUp`) and the liveness run are out of reach of the installed provers, because it needs reasoning about `ENABLED` and fairness. It is only model-checked.

## Not modelled

- **Range I/O engine and JSON codec.** They are sequential conversions and file I/O over collaborators outside `src/`. A faithful model would be a transliteration of the byte handling.
- **Magnet link renderer.** It is string formatting.
- **The message window's level filter, scrolling and rendering**, and the text `doSave` writes.
- **Label formatting in the statistics dialog.**
