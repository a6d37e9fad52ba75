---------------------------- MODULE MagnetStates ----------------------------
(***************************************************************************)
(* What the metadata exchange of a torrent promises, at the level of its   *)
(* life cycle: a torrent added from a magnet link has no info dict         *)
(* (NO_METADATA); a valid size hint allocates the buffer (ACQUIRING); once *)
(* the whole dict has arrived and matches the infohash it is installed,    *)
(* with a stop-and-verify of the local data scheduled (INSTALLED).  The    *)
(* checksum and parse run synchronously inside the handler that stores the *)
(* last piece, so VERIFYING is never a state between two steps.  A torrent *)
(* added from a .torrent file starts INSTALLED, with no verify scheduled   *)
(* by the exchange.  No step leaves INSTALLED or returns to NO_METADATA.   *)
(***************************************************************************)
VARIABLES
    state,    \* "NO_METADATA", "ACQUIRING" or "INSTALLED"
    verify    \* a stop-and-verify cycle was scheduled by the installation

vars == <<state, verify>>

States == {"NO_METADATA", "ACQUIRING", "INSTALLED"}

Init ==
    /\ state \in {"NO_METADATA", "INSTALLED"}
    /\ verify = FALSE

\* An accepted size hint: the buffer and the needed list are allocated.
SizeHint ==
    /\ state = "NO_METADATA"
    /\ state' = "ACQUIRING"
    /\ UNCHANGED verify

\* The last piece completes a dict that matches the infohash and parses.
Install ==
    /\ state = "ACQUIRING"
    /\ state' = "INSTALLED"
    /\ verify' = TRUE

Next == SizeHint \/ Install

Spec == Init /\ [][Next]_vars

=============================================================================
