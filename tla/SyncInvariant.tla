--------------------------- MODULE SyncInvariant ---------------------------
(***************************************************************************)
(* The inductive invariant behind NoSilentSkip: why a pull cursor is never *)
(* ahead of the mirror.  NoSilentSkip alone is not inductive, because the  *)
(* cursor is set from `after`, from the page being worked on and from the  *)
(* key_wait entries; each of them needs its own clause.  A device is       *)
(* "current" while the epoch it recorded is the store's; nothing is        *)
(* claimed of a device that is not, its cursors are thrown away before     *)
(* they are used again.                                                    *)
(***************************************************************************)
EXTENDS SyncEngine

\* The instances the invariant speaks of: a restore waits for the pull loops
\* to settle, and key waits and restores do not meet.
CalmInstance == ~OverlappingRestores /\ (Sealed = {} \/ MaxRestore = 0)

Pulling(d) == pc[d] \in {"pull", "page", "cursor"}
Current(d) == devEpoch[d] = epoch

\* Committed rows at or below a seq.
UpTo(s) == {e \in Env : store[e] # 0 /\ store[e] <= s}

\* A seq a reader may hold without missing a later commit: whatever commits
\* below it from now on is overtaken.
Visible(s) == s = 0 \/ \E e \in Env : store[e] >= s

\* Results are handled only while the answer is in hand.
AnswerInHand(d) == pc[d] = "results" => response[d] # NoResponse

\* What type correctness needs to be inductive.
TypeInv == TypeOK /\ \A d \in Device : AnswerInHand(d)

\* Recorded epochs come from the store and never run ahead of it.
EpochsBehind(d) ==
    /\ devEpoch[d] <= epoch
    /\ response[d] # NoResponse => response[d].epoch <= epoch

\* An epoch change found on a page is the store's latest, and a pull loop
\* that has restarted for it is current: the second change that KeepPulling
\* handles does not occur.
RestartSettles(d) ==
    /\ pc[d] = "page" /\ page[d].epoch # devEpoch[d] => page[d].epoch = epoch
    /\ pc[d] = "cursor" => page[d].epoch = devEpoch[d]
    /\ Pulling(d) /\ restarts[d] => Current(d)

\* The persisted cursor.
CursorCovered(d) ==
    Current(d) => UpTo(cursor[d]) \subseteq have[d] \cup overtaken /\ Visible(cursor[d])

\* The pull loop's own cursor, which may have passed rows that wait for a key.
AfterCovered(d) ==
    Pulling(d) /\ Current(d) =>
        /\ UpTo(after[d]) \subseteq have[d] \cup overtaken \cup Waiting(d)
        /\ Visible(after[d])

\* The page in hand holds what its next_seq covers beyond `after`.
PageCovers(d) ==
    pc[d] = "page" /\ Current(d) /\ page[d].epoch = epoch =>
        /\ \A e \in OnPage(d) : store[e] = page[d].seq[e]
        /\ UpTo(page[d].next) \ UpTo(after[d]) \subseteq OnPage(d) \cup overtaken
        /\ Visible(page[d].next)

\* Once it is stored, so does the mirror, but for rows waiting for a key.
PageStored(d) ==
    pc[d] = "cursor" /\ Current(d) =>
        /\ UpTo(page[d].next) \subseteq have[d] \cup overtaken \cup Waiting(d)
        /\ Visible(page[d].next)

\* A key_wait entry knows the row's seq, and is of a row with a missing key.
WaitKnowsSeq(d) ==
    /\ Waiting(d) \subseteq Sealed
    /\ Current(d) => \A e \in Waiting(d) : store[e] = waitSeq[d][e]

\* All that is said of one device.
DevInv(d) ==
    /\ EpochsBehind(d)
    /\ RestartSettles(d)
    /\ CursorCovered(d)
    /\ AfterCovered(d)
    /\ PageCovers(d)
    /\ PageStored(d)
    /\ WaitKnowsSeq(d)

\* The strengthening of NoSilentSkip that every step preserves.
SyncInv == TypeInv /\ \A d \in Device : DevInv(d)
=============================================================================
