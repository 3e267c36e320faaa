--------------------------- MODULE SyncRefinement ---------------------------
(***************************************************************************)
(* The engine and the store implement ReplicatedLog: the committed rows    *)
(* are the log, a device's mirror is its replica.  The state of the outbox *)
(* rows, the requests, the answers and the cursors are the means; of all   *)
(* steps of a round and all its failures only a save, a commit and the     *)
(* storing of pulled rows show in the log.                                 *)
(*                                                                         *)
(* Why it does rests on who may push what and which seqs are spoken for:   *)
(* the inductive invariant RowInv, which holds through restores too.       *)
(***************************************************************************)
EXTENDS SyncInvariant

SavedEnvs == {e \in Env : st[e] # "new"}

Log == INSTANCE ReplicatedLog WITH written <- SavedEnvs, log <- store, replica <- have

\* Sync without restores is a replicated append-only log: an entry is stored
\* at most once and under one seq for ever (sync-push inserts it or answers
\* the duplicate), two entries never share a seq, and a mirror holds its
\* device's own entries and committed ones, whatever is lost, retried or
\* restarted.
ImplementsLog == Log!Spec

-----------------------------------------------------------------------------
(* The requests and the store *)

\* Envelope e is part of request r.
Carries(r, e) == e \in r.todo \/ e = r.cur \/ r.res[e].kind # "none"

\* The rows r has drawn a seq for that no reader sees yet, and that seq.
Drawn(r) == {e \in Env : store[e] = 0 /\ (e = r.cur \/ r.res[e].kind = "acked")}
SeqFor(r, e) == IF e = r.cur THEN r.seq ELSE r.res[e].seq

\* Only its author pushes an envelope, and only after saving it.
PushedByAuthor == \A r \in reqs : \A e \in Env : Carries(r, e) => Author[e] = r.dev /\ st[e] # "new"

\* A device has one transaction at a time; the others have not judged anything.
OneTransaction ==
    /\ \A r, q \in reqs : r.begun /\ q.begun /\ r.dev = q.dev => r = q
    /\ \A r \in reqs : ~r.begun => r.cur = NoEnv /\ \A e \in Env : r.res[e].kind = "none"

\* Every seq in use, visible or not yet, was drawn from the sequence.
SeqsAreDrawn ==
    /\ \A e \in Env : store[e] < nextSeq
    /\ \A r \in reqs : \A e \in Drawn(r) : SeqFor(r, e) # 0 /\ SeqFor(r, e) < nextSeq

\* No two envelopes share one.
SeqsAreDistinct ==
    /\ \A e, f \in Env : store[e] = store[f] /\ store[e] # 0 => e = f
    /\ \A r \in reqs : \A e \in Drawn(r) : \A f \in Env : SeqFor(r, e) # store[f]
    /\ \A r, q \in reqs : \A e \in Drawn(r), f \in Drawn(q) : SeqFor(r, e) = SeqFor(q, f) => e = f

\* A transaction acks a stored row with the row's seq, and has still to answer
\* for the row it is inserting.
AcksAreTrue ==
    \A r \in reqs :
        /\ r.cur # NoEnv => r.cur \in r.todo /\ store[r.cur] = 0
        /\ \A e \in Env : r.res[e].kind = "acked" /\ store[e] # 0 => r.res[e].seq = store[e]

RequestInv == PushedByAuthor /\ OneTransaction /\ SeqsAreDrawn /\ SeqsAreDistinct /\ AcksAreTrue

-----------------------------------------------------------------------------
(* The answer a device waits for, and what it makes of it *)

\* The device listens for one answer, and only while its batch is out.
Listened(d) == {r \in reqs : r.dev = d /\ r.live}
OneAnswerAwaited(d) ==
    /\ response[d] # NoResponse => pc[d] \in {"sent", "results"}
    /\ batch[d] # {} => pc[d] \in {"sent", "results"}
    /\ Listened(d) # {} => pc[d] = "sent" /\ response[d] = NoResponse
    /\ \A r, q \in Listened(d) : r = q

\* The epochs a device knows of are ones the store has or had.
EpochsFromStore(d) == EpochsBehind(d) /\ page[d].epoch <= epoch

\* What an answer of this epoch acks is stored under the seq it says.
AnswerIsTrue(d) ==
    response[d] # NoResponse /\ response[d].epoch = epoch =>
        \A e \in Env : response[d].res[e].kind = "acked" =>
            store[e] # 0 /\ store[e] = response[d].res[e].seq

\* Results are applied in the epoch they were given in, to the rows they are for.
ResultsOfEpoch(d) == pc[d] = "results" => response[d].epoch = devEpoch[d]
BatchHeld(d) == \A e \in batch[d] : st[e] = "inflight" /\ Author[e] = d

AckedInStore(d) ==
    \A e \in Own(d) : st[e] = "acked" /\ devEpoch[d] = epoch
                       => store[e] # 0 /\ store[e] = ackedSeq[e]

OutboxInv(d) ==
    /\ OneAnswerAwaited(d)
    /\ EpochsFromStore(d)
    /\ AnswerIsTrue(d)
    /\ ResultsOfEpoch(d)
    /\ BatchHeld(d)
    /\ AckedInStore(d)

\* The strengthening of AckedIsStored and BatchIsInflight that every step
\* preserves, restores included.
RowInv == TypeInv /\ RequestInv /\ \A d \in Device : OutboxInv(d)
=============================================================================
