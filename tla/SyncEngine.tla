----------------------------- MODULE SyncEngine -----------------------------
(***************************************************************************)
(* The device half of the sync protocol, composed with the server half of  *)
(* EnvelopeStore: outbox, mirror, pull cursor and store epoch of every     *)
(* device of one book, and the round that SyncEngine.sync() runs over      *)
(* them.  A round is                                                       *)
(*                                                                         *)
(*   StartRound -> { Push .. PushDone }* -> { ServePull .. SetCursor }*    *)
(*              -> ReadYourWrites -> (a second pass) -> Prune              *)
(*                                                                         *)
(* and each arrow is a point where the process may die: the database keeps *)
(* st, ackedSeq, have, mirrorSeq, devEpoch, cursor and hasKey, everything  *)
(* else is memory of the running engine.  One round runs at a time         *)
(* (EngineSyncClient folds further triggers into a follow-up round).       *)
(***************************************************************************)
EXTENDS EnvelopeStore

CONSTANTS
    Author,         \* [Env -> Device]: who authors an envelope
    Sealed,         \* envelopes sealed under a book key some devices lack
    KeyHolders,     \* devices that hold that key from the start
    MaxCrash,       \* bound: how often a process dies
    OverlappingRestores  \* may a restore hit a device that re-pulls for one

ASSUME AuthorAssumption == Author \in [Env -> Device]
ASSUME SealedAssumption == Sealed \subseteq Env /\ KeyHolders \subseteq Device
ASSUME EngineBounds     == MaxCrash \in Nat /\ OverlappingRestores \in BOOLEAN

VARIABLES
    \* the database of each device
    st,             \* [Env -> push state of the author's outbox row]
    ackedSeq,       \* [Env -> acked_seq of that row, 0 for null]
    have,           \* [Device -> envelopes_local]
    mirrorSeq,      \* [Device -> [Env -> envelopes_local.seq, 0 for null]]
    devEpoch,       \* [Device -> the store epoch it has recorded]
    cursor,         \* [Device -> sync_cursors.last_seq]
    hasKey,         \* [Device -> key_cache holds the key of Sealed]
    \* the running engine
    pc,             \* [Device -> where its round stands]
    gate,           \* [Device -> may the book be pushed now]
    batch,          \* [Device -> rows of the push it waits for]
    after,          \* [Device -> the pull loop's cursor]
    restarts,       \* [Device -> did the pull loop restart for an epoch]
    page,           \* [Device -> the pulled page it works on]
    waitSeq,        \* [Device -> [Env -> seq of a key_wait entry, 0: none]]
    repush,         \* [Device -> an epoch change asks for a second pass]
    pass,           \* [Device -> pass of the round, 1 or 2]
    aborted,        \* [Device -> the pull ended offline]
    crashes         \* crashes so far (bounded by MaxCrash)

dbVars  == <<st, ackedSeq, have, mirrorSeq, devEpoch, cursor, hasKey>>
memVars == <<pc, gate, batch, after, restarts, page, waitSeq, repush, pass,
             aborted, crashes>>
vars    == <<storeVars, dbVars, memVars>>

(***************************************************************************)
(* "new" is an envelope nobody has saved yet and "pruned" one whose outbox *)
(* row is deleted; the other five are PushState.                           *)
(***************************************************************************)
RowState == {"new", "queued", "inflight", "acked", "observed", "rejected", "pruned"}
Stage == {"idle", "push", "sent", "results", "pull", "page", "cursor", "check", "prune"}
Page == [epoch : Nat, seq : [Env -> Nat], next : Nat, last : BOOLEAN]

NoSeq == [e \in Env |-> 0]
NoPage == [epoch |-> 0, seq |-> NoSeq, next |-> 0, last |-> FALSE]

Own(d) == {e \in Env : Author[e] = d}
OwnIn(d, s) == {e \in Own(d) : st[e] = s}
OnPage(d) == {e \in Env : page[d].seq[e] # 0}
Waiting(d) == {e \in Env : waitSeq[d][e] # 0}

Init ==
    /\ StoreInit
    /\ st = [e \in Env |-> "new"]
    /\ ackedSeq = NoSeq
    /\ have = [d \in Device |-> {}]
    /\ mirrorSeq = [d \in Device |-> NoSeq]
    /\ devEpoch = [d \in Device |-> 0]
    /\ cursor = [d \in Device |-> 0]
    /\ hasKey = [d \in Device |-> d \in KeyHolders]
    /\ pc = [d \in Device |-> "idle"]
    /\ gate = [d \in Device |-> "open"]
    /\ batch = [d \in Device |-> {}]
    /\ after = [d \in Device |-> 0]
    /\ restarts = [d \in Device |-> FALSE]
    /\ page = [d \in Device |-> NoPage]
    /\ waitSeq = [d \in Device |-> NoSeq]
    /\ repush = [d \in Device |-> FALSE]
    /\ pass = [d \in Device |-> 1]
    /\ aborted = [d \in Device |-> FALSE]
    /\ crashes = 0

(***************************************************************************)
(* Mirror.observeStoreEpoch, one transaction: a changed epoch clears the   *)
(* cursor and puts every acked row back in the queue.  Inflight, observed  *)
(* and rejected rows keep their state.                                     *)
(***************************************************************************)
\* Mutant: acked rows are left as they are.
RequeuedNever(d) == {}
\* Mutant: inflight rows are queued again too.
RequeuedInflight(d) == {e \in Own(d) : st[e] \in {"acked", "inflight"}}
Requeued(d) == {e \in Own(d) : st[e] = "acked"}

\* Mutant: the cursor of the old epoch is kept.
ObserveEpochKeepsCursor(d, ep) ==
    /\ devEpoch' = [devEpoch EXCEPT ![d] = ep]
    /\ st' = [e \in Env |-> IF ep # devEpoch[d] /\ e \in Requeued(d) THEN "queued" ELSE st[e]]
    /\ ackedSeq' = [e \in Env |-> IF ep # devEpoch[d] /\ e \in Requeued(d) THEN 0 ELSE ackedSeq[e]]
    /\ UNCHANGED cursor

ObserveEpoch(d, ep) ==
    /\ devEpoch' = [devEpoch EXCEPT ![d] = ep]
    /\ IF ep = devEpoch[d]
       THEN UNCHANGED <<st, ackedSeq, cursor>>
       ELSE /\ cursor' = [cursor EXCEPT ![d] = 0]
            /\ st' = [e \in Env |-> IF e \in Requeued(d) THEN "queued" ELSE st[e]]
            /\ ackedSeq' = [e \in Env |-> IF e \in Requeued(d) THEN 0 ELSE ackedSeq[e]]

\* LocalLedger._author: mirror row and outbox row land in one transaction.
Save(e) ==
    LET d == Author[e] IN
    /\ st[e] = "new"
    /\ e \in Sealed => hasKey[d]
    /\ st' = [st EXCEPT ![e] = "queued"]
    /\ have' = [have EXCEPT ![d] = @ \cup {e}]
    /\ UNCHANGED <<storeVars, ackedSeq, mirrorSeq, devEpoch, cursor, hasKey, memVars>>

\* sync(): the meta answer brings the server's epoch first.  The round goes
\* on to push.
StartRound(d) ==
    /\ pc[d] = "idle"
    /\ ObserveEpoch(d, epoch)
    /\ pc' = [pc EXCEPT ![d] = "push"]
    /\ repush' = [repush EXCEPT ![d] = FALSE]
    /\ pass' = [pass EXCEPT ![d] = 1]
    /\ UNCHANGED <<storeVars, have, mirrorSeq, hasKey, gate, batch, after, restarts,
                   page, waitSeq, aborted, crashes>>

\* The meta answer brings the missing book key.  It is persisted on its own:
\* the process may die before the envelopes that waited for it are admitted.
KeyArrives(d) ==
    /\ pc[d] = "push" /\ pass[d] = 1 /\ ~hasKey[d]
    /\ hasKey' = [hasKey EXCEPT ![d] = TRUE]
    /\ UNCHANGED <<storeVars, st, ackedSeq, have, mirrorSeq, devEpoch, cursor, memVars>>

\* _keyArrived: each envelope that waited is admitted to the mirror, in a
\* transaction of its own.
DrainKeyWait(d) ==
    /\ pc[d] = "push" /\ hasKey[d]
    /\ \E e \in Waiting(d) :
         /\ have' = [have EXCEPT ![d] = @ \cup {e}]
         /\ mirrorSeq' = [mirrorSeq EXCEPT ![d][e] = IF e \in have[d] THEN @ ELSE waitSeq[d][e]]
         /\ waitSeq' = [waitSeq EXCEPT ![d][e] = 0]
    /\ UNCHANGED <<storeVars, st, ackedSeq, devEpoch, cursor, hasKey, pc, gate, batch, after,
                   restarts, page, repush, pass, aborted, crashes>>

\* The push half begins when nothing waits for a key the device holds.
Drained(d) == hasKey[d] => Waiting(d) = {}

\* _pushBook: a batch of queued rows (as many as fit 100 rows and 1 MB)
\* turns inflight, then the request leaves.
Push(d) ==
    /\ pc[d] = "push" /\ Drained(d) /\ gate[d] = "open"
    /\ \E b \in SUBSET OwnIn(d, "queued") :
         /\ b # {}
         /\ st' = [e \in Env |-> IF e \in b THEN "inflight" ELSE st[e]]
         /\ batch' = [batch EXCEPT ![d] = b]
         /\ reqs' = reqs \cup {NewRequest(d, b)}
    /\ pc' = [pc EXCEPT ![d] = "sent"]
    /\ UNCHANGED <<store, nextSeq, epoch, response, writer, overtaken, losses, ackedSeq,
                   have, mirrorSeq, devEpoch, cursor, hasKey, gate, after, restarts,
                   page, waitSeq, repush, pass, aborted, crashes>>

\* The pull loop starts from the persisted cursor.
BeginPull(d) ==
    /\ pc' = [pc EXCEPT ![d] = "pull"]
    /\ after' = [after EXCEPT ![d] = cursor[d]]
    /\ restarts' = [restarts EXCEPT ![d] = FALSE]

\* Nothing to push, or the book may not be pushed now.
\* Mutant: a book that may not be pushed is not pulled either.
SkipPushEndsRound(d) ==
    /\ pc[d] = "push" /\ Drained(d)
    /\ \/ gate[d] = "open" /\ OwnIn(d, "queued") = {} /\ BeginPull(d)
       \/ /\ gate[d] # "open" /\ pc' = [pc EXCEPT ![d] = "idle"]
          /\ UNCHANGED <<after, restarts>>
    /\ UNCHANGED <<storeVars, dbVars, gate, batch, page, waitSeq, repush, pass,
                   aborted, crashes>>

SkipPush(d) ==
    /\ pc[d] = "push" /\ Drained(d)
    /\ gate[d] # "open" \/ OwnIn(d, "queued") = {}
    /\ BeginPull(d)
    /\ UNCHANGED <<storeVars, dbVars, gate, batch, page, waitSeq, repush, pass,
                   aborted, crashes>>

\* The client stops listening; the server does not know.
Orphaned(d) == {IF r.dev = d THEN [r EXCEPT !.live = FALSE] ELSE r : r \in reqs}

\* Mutant: the batch stays inflight.
GiveUpBatchInflight(d) ==
    /\ pc[d] = "sent"
    /\ batch' = [batch EXCEPT ![d] = {}]
    /\ response' = [response EXCEPT ![d] = NoResponse]
    /\ UNCHANGED <<store, nextSeq, epoch, writer, overtaken, dbVars, page, waitSeq,
                   repush, pass, aborted, crashes>>

\* The push call gets no answer: the batch is queued again.
GiveUpBatch(d) ==
    /\ pc[d] = "sent"
    /\ st' = [e \in Env |-> IF e \in batch[d] THEN "queued" ELSE st[e]]
    /\ ackedSeq' = [e \in Env |-> IF e \in batch[d] THEN 0 ELSE ackedSeq[e]]
    /\ batch' = [batch EXCEPT ![d] = {}]
    /\ response' = [response EXCEPT ![d] = NoResponse]
    /\ UNCHANGED <<store, nextSeq, epoch, writer, overtaken, have, mirrorSeq, devEpoch,
                   cursor, hasKey, page, waitSeq, repush, pass, aborted, crashes>>

\* No network, or the call's timeout: the book backs off and the round ends.
\* A loss, unless nobody is left to answer.
PushFailed(d) ==
    /\ GiveUpBatch(d)
    /\ \/ losses < MaxLoss /\ losses' = losses + 1
       \/ /\ response[d] = NoResponse
          /\ ~\E r \in reqs : r.dev = d /\ r.live
          /\ losses' = losses
    /\ reqs' = Orphaned(d)
    /\ gate' = [gate EXCEPT ![d] = "backoff"]
    /\ pc' = [pc EXCEPT ![d] = "idle"]
    /\ UNCHANGED <<after, restarts>>

\* The push route as a whole is refused (403/404): the book is blocked, and
\* the round goes on to pull.
PushRefused(d) ==
    /\ losses < MaxLoss /\ losses' = losses + 1
    /\ GiveUpBatch(d)
    /\ \E r \in reqs : r.dev = d /\ r.live /\ ~r.begun /\ reqs' = reqs \ {r}
    /\ gate' = [gate EXCEPT ![d] = "blocked"]
    /\ BeginPull(d)

\* The answer is in: the backoff is reset and its epoch observed before any
\* of its results.
ReceivePush(d) ==
    /\ pc[d] = "sent" /\ response[d] # NoResponse
    /\ ObserveEpoch(d, response[d].epoch)
    /\ repush' = [repush EXCEPT ![d] = @ \/ response[d].epoch # devEpoch[d]]
    /\ pc' = [pc EXCEPT ![d] = "results"]
    /\ UNCHANGED <<storeVars, have, mirrorSeq, hasKey, gate, batch, after, restarts,
                   page, waitSeq, pass, aborted, crashes>>

(***************************************************************************)
(* _handleResult, one transaction per envelope of the batch.               *)
(***************************************************************************)
Handle(d, e, kind) ==
    /\ pc[d] = "results" /\ e \in batch[d]
    /\ response[d].res[e].kind = kind
    /\ batch' = [batch EXCEPT ![d] = @ \ {e}]
    /\ UNCHANGED <<storeVars, have, devEpoch, cursor, hasKey, pc, after, restarts,
                   page, waitSeq, repush, pass, aborted, crashes>>

HandleAcked(d, e) ==
    /\ Handle(d, e, "acked")
    /\ st' = [st EXCEPT ![e] = "acked"]
    /\ ackedSeq' = [ackedSeq EXCEPT ![e] = response[d].res[e].seq]
    /\ mirrorSeq' = [mirrorSeq EXCEPT ![d][e] = response[d].res[e].seq]
    /\ UNCHANGED gate

HandleRateLimited(d, e) ==
    /\ Handle(d, e, "rate_limited")
    /\ st' = [st EXCEPT ![e] = "queued"]
    /\ ackedSeq' = [ackedSeq EXCEPT ![e] = 0]
    /\ gate' = [gate EXCEPT ![d] = IF @ = "open" THEN "backoff" ELSE @]
    /\ UNCHANGED mirrorSeq

HandleQuota(d, e) ==
    /\ Handle(d, e, "quota")
    /\ st' = [st EXCEPT ![e] = "queued"]
    /\ ackedSeq' = [ackedSeq EXCEPT ![e] = 0]
    /\ gate' = [gate EXCEPT ![d] = "blocked"]
    /\ UNCHANGED mirrorSeq

HandleNoRole(d, e) ==
    /\ Handle(d, e, "no_role")
    /\ st' = [st EXCEPT ![e] = "rejected"]
    /\ gate' = [gate EXCEPT ![d] = "blocked"]
    /\ UNCHANGED <<ackedSeq, mirrorSeq>>

\* Every result is handled.  The loop sends the rows the batch left out,
\* unless a result stopped the book; rows saved meanwhile wait for the next
\* round.
PushDone(d) ==
    /\ pc[d] = "results" /\ batch[d] = {}
    /\ response' = [response EXCEPT ![d] = NoResponse]
    /\ \/ /\ gate[d] = "open"
          /\ pc' = [pc EXCEPT ![d] = "push"]
          /\ UNCHANGED <<after, restarts>>
       \/ BeginPull(d)
    /\ UNCHANGED <<store, nextSeq, epoch, reqs, writer, overtaken, losses, dbVars, gate,
                   batch, page, waitSeq, repush, pass, aborted, crashes>>

(***************************************************************************)
(* _pullBook.  The answer is computed from the committed rows at one       *)
(* instant: an ascending, non-empty run of them behind `after`, as long as *)
(* the page limit allows.  A blob that arrives damaged ends the page just   *)
(* before its row, and the loop with it ("last").                          *)
(***************************************************************************)
Behind(d) == {e \in Env : store[e] > after[d]}

IsRun(d, run) ==
    /\ run \subseteq Behind(d)
    /\ \A e \in run, f \in Behind(d) \ run : store[e] < store[f]

\* The page answered with the rows of `run`, to be left with the cursor at
\* `next`.  Mutant: next_seq is one before the last row.
AnsweredShort(d, run, next, last) ==
    page' = [page EXCEPT ![d] =
               [epoch |-> epoch, seq |-> [e \in Env |-> IF e \in run THEN store[e] ELSE 0],
                next |-> next - 1, last |-> last]]

Answered(d, run, next, last) ==
    page' = [page EXCEPT ![d] =
               [epoch |-> epoch, seq |-> [e \in Env |-> IF e \in run THEN store[e] ELSE 0],
                next |-> next, last |-> last]]

ServePull(d) ==
    /\ pc[d] = "pull"
    /\ \E run \in SUBSET Behind(d) :
         /\ IsRun(d, run)
         /\ \/ /\ run = {} /\ Behind(d) = {}
               /\ Answered(d, run, after[d], FALSE)
               /\ losses' = losses
            \/ \E e \in run :
                 /\ IsRun(d, run \ {e})
                 /\ Answered(d, run, store[e], FALSE)
                 /\ losses' = losses
            \/ \E bad \in Behind(d) \ run :
                 /\ IsRun(d, run \cup {bad})
                 /\ Answered(d, run, store[bad] - 1, TRUE)
                 /\ losses < MaxLoss /\ losses' = losses + 1
    /\ pc' = [pc EXCEPT ![d] = "page"]
    /\ UNCHANGED <<store, nextSeq, epoch, reqs, response, writer, overtaken, dbVars, gate,
                   batch, after, restarts, waitSeq, repush, pass, aborted, crashes>>

\* No network: the loop ends, the bookkeeping behind it does not.
PullFailed(d) ==
    /\ pc[d] = "pull" /\ losses < MaxLoss
    /\ losses' = losses + 1
    /\ aborted' = [aborted EXCEPT ![d] = TRUE]
    /\ pc' = [pc EXCEPT ![d] = "check"]
    /\ UNCHANGED <<store, nextSeq, epoch, reqs, response, writer, overtaken, dbVars, gate,
                   batch, after, restarts, page, waitSeq, repush, pass, crashes>>

\* The first page of a new epoch: the loop starts again from 0, once.
RestartPull(d) ==
    /\ pc[d] = "page" /\ page[d].epoch # devEpoch[d] /\ ~restarts[d]
    /\ ObserveEpoch(d, page[d].epoch)
    /\ after' = [after EXCEPT ![d] = 0]
    /\ restarts' = [restarts EXCEPT ![d] = TRUE]
    /\ repush' = [repush EXCEPT ![d] = TRUE]
    /\ page' = [page EXCEPT ![d] = NoPage]
    /\ pc' = [pc EXCEPT ![d] = "pull"]
    /\ UNCHANGED <<storeVars, have, mirrorSeq, hasKey, gate, batch, waitSeq, pass,
                   aborted, crashes>>

\* _observeOwn: the device's own envelope came back.  A row in any state but
\* rejected ends observed (queued and inflight ones by way of acked).
\* Mutant: an acked row is taken for settled already.
ObservableUnacked == {"queued", "inflight"}
Observable == {"queued", "inflight", "acked"}
SeenBack(d) == {e \in OnPage(d) \cap Own(d) : st[e] \in Observable}

\* Known rows that still lack a seq; rows sealed under a key the device has
\* not got; rows that enter the mirror (verified or quarantined).
\* Mutant: an own row that came back keeps a null seq.
NeedsSeqNever(d) == {}
NeedsSeq(d) == {e \in OnPage(d) \cap have[d] : mirrorSeq[d][e] = 0}
Keyless(d) == IF hasKey[d] THEN {} ELSE (OnPage(d) \cap Sealed) \ have[d]
Admitted(d) == OnPage(d) \ (have[d] \cup Keyless(d))

\* The page's rows are stored.  A key-less one waits in memory, and an entry
\* that already waits keeps the seq it was queued with.
StorePage(d) ==
    /\ pc[d] = "page" /\ page[d].epoch = devEpoch[d]
    /\ st' = [e \in Env |-> IF e \in SeenBack(d) THEN "observed" ELSE st[e]]
    /\ ackedSeq' = [e \in Env |-> IF e \in SeenBack(d) /\ st[e] # "acked"
                                  THEN page[d].seq[e] ELSE ackedSeq[e]]
    /\ have' = [have EXCEPT ![d] = @ \cup Admitted(d)]
    /\ mirrorSeq' = [mirrorSeq EXCEPT ![d] =
          [e \in Env |-> IF e \in Admitted(d) \cup NeedsSeq(d)
                         THEN page[d].seq[e] ELSE mirrorSeq[d][e]]]
    /\ waitSeq' = [waitSeq EXCEPT ![d] =
          [e \in Env |-> IF e \in Keyless(d) /\ waitSeq[d][e] = 0 THEN page[d].seq[e]
                         ELSE IF e \in Admitted(d) THEN 0 ELSE waitSeq[d][e]]]
    /\ pc' = [pc EXCEPT ![d] = "cursor"]
    /\ UNCHANGED <<storeVars, devEpoch, cursor, hasKey, gate, batch, after, restarts,
                   page, repush, pass, aborted, crashes>>

\* A second epoch change inside one pull loop: the epoch is recorded and the
\* page, answered behind the old epoch's `after`, is taken as it is.
KeepPulling(d) ==
    /\ pc[d] = "page" /\ page[d].epoch # devEpoch[d] /\ restarts[d]
    /\ ObserveEpoch(d, page[d].epoch)
    /\ UNCHANGED <<storeVars, have, mirrorSeq, hasKey, memVars>>

\* The persisted cursor follows the page, but never passes an envelope that
\* still waits for its key.  An empty page ends the loop.
\* Mutant: the cursor follows the page and nothing else.
FloorsIgnoreWait(d, a) == {a}
Floors(d, a) == {a} \cup {waitSeq[d][e] - 1 : e \in Waiting(d)}

SetCursor(d) ==
    /\ pc[d] = "cursor"
    /\ LET reached == IF page[d].next > after[d] THEN page[d].next ELSE after[d]
       IN \E floor \in Floors(d, reached) :
            /\ \A f \in Floors(d, reached) : floor <= f
            /\ after' = [after EXCEPT ![d] = reached]
            /\ cursor' = [cursor EXCEPT ![d] = IF floor > @ THEN floor ELSE @]
    /\ pc' = [pc EXCEPT ![d] = IF page[d].last \/ OnPage(d) = {} THEN "check" ELSE "pull"]
    /\ page' = [page EXCEPT ![d] = NoPage]
    /\ UNCHANGED <<storeVars, st, ackedSeq, have, mirrorSeq, devEpoch, hasKey, gate, batch,
                   restarts, waitSeq, repush, pass, aborted, crashes>>

\* An acked row the cursor has passed without seeing it was lost by the
\* server: it is queued again (write_lost).
\* Mutant: off by one.
LostTooEarly(d) == {e \in OwnIn(d, "acked") : ackedSeq[e] <= after[d] + 1}
Lost(d) == {e \in OwnIn(d, "acked") : ackedSeq[e] <= after[d]}

ReadYourWrites(d) ==
    /\ pc[d] = "check"
    /\ st' = [e \in Env |-> IF e \in Lost(d) THEN "queued" ELSE st[e]]
    /\ ackedSeq' = [e \in Env |-> IF e \in Lost(d) THEN 0 ELSE ackedSeq[e]]
    /\ pc' = [pc EXCEPT ![d] = IF aborted[d] THEN "idle"
                               ELSE IF repush[d] /\ pass[d] = 1 THEN "push" ELSE "prune"]
    /\ pass' = [pass EXCEPT ![d] = IF repush[d] /\ ~aborted[d] THEN 2 ELSE 1]
    /\ repush' = [repush EXCEPT ![d] = FALSE]
    /\ aborted' = [aborted EXCEPT ![d] = FALSE]
    /\ after' = [after EXCEPT ![d] = 0]
    /\ restarts' = [restarts EXCEPT ![d] = FALSE]
    /\ UNCHANGED <<storeVars, have, mirrorSeq, devEpoch, cursor, hasKey, gate, batch, page,
                   waitSeq, crashes>>

\* pruneObserved, at the end of a round that was not cut short.
Prune(d) ==
    /\ pc[d] = "prune"
    /\ st' = [e \in Env |-> IF e \in OwnIn(d, "observed") THEN "pruned" ELSE st[e]]
    /\ ackedSeq' = [e \in Env |-> IF e \in OwnIn(d, "observed") THEN 0 ELSE ackedSeq[e]]
    /\ pc' = [pc EXCEPT ![d] = "idle"]
    /\ pass' = [pass EXCEPT ![d] = 1]
    /\ UNCHANGED <<storeVars, have, mirrorSeq, devEpoch, cursor, hasKey, gate, batch, after,
                   restarts, page, waitSeq, repush, aborted, crashes>>

\* The retry time has come, or the network is back.  (While the results of
\* a batch are handled the loop is bound to stop whatever the clock says.)
BackoffOver(d) ==
    /\ pc[d] # "results" /\ gate[d] = "backoff"
    /\ gate' = [gate EXCEPT ![d] = "open"]
    /\ UNCHANGED <<storeVars, dbVars, pc, batch, after, restarts, page, waitSeq, repush,
                   pass, aborted, crashes>>

\* The app says the plan was upgraded or the role is back.
ResumeBook(d) ==
    /\ pc[d] = "idle" /\ gate[d] = "blocked"
    /\ gate' = [gate EXCEPT ![d] = "open"]
    /\ UNCHANGED <<storeVars, dbVars, pc, batch, after, restarts, page, waitSeq, repush,
                   pass, aborted, crashes>>

\* The process dies and starts again: the database stays, the engine's
\* memory does not.  _restore replays signed records; it leaves the outbox
\* as it is.
Crash(d) ==
    /\ crashes < MaxCrash
    /\ crashes' = crashes + 1
    /\ reqs' = Orphaned(d)
    /\ response' = [response EXCEPT ![d] = NoResponse]
    /\ pc' = [pc EXCEPT ![d] = "idle"]
    /\ gate' = [gate EXCEPT ![d] = "open"]
    /\ batch' = [batch EXCEPT ![d] = {}]
    /\ after' = [after EXCEPT ![d] = 0]
    /\ restarts' = [restarts EXCEPT ![d] = FALSE]
    /\ page' = [page EXCEPT ![d] = NoPage]
    /\ waitSeq' = [waitSeq EXCEPT ![d] = NoSeq]
    /\ repush' = [repush EXCEPT ![d] = FALSE]
    /\ pass' = [pass EXCEPT ![d] = 1]
    /\ aborted' = [aborted EXCEPT ![d] = FALSE]
    /\ UNCHANGED <<store, nextSeq, epoch, writer, overtaken, losses, dbVars>>

\* Restores are rare: unless the instance says otherwise, none happens while
\* a device's pull loop has not settled in the current epoch.
Settled(d) == pc[d] \in {"pull", "page", "cursor", "check"} =>
                  devEpoch[d] = epoch /\ ~restarts[d]

RestoreStore ==
    /\ OverlappingRestores \/ \A d \in Device : Settled(d)
    /\ Restore
    /\ UNCHANGED <<dbVars, memVars>>

DeviceStep(d) ==
    \/ StartRound(d) \/ DrainKeyWait(d) \/ Push(d) \/ SkipPush(d)
    \/ ReceivePush(d) \/ PushDone(d)
    \/ \E e \in Env : \/ HandleAcked(d, e) \/ HandleRateLimited(d, e)
                      \/ HandleQuota(d, e) \/ HandleNoRole(d, e)
    \/ ServePull(d) \/ RestartPull(d) \/ StorePage(d) \/ KeepPulling(d)
    \/ SetCursor(d) \/ ReadYourWrites(d) \/ Prune(d)

ServerStep ==
    /\ \E r \in reqs : Serve(r)
    /\ UNCHANGED <<dbVars, memVars>>

\* Misfortune: what no device or server wants to do.
Trouble ==
    \/ \E r \in reqs : /\ RateLimited(r) \/ Abort(r)
                       /\ UNCHANGED <<dbVars, memVars>>
    \/ \E d \in Device : PushRefused(d) \/ PullFailed(d) \/ Crash(d)
    \/ \E d \in Device : Demote(d) /\ UNCHANGED <<dbVars, memVars>>
    \/ RestoreStore

Next ==
    \/ \E e \in Env : Save(e)
    \/ \E d \in Device : DeviceStep(d) \/ KeyArrives(d) \/ PushFailed(d)
                           \/ BackoffOver(d) \/ ResumeBook(d)
    \/ ServerStep
    \/ Trouble

Spec == Init /\ [][Next]_vars

(***************************************************************************)
(* Fairness.  The app runs rounds for ever (entry saves, foreground, hints *)
(* and the backstop poll trigger them), an engine step and a transaction   *)
(* step are finite work, a call whose answer can no longer come ends by    *)
(* its timeout, and a retry time comes.  Nothing is promised about saves,  *)
(* keys or the app's resume, and Trouble is never owed.                    *)
(***************************************************************************)
ServeDevice(d) == (\E r \in reqs : r.dev = d /\ Serve(r)) /\ UNCHANGED <<dbVars, memVars>>
CallTimesOut(d) == PushFailed(d) /\ UNCHANGED losses

Fairness == \A d \in Device : /\ WF_vars(DeviceStep(d))
                              /\ WF_vars(ServeDevice(d))
                              /\ WF_vars(CallTimesOut(d))
                              /\ WF_vars(BackoffOver(d))

FairSpec == Spec /\ Fairness

-----------------------------------------------------------------------------
(***************************************************************************)
(* Properties.                                                             *)
(***************************************************************************)

\* Every variable holds a value of its kind, in every state.
TypeOK ==
    /\ StoreTypeOK
    /\ st \in [Env -> RowState]
    /\ ackedSeq \in [Env -> Nat]
    /\ have \in [Device -> SUBSET Env]
    /\ mirrorSeq \in [Device -> [Env -> Nat]]
    /\ devEpoch \in [Device -> Nat]
    /\ cursor \in [Device -> Nat]
    /\ hasKey \in [Device -> BOOLEAN]
    /\ pc \in [Device -> Stage]
    /\ gate \in [Device -> {"open", "backoff", "blocked"}]
    /\ batch \in [Device -> SUBSET Env]
    /\ after \in [Device -> Nat]
    /\ restarts \in [Device -> BOOLEAN]
    /\ page \in [Device -> Page]
    /\ waitSeq \in [Device -> [Env -> Nat]]
    /\ repush \in [Device -> BOOLEAN]
    /\ pass \in [Device -> {1, 2}]
    /\ aborted \in [Device -> BOOLEAN]
    /\ crashes \in 0 .. MaxCrash

\* Rows the device's persisted cursor claims to have seen in this epoch.
Covered(d) == {e \in Env : /\ devEpoch[d] = epoch
                          /\ store[e] # 0 /\ store[e] <= cursor[d]}

\* What the code does guarantee, across lost answers, damaged pages, key
\* waits, crashes and restores: the only rows a cursor can pass unseen are
\* those that committed below a seq that was already visible.
NoSilentSkip == \A d \in Device : Covered(d) \subseteq have[d] \cup overtaken

\* An acked row is in the store under the seq the ack gave, as long as the
\* author's epoch is the store's: the re-push after a restore and the
\* read-your-writes check both rely on it.
AckedIsStored ==
    \A e \in Env : st[e] = "acked" /\ devEpoch[Author[e]] = epoch
                    => store[e] # 0 /\ store[e] = ackedSeq[e]

\* Mirror.transition throws on a move _allowedTransitions lacks, which would
\* cut the round short: whatever happened since the batch left, the rows the
\* engine waits for are still inflight when their results are applied.
BatchIsInflight == \A d \in Device : \A e \in batch[d] : st[e] = "inflight" /\ Author[e] = d

\* The seq in a mirror row is what the revocation cut-off is compared with
\* (05 section 4): behind the cursor it is the store's seq.
MirrorSeqIsCurrent ==
    \A d \in Device : \A e \in (Covered(d) \cap have[d]) \ overtaken :
        mirrorSeq[d][e] = store[e]

\* "Duplicate push of a batch (network retry after lost ack) results in zero
\* new rows and acked for all" (05 section 10); a rate limit may delay it.
DuplicateIsAcked ==
    \A d \in Device, e \in Env :
        /\ response[d] # NoResponse
        /\ response[d].epoch = epoch /\ response[d].res[e].kind # "none"
        /\ store[e] # 0
        => response[d].res[e].kind \in {"acked", "rate_limited"}

\* write_lost accuses the server of losing an acked write.  The check never
\* accuses it of a row it holds, unless the row committed out of seq order.
NoFalseWriteLost ==
    [][\A d \in Device, e \in Env :
         /\ pc[d] = "check" /\ pc'[d] # "check" /\ crashes' = crashes
         /\ Author[e] = d /\ st[e] = "acked" /\ st'[e] = "queued"
         /\ devEpoch[d] = epoch
         => store[e] = 0 \/ e \in overtaken]_vars

\* A saved entry reaches the store, unless its author's pushes are refused.
SavedReachesStore ==
    \A e \in Env : st[e] = "queued" ~> \/ store[e] # 0
                                       \/ st[e] = "rejected" \/ gate[Author[e]] = "blocked"

\* A stored row reaches every device that holds its key, unless it committed
\* out of seq order or a restore takes it away.
StoredReachesAll ==
    \A d \in Device, e \in Env :
        store[e] # 0 ~> \/ e \in have[d] \/ e \in overtaken \/ store[e] = 0
                       \/ (e \in Sealed /\ ~hasKey[d])

\* An acked row is seen back on a pull, or queued again: the outbox drains.
AckedIsSettled ==
    \A e \in Env : st[e] = "acked" ~> \/ st[e] \in {"pruned", "rejected"}
                                      \/ e \in overtaken \/ gate[Author[e]] = "blocked"

\* "An envelope acked before the restore but missing after it is re-pushed"
\* (05 section 10).  Stated once no further restore can come.
AckedComesBack ==
    \A e \in Env :
        /\ st[e] \in {"acked", "observed", "pruned"}
        /\ store[e] = 0 /\ epoch = MaxRestore
        ~> store[e] # 0

\* A row is inflight ("Push in progress.", mirror.dart) only until its answer,
\* or the lack of one, is known: it is pushed, refused or queued again.
InflightIsResolved ==
    \A e \in Env : st[e] = "inflight" ~> st[e] # "inflight"
=============================================================================
