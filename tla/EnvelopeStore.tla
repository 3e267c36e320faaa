--------------------------- MODULE EnvelopeStore ---------------------------
(***************************************************************************)
(* The server half of the sync protocol for one book: the append-only      *)
(* `envelopes` table, the `store_seq` sequence that stamps every row, the  *)
(* store epoch, and the push transactions that are open at one moment.     *)
(*                                                                         *)
(* One push request is one database transaction (sync-push/index.ts).  It  *)
(* reads the caller's access and the book's usage once, judges its         *)
(* envelopes one by one, and becomes visible to pulls only when it         *)
(* commits.  Two row locks order the transactions: `push_rate` lets one    *)
(* transaction per device run, and the usage trigger's `book_usage` row    *)
(* lets one transaction per book hold inserted envelopes.  `nextval` is    *)
(* taken before that second lock, so `seq` order and commit order may      *)
(* differ.                                                                 *)
(***************************************************************************)
EXTENDS Naturals, FiniteSets

CONSTANTS
    Device,         \* the devices that sync this book
    Env,            \* the envelopes that may ever be authored in the book
    NoEnv,          \* "no envelope is being inserted"
    NoResponse,     \* "no answer is on its way to the device"
    Quota,          \* the plan's envelopes per book (08 section 2)
    Demotable,      \* devices whose member may lose the writer role
    MaxRestore,     \* bound: how often the store is restored from a backup
    MaxLoss         \* bound: dropped requests, answers, pages; refused rates

ASSUME EnvFinite      == IsFiniteSet(Env) /\ NoEnv \notin Env
ASSUME DemotableAssumption == Demotable \subseteq Device
ASSUME BoundsAreNat   == Quota \in Nat /\ MaxRestore \in Nat /\ MaxLoss \in Nat

VARIABLES
    store,          \* [Env -> Nat]: seq of a committed row, 0 while absent
    nextSeq,        \* what nextval('store_seq') returns next
    epoch,          \* store_epoch: the number of restores so far
    reqs,           \* push requests on the wire or being served
    response,       \* [Device -> the push answer travelling back]
    writer,         \* [Device -> does the member hold a writer role]
    overtaken,      \* history: rows that committed below a visible seq
    losses          \* losses so far (bounded by MaxLoss)

storeVars == <<store, nextSeq, epoch, reqs, response, writer, overtaken, losses>>

(***************************************************************************)
(* Shapes.  An outcome is the `result` of one envelope in the answer; a    *)
(* request carries the transaction's own reads (may, count) beside the     *)
(* envelopes it has still to judge.                                        *)
(***************************************************************************)
Kind == {"none", "acked", "rate_limited", "quota", "no_role"}
Outcome == [kind : Kind, seq : Nat]
Request == [dev : Device, live : BOOLEAN, begun : BOOLEAN, may : BOOLEAN,
            count : Nat, todo : SUBSET Env, res : [Env -> Outcome],
            cur : Env \cup {NoEnv}, seq : Nat]
Answer == [epoch : Nat, res : [Env -> Outcome]]

ASSUME NoResponseAssumption == NoResponse \notin Answer

Nothing == [kind |-> "none", seq |-> 0]
Said(k) == [kind |-> k, seq |-> 0]
Acked(s) == [kind |-> "acked", seq |-> s]

\* POST /sync-push with the envelopes of batch B, as it leaves device d.
NewRequest(d, B) ==
    [dev |-> d, live |-> TRUE, begun |-> FALSE, may |-> FALSE, count |-> 0,
     todo |-> B, res |-> [e \in Env |-> Nothing], cur |-> NoEnv, seq |-> 0]

Stored == {e \in Env : store[e] # 0}

\* The rows transaction r has inserted; they are invisible until it commits.
Inserted(r) == {e \in Env : r.res[e].kind = "acked" /\ store[e] = 0}

\* The usage trigger ran for r: it holds the book_usage row until it ends.
HoldsUsage(r) == Inserted(r) # {}

Replace(r, s) == reqs' = (reqs \ {r}) \cup {s}

StoreInit ==
    /\ store = [e \in Env |-> 0]
    /\ nextSeq = 1
    /\ epoch = 0
    /\ reqs = {}
    /\ response = [d \in Device |-> NoResponse]
    /\ writer = [d \in Device |-> TRUE]
    /\ overtaken = {}
    /\ losses = 0

\* The transaction starts: the device's push_rate row is locked and counted
\* (a second push of the same device waits for it), then the book access,
\* role and usage are read once for the whole batch.
BookAccess(r) ==
    /\ ~r.begun
    /\ \A q \in reqs : q.dev = r.dev => ~q.begun
    /\ Replace(r, [r EXCEPT !.begun = TRUE, !.may = writer[r.dev],
                            !.count = Cardinality(Stored)])
    /\ UNCHANGED <<store, nextSeq, epoch, response, writer, overtaken, losses>>

\* The per-device rate is exhausted: the whole batch is told to come back.
RateLimited(r) ==
    /\ ~r.begun /\ losses < MaxLoss
    /\ \A q \in reqs : q.dev = r.dev => ~q.begun
    /\ Replace(r, [r EXCEPT !.begun = TRUE, !.todo = {},
                     !.res = [e \in Env |-> IF e \in r.todo THEN Said("rate_limited")
                                                            ELSE @[e]]])
    /\ losses' = losses + 1
    /\ UNCHANGED <<store, nextSeq, epoch, response, writer, overtaken>>

\* r answers envelope e and goes on with the next one.
Judge(r, e, outcome) ==
    /\ r.begun /\ r.cur = NoEnv /\ e \in r.todo
    /\ Replace(r, [r EXCEPT !.todo = @ \ {e}, !.res[e] = outcome])
    /\ UNCHANGED <<store, nextSeq, epoch, response, writer, overtaken, losses>>

\* The member held no writer role when the transaction looked.
JudgeNoRole(r, e) == ~r.may /\ Judge(r, e, Said("no_role"))

\* One envelope more would pass the plan's cap.  The duplicate lookup comes
\* later, so an envelope the store already holds is refused like a new one.
JudgeQuota(r, e) == r.may /\ r.count + 1 > Quota /\ Judge(r, e, Said("quota"))

\* insertEnvelope finds the id already committed: acked with its first seq.
\* Mutant: acked with the sequence's next value.
JudgeDuplicateFresh(r, e) ==
    /\ r.may /\ r.count + 1 <= Quota /\ store[e] # 0
    /\ Judge(r, e, Acked(nextSeq))

JudgeDuplicate(r, e) ==
    /\ r.may /\ r.count + 1 <= Quota /\ store[e] # 0
    /\ Judge(r, e, Acked(store[e]))

\* Mutant: the seq is read, not drawn.
JudgeInsertPeeks(r, e) ==
    /\ r.begun /\ r.cur = NoEnv /\ e \in r.todo
    /\ r.may /\ r.count + 1 <= Quota /\ store[e] = 0
    /\ Replace(r, [r EXCEPT !.cur = e, !.seq = nextSeq])
    /\ UNCHANGED <<store, nextSeq, epoch, response, writer, overtaken, losses>>

\* insertEnvelope evaluates the column default nextval('store_seq').  Only its
\* author pushes an envelope, and one transaction of a device runs at a time,
\* so no other open transaction holds the id.
JudgeInsert(r, e) ==
    /\ r.begun /\ r.cur = NoEnv /\ e \in r.todo
    /\ r.may /\ r.count + 1 <= Quota /\ store[e] = 0 /\ writer[r.dev]
    /\ Replace(r, [r EXCEPT !.cur = e, !.seq = nextSeq])
    /\ nextSeq' = nextSeq + 1
    /\ UNCHANGED <<store, epoch, response, writer, overtaken, losses>>

\* The role was taken away since: the insert draws its seq, the row policy
\* refuses it, and the savepoint rolls this one row back.
InsertDenied(r, e) ==
    /\ r.begun /\ r.cur = NoEnv /\ e \in r.todo
    /\ r.may /\ r.count + 1 <= Quota /\ store[e] = 0 /\ ~writer[r.dev]
    /\ Replace(r, [r EXCEPT !.todo = @ \ {e}, !.res[e] = Said("no_role")])
    /\ nextSeq' = nextSeq + 1
    /\ UNCHANGED <<store, epoch, response, writer, overtaken, losses>>

\* The AFTER INSERT trigger upserts book_usage, which waits for any other
\* transaction that has already inserted into the book.
BumpUsage(r) ==
    /\ r.cur # NoEnv
    /\ \A q \in reqs \ {r} : ~HoldsUsage(q)
    /\ Replace(r, [r EXCEPT !.todo = @ \ {r.cur}, !.res[r.cur] = Acked(r.seq),
                            !.count = @ + 1, !.cur = NoEnv, !.seq = 0])
    /\ UNCHANGED <<store, nextSeq, epoch, response, writer, overtaken, losses>>

\* Every envelope is answered: commit, and answer the device if it still
\* listens.  Rows that land below a seq readers could already see are
\* remembered in the history variable.
Commit(r) ==
    /\ r.begun /\ r.todo = {}
    /\ reqs' = reqs \ {r}
    /\ store' = [e \in Env |-> IF e \in Inserted(r) THEN r.res[e].seq ELSE store[e]]
    /\ overtaken' = overtaken \cup
         {e \in Inserted(r) : \E f \in Env : store[f] >= r.res[e].seq}
    /\ response' = IF r.live
                   THEN [response EXCEPT ![r.dev] = [epoch |-> epoch, res |-> r.res]]
                   ELSE response
    /\ UNCHANGED <<nextSeq, epoch, writer, losses>>

\* The request never arrives, or its transaction rolls back.
Abort(r) ==
    /\ losses < MaxLoss
    /\ losses' = losses + 1
    /\ reqs' = reqs \ {r}
    /\ UNCHANGED <<store, nextSeq, epoch, response, writer, overtaken>>

\* Mutant: open transactions live through it.
RestoreKeepsOpen ==
    /\ epoch < MaxRestore
    /\ epoch' = epoch + 1
    /\ \E kept \in SUBSET Stored :
         /\ store' = [e \in Env |-> IF e \in kept THEN store[e] ELSE 0]
         /\ nextSeq' \in {n \in 1 .. nextSeq : \A e \in kept : store[e] < n}
    /\ overtaken' = {}
    /\ UNCHANGED <<reqs, response, writer, losses>>

\* The store is rebuilt from a backup and bump_store_epoch runs: some rows
\* are gone (any subset, which covers every commit prefix), the sequence may
\* have gone back with them, open transactions are dead.
Restore ==
    /\ epoch < MaxRestore
    /\ epoch' = epoch + 1
    /\ \E kept \in SUBSET Stored :
         /\ store' = [e \in Env |-> IF e \in kept THEN store[e] ELSE 0]
         /\ nextSeq' \in {n \in 1 .. nextSeq : \A e \in kept : store[e] < n}
    /\ reqs' = {r \in reqs : ~r.begun}
    /\ overtaken' = {}
    /\ UNCHANGED <<response, writer, losses>>

\* A book_role record takes the writer role from the device's member.
Demote(d) ==
    /\ d \in Demotable /\ writer[d]
    /\ writer' = [writer EXCEPT ![d] = FALSE]
    /\ UNCHANGED <<store, nextSeq, epoch, reqs, response, overtaken, losses>>

\* One step of the transaction that serves request r.
Serve(r) ==
    \/ BookAccess(r)
    \/ \E e \in Env : \/ JudgeNoRole(r, e)
                      \/ JudgeQuota(r, e)
                      \/ JudgeDuplicate(r, e)
                      \/ JudgeInsert(r, e)
                      \/ InsertDenied(r, e)
    \/ BumpUsage(r)
    \/ Commit(r)

StoreTypeOK ==
    /\ store \in [Env -> Nat]
    /\ nextSeq \in Nat \ {0}
    /\ epoch \in 0 .. MaxRestore
    /\ reqs \in SUBSET Request
    /\ response \in [Device -> Answer \cup {NoResponse}]
    /\ writer \in [Device -> BOOLEAN]
    /\ overtaken \in SUBSET Env
    /\ losses \in 0 .. MaxLoss
=============================================================================
