-------------------------- MODULE SyncEngineProofs --------------------------
(***************************************************************************)
(* Theorems about SyncEngine for every set of devices and envelopes, every *)
(* quota and every bound.                                                  *)
(***************************************************************************)
EXTENDS SyncInvariant, FiniteSetTheorems, TLAPS

-----------------------------------------------------------------------------
(***************************************************************************)
(* The server half: types, step by step, and the two facts the device half *)
(* rests on: a committed row keeps its seq until a restore, and a row that *)
(* commits at or below a visible seq is recorded as overtaken.             *)
(***************************************************************************)

\* Replacing a request by a well-formed one keeps the set well formed.
LEMMA ReplaceType ==
    ASSUME reqs \in SUBSET Request, NEW r, NEW s \in Request, Replace(r, s)
    PROVE  reqs' \in SUBSET Request
BY DEF Replace

\* The number of stored rows is a number.
LEMMA StoredCount == Cardinality(Stored) \in Nat
<1>1. IsFiniteSet(Stored)
  BY EnvFinite, FS_Subset DEF Stored
<1> QED BY <1>1, FS_CardinalityType

\* The shapes the server builds.
LEMMA OutcomeType ==
    /\ Nothing \in Outcome
    /\ \A k \in Kind : Said(k) \in Outcome
    /\ \A s \in Nat : Acked(s) \in Outcome
BY DEF Nothing, Said, Acked, Outcome, Kind

LEMMA NewRequestType ==
    ASSUME NEW d \in Device, NEW B \in SUBSET Env
    PROVE  NewRequest(d, B) \in Request
<1>1. [e \in Env |-> Nothing] \in [Env -> Outcome]
  BY OutcomeType
<1> QED BY <1>1 DEF NewRequest, Request

\* Judging an envelope keeps the request well formed.
LEMMA JudgeType ==
    ASSUME StoreTypeOK, NEW r \in reqs, NEW e \in Env, NEW o \in Outcome,
           Judge(r, e, o)
    PROVE  StoreTypeOK'
<1>1. [r EXCEPT !.todo = @ \ {e}, !.res[e] = o] \in Request
  <2>1. r \in Request
    BY DEF StoreTypeOK
  <2> QED BY <2>1 DEF Request
<1>2. reqs' \in SUBSET Request
  BY <1>1, ReplaceType DEF Judge, StoreTypeOK
<1> QED BY <1>2 DEF Judge, StoreTypeOK

\* Every step of the transaction that serves a request.
LEMMA ServeType ==
    ASSUME StoreTypeOK, NEW r \in reqs, Serve(r)
    PROVE  StoreTypeOK'
<1>0. r \in Request
  BY DEF StoreTypeOK
<1>1. CASE BookAccess(r)
  <2>1. [r EXCEPT !.begun = TRUE, !.may = writer[r.dev],
                  !.count = Cardinality(Stored)] \in Request
    BY <1>0, StoredCount DEF Request, StoreTypeOK
  <2>2. reqs' \in SUBSET Request
    BY <1>1, <2>1, ReplaceType DEF BookAccess, StoreTypeOK
  <2> QED BY <1>1, <2>2 DEF BookAccess, StoreTypeOK
<1>2. CASE \E e \in Env : JudgeNoRole(r, e) \/ JudgeQuota(r, e) \/ JudgeDuplicate(r, e)
  <2>1. PICK e \in Env : JudgeNoRole(r, e) \/ JudgeQuota(r, e) \/ JudgeDuplicate(r, e)
    BY <1>2
  <2>2. /\ Said("no_role") \in Outcome /\ Said("quota") \in Outcome
        /\ Acked(store[e]) \in Outcome
    BY OutcomeType DEF Kind, StoreTypeOK
  <2>3. CASE JudgeNoRole(r, e)
    BY <2>2, <2>3, JudgeType DEF JudgeNoRole
  <2>4. CASE JudgeQuota(r, e)
    BY <2>2, <2>4, JudgeType DEF JudgeQuota
  <2>5. CASE JudgeDuplicate(r, e)
    BY <2>2, <2>5, JudgeType DEF JudgeDuplicate
  <2> QED BY <2>1, <2>3, <2>4, <2>5
<1>3. CASE \E e \in Env : JudgeInsert(r, e)
  <2>1. PICK e \in Env : JudgeInsert(r, e)
    BY <1>3
  <2>2. [r EXCEPT !.cur = e, !.seq = nextSeq] \in Request
    BY <1>0 DEF Request, StoreTypeOK
  <2>3. reqs' \in SUBSET Request
    BY <2>1, <2>2, ReplaceType DEF JudgeInsert, StoreTypeOK
  <2> QED BY <2>1, <2>3 DEF JudgeInsert, StoreTypeOK
<1>6. CASE \E e \in Env : InsertDenied(r, e)
  <2>1. PICK e \in Env : InsertDenied(r, e)
    BY <1>6
  <2>2. Said("no_role") \in Outcome
    BY OutcomeType DEF Kind
  <2>3. [r EXCEPT !.todo = @ \ {e}, !.res[e] = Said("no_role")] \in Request
    BY <1>0, <2>2 DEF Request
  <2>4. reqs' \in SUBSET Request
    BY <2>1, <2>3, ReplaceType DEF InsertDenied, StoreTypeOK
  <2> QED BY <2>1, <2>4 DEF InsertDenied, StoreTypeOK
<1>4. CASE BumpUsage(r)
  <2>1. Acked(r.seq) \in Outcome
    BY <1>0, OutcomeType DEF Request
  <2>2. [r EXCEPT !.todo = @ \ {r.cur}, !.res[r.cur] = Acked(r.seq),
                  !.count = @ + 1, !.cur = NoEnv, !.seq = 0] \in Request
    <3>1. r.cur \in Env /\ r.todo \ {r.cur} \in SUBSET Env /\ r.count + 1 \in Nat
      BY <1>0, <1>4 DEF Request, BumpUsage
    <3>2. [r.res EXCEPT ![r.cur] = Acked(r.seq)] \in [Env -> Outcome]
      BY <1>0, <2>1 DEF Request
    <3> QED BY <1>0, <3>1, <3>2 DEF Request
  <2>3. reqs' \in SUBSET Request
    BY <1>4, <2>2, ReplaceType DEF BumpUsage, StoreTypeOK
  <2> QED BY <1>4, <2>3 DEF BumpUsage, StoreTypeOK
<1>5. CASE Commit(r)
  <2>1. \A e \in Env : r.res[e].seq \in Nat
    BY <1>0 DEF Request, Outcome
  <2>2. store' \in [Env -> Nat] /\ overtaken' \in SUBSET Env
    BY <1>5, <2>1 DEF Commit, StoreTypeOK, Inserted
  <2>3. [epoch |-> epoch, res |-> r.res] \in Answer
    BY <1>0 DEF Answer, Request, StoreTypeOK
  <2>4. response' \in [Device -> Answer \cup {NoResponse}]
    BY <1>5, <2>3 DEF Commit, StoreTypeOK
  <2> QED BY <1>5, <2>2, <2>4 DEF Commit, StoreTypeOK
<1> QED BY <1>1, <1>2, <1>3, <1>4, <1>5, <1>6 DEF Serve

\* A refused rate and a lost request.
LEMMA LossType ==
    ASSUME StoreTypeOK, NEW r \in reqs, RateLimited(r) \/ Abort(r)
    PROVE  StoreTypeOK'
<1>0. r \in Request /\ MaxLoss \in Nat
  BY BoundsAreNat DEF StoreTypeOK
<1>1. CASE RateLimited(r)
  <2>1. Said("rate_limited") \in Outcome
    BY OutcomeType DEF Kind
  <2>2. [e \in Env |-> IF e \in r.todo THEN Said("rate_limited") ELSE r.res[e]]
            \in [Env -> Outcome]
    BY <1>0, <2>1 DEF Request
  <2>3. [r EXCEPT !.begun = TRUE, !.todo = {},
          !.res = [e \in Env |-> IF e \in r.todo THEN Said("rate_limited") ELSE @[e]]]
            \in Request
    BY <1>0, <2>2 DEF Request
  <2>4. reqs' \in SUBSET Request
    BY <1>1, <2>3, ReplaceType DEF RateLimited, StoreTypeOK
  <2> QED BY <1>0, <1>1, <2>4 DEF RateLimited, StoreTypeOK
<1>2. CASE Abort(r)
  BY <1>0, <1>2 DEF Abort, StoreTypeOK
<1> QED BY <1>1, <1>2

\* A restore from a backup.
LEMMA RestoreType ==
    ASSUME StoreTypeOK, Restore
    PROVE  StoreTypeOK'
<1>1. PICK kept \in SUBSET Stored :
         /\ store' = [e \in Env |-> IF e \in kept THEN store[e] ELSE 0]
         /\ nextSeq' \in {n \in 1 .. nextSeq : \A e \in kept : store[e] < n}
  BY DEF Restore
<1>2. store' \in [Env -> Nat] /\ nextSeq' \in Nat \ {0}
  BY <1>1 DEF StoreTypeOK
<1>3. epoch' \in 0 .. MaxRestore
  BY BoundsAreNat DEF Restore, StoreTypeOK
<1> QED BY <1>2, <1>3 DEF Restore, StoreTypeOK

\* A demotion.
LEMMA DemoteType ==
    ASSUME StoreTypeOK, NEW d \in Device, Demote(d)
    PROVE  StoreTypeOK'
BY DEF Demote, StoreTypeOK

\* What a step of an open transaction, or its loss, means to the readers.
LEMMA ServeFacts ==
    ASSUME StoreTypeOK, NEW r \in reqs, Serve(r) \/ RateLimited(r) \/ Abort(r)
    PROVE  /\ epoch' = epoch
           /\ \A e \in Env : store[e] # 0 => store'[e] = store[e]
           /\ overtaken \subseteq overtaken'
           /\ \A e, f \in Env :
                store[e] = 0 /\ store'[e] # 0 /\ store[f] >= store'[e] => e \in overtaken'
           /\ \A d \in Device : response'[d] # response[d] => response'[d].epoch = epoch
<1>1. CASE Commit(r)
  <2>1. \A e \in Env : store'[e] = IF e \in Inserted(r) THEN r.res[e].seq ELSE store[e]
    BY <1>1 DEF Commit
  <2>2. \A e \in Inserted(r) : store[e] = 0
    BY DEF Inserted
  <2>3. overtaken' = overtaken \cup
          {e \in Inserted(r) : \E f \in Env : store[f] >= r.res[e].seq}
    BY <1>1 DEF Commit
  <2>4. \A d \in Device : response'[d] # response[d] => response'[d].epoch = epoch
    BY <1>1 DEF Commit, StoreTypeOK
  <2>5. \A e, f \in Env :
           store[e] = 0 /\ store'[e] # 0 /\ store[f] >= store'[e] => e \in overtaken'
    BY <2>1, <2>3
  <2>6. epoch' = epoch
    BY <1>1 DEF Commit
  <2> QED BY <2>1, <2>2, <2>3, <2>4, <2>5, <2>6
<1>2. CASE UNCHANGED <<store, epoch, overtaken, response>>
  BY <1>2
<1>3. Commit(r) \/ UNCHANGED <<store, epoch, overtaken, response>>
  BY DEF Serve, BookAccess, JudgeNoRole, JudgeQuota, JudgeDuplicate, JudgeInsert, InsertDenied, Judge,
         BumpUsage, RateLimited, Abort
<1> QED BY <1>1, <1>2, <1>3

USE AuthorAssumption, SealedAssumption, EngineBounds

-----------------------------------------------------------------------------
(***************************************************************************)
(* Type correctness.                                                       *)
(***************************************************************************)

\* Recording an epoch is type-correct.
LEMMA ObserveEpochType ==
    ASSUME TypeOK, NEW d \in Device, NEW ep \in Nat, ObserveEpoch(d, ep)
    PROVE  /\ st' \in [Env -> RowState]
           /\ ackedSeq' \in [Env -> Nat]
           /\ devEpoch' \in [Device -> Nat]
           /\ cursor' \in [Device -> Nat]
BY DEF ObserveEpoch, TypeOK, RowState

\* The device halves of the steps that leave the store alone.
LEMMA RoundType ==
    ASSUME TypeOK, NEW d \in Device,
           \/ StartRound(d) \/ KeyArrives(d) \/ DrainKeyWait(d) \/ SkipPush(d) \/ ReceivePush(d)
           \/ RestartPull(d) \/ StorePage(d) \/ KeepPulling(d) \/ SetCursor(d)
           \/ ReadYourWrites(d) \/ Prune(d) \/ BackoffOver(d) \/ ResumeBook(d)
    PROVE  TypeOK'
<1>0. /\ epoch \in Nat
      /\ page[d] \in Page
      /\ NoPage \in Page /\ NoSeq \in [Env -> Nat]
  BY BoundsAreNat DEF TypeOK, StoreTypeOK, Page, NoPage, NoSeq
<1>1. CASE StartRound(d)
  BY <1>0, <1>1, ObserveEpochType DEF StartRound, TypeOK, StoreTypeOK, storeVars, Stage
<1>2. CASE KeyArrives(d)
  BY <1>2 DEF KeyArrives, TypeOK, StoreTypeOK, storeVars, memVars
<1>12. CASE DrainKeyWait(d)
  <2>1. PICK e \in Waiting(d) :
           /\ have' = [have EXCEPT ![d] = @ \cup {e}]
           /\ mirrorSeq' = [mirrorSeq EXCEPT ![d][e] = IF e \in have[d] THEN @ ELSE waitSeq[d][e]]
           /\ waitSeq' = [waitSeq EXCEPT ![d][e] = 0]
    BY <1>12 DEF DrainKeyWait
  <2>2. e \in Env
    BY DEF Waiting
  <2>3. mirrorSeq' \in [Device -> [Env -> Nat]] /\ waitSeq' \in [Device -> [Env -> Nat]]
    BY <2>1, <2>2 DEF TypeOK
  <2> QED BY <1>12, <2>1, <2>2, <2>3 DEF DrainKeyWait, TypeOK, StoreTypeOK, storeVars
<1>3. CASE SkipPush(d)
  BY <1>3 DEF SkipPush, BeginPull, TypeOK, StoreTypeOK, storeVars, dbVars, Stage
<1>4. CASE ReceivePush(d)
  <2>1. response[d].epoch \in Nat
    BY <1>4 DEF ReceivePush, TypeOK, StoreTypeOK, Answer
  <2> QED BY <1>4, <2>1, ObserveEpochType DEF ReceivePush, TypeOK, StoreTypeOK, storeVars, Stage
<1>5. CASE RestartPull(d)
  <2>1. page[d].epoch \in Nat
    BY <1>0 DEF Page
  <2> QED BY <1>0, <1>5, <2>1, ObserveEpochType
          DEF RestartPull, TypeOK, StoreTypeOK, storeVars, Stage
<1>6. CASE StorePage(d)
  <2>1. page[d].seq \in [Env -> Nat]
    BY <1>0 DEF Page
  <2>2. st' \in [Env -> RowState] /\ ackedSeq' \in [Env -> Nat]
    BY <1>6, <2>1 DEF StorePage, TypeOK, RowState
  <2>3. have' \in [Device -> SUBSET Env]
    BY <1>6 DEF StorePage, TypeOK, Admitted, OnPage
  <2>4. mirrorSeq' \in [Device -> [Env -> Nat]] /\ waitSeq' \in [Device -> [Env -> Nat]]
    BY <1>6, <2>1 DEF StorePage, TypeOK
  <2> QED BY <1>6, <2>2, <2>3, <2>4 DEF StorePage, TypeOK, StoreTypeOK, storeVars, Stage
<1>7. CASE KeepPulling(d)
  <2>1. page[d].epoch \in Nat
    BY <1>0 DEF Page
  <2> QED BY <1>7, <2>1, ObserveEpochType
          DEF KeepPulling, TypeOK, StoreTypeOK, storeVars, memVars
<1>8. CASE SetCursor(d)
  <2>1. page[d].next \in Nat /\ after[d] \in Nat /\ cursor[d] \in Nat
    BY <1>0 DEF Page, TypeOK
  <2>2. \A a \in Nat : \A f \in Floors(d, a) : f \in Nat
    <3>1. \A e \in Waiting(d) : waitSeq[d][e] \in Nat /\ waitSeq[d][e] # 0
      BY DEF Waiting, TypeOK
    <3>2. \A e \in Waiting(d) : waitSeq[d][e] - 1 \in Nat
      BY <3>1
    <3> QED BY <3>2 DEF Floors
  <2>3. after' \in [Device -> Nat] /\ cursor' \in [Device -> Nat]
    BY <1>8, <2>1, <2>2 DEF SetCursor, TypeOK
  <2> QED BY <1>0, <1>8, <2>3 DEF SetCursor, TypeOK, StoreTypeOK, storeVars, Stage
<1>9. CASE ReadYourWrites(d)
  BY <1>9 DEF ReadYourWrites, TypeOK, StoreTypeOK, storeVars, Stage, RowState
<1>10. CASE Prune(d)
  BY <1>10 DEF Prune, TypeOK, StoreTypeOK, storeVars, Stage, RowState
<1>11. CASE BackoffOver(d) \/ ResumeBook(d)
  BY <1>11 DEF BackoffOver, ResumeBook, TypeOK, StoreTypeOK, storeVars, dbVars
<1> QED BY <1>1, <1>2, <1>3, <1>4, <1>5, <1>6, <1>7, <1>8, <1>9, <1>10, <1>11, <1>12

\* Requests nobody listens for any more are requests still.
LEMMA OrphanedType ==
    ASSUME TypeOK, NEW d \in Device
    PROVE  Orphaned(d) \in SUBSET Request
<1>1. reqs \in SUBSET Request
  BY DEF TypeOK, StoreTypeOK
<1>2. \A r \in Request : [r EXCEPT !.live = FALSE] \in Request
  BY DEF Request
<1> QED BY <1>1, <1>2 DEF Orphaned

\* The steps that touch the wire.
LEMMA WireType ==
    ASSUME TypeOK, NEW d \in Device,
           Push(d) \/ PushFailed(d) \/ PushRefused(d) \/ PushDone(d)
    PROVE  TypeOK'
<1>0. losses \in 0 .. MaxLoss /\ MaxLoss \in Nat
  BY BoundsAreNat DEF TypeOK, StoreTypeOK
<1>1. Orphaned(d) \in SUBSET Request
  BY OrphanedType
<1>2. CASE Push(d)
  <2>1. PICK b \in SUBSET OwnIn(d, "queued") :
           /\ st' = [e \in Env |-> IF e \in b THEN "inflight" ELSE st[e]]
           /\ batch' = [batch EXCEPT ![d] = b]
           /\ reqs' = reqs \cup {NewRequest(d, b)}
    BY <1>2 DEF Push
  <2>2. b \in SUBSET Env
    BY DEF OwnIn, Own
  <2>3. reqs' \in SUBSET Request
    BY <2>1, <2>2, NewRequestType DEF TypeOK, StoreTypeOK
  <2> QED BY <1>2, <2>1, <2>2, <2>3 DEF Push, TypeOK, StoreTypeOK, Stage, RowState
<1>3. CASE PushFailed(d)
  <2>1. losses' \in 0 .. MaxLoss
    BY <1>0, <1>3 DEF PushFailed
  <2>2. st' \in [Env -> RowState] /\ ackedSeq' \in [Env -> Nat]
    BY <1>3 DEF PushFailed, GiveUpBatch, TypeOK, RowState
  <2> QED BY <1>1, <1>3, <2>1, <2>2
          DEF PushFailed, GiveUpBatch, TypeOK, StoreTypeOK, Stage
<1>4. CASE PushRefused(d)
  <2>1. losses' \in 0 .. MaxLoss
    BY <1>0, <1>4 DEF PushRefused
  <2>2. st' \in [Env -> RowState] /\ ackedSeq' \in [Env -> Nat]
    BY <1>4 DEF PushRefused, GiveUpBatch, TypeOK, RowState
  <2>3. reqs' \in SUBSET Request
    BY <1>4 DEF PushRefused, TypeOK, StoreTypeOK
  <2> QED BY <1>4, <2>1, <2>2, <2>3
          DEF PushRefused, GiveUpBatch, BeginPull, TypeOK, StoreTypeOK, Stage
<1>5. CASE PushDone(d)
  <2>1. \/ pc' = [pc EXCEPT ![d] = "push"] /\ UNCHANGED <<after, restarts>>
        \/ BeginPull(d)
    BY <1>5 DEF PushDone
  <2>2. /\ pc' \in [Device -> Stage] /\ after' \in [Device -> Nat]
        /\ restarts' \in [Device -> BOOLEAN]
    <3>1. CASE BeginPull(d)
      BY <3>1 DEF BeginPull, TypeOK, Stage
    <3>2. CASE pc' = [pc EXCEPT ![d] = "push"] /\ UNCHANGED <<after, restarts>>
      BY <3>2 DEF TypeOK, Stage
    <3> QED BY <2>1, <3>1, <3>2
  <2> QED BY <1>5, <2>2 DEF PushDone, TypeOK, StoreTypeOK, dbVars
<1> QED BY <1>2, <1>3, <1>4, <1>5

\* One result of a push answer.
LEMMA HandleType ==
    ASSUME TypeInv, NEW d \in Device, NEW e \in Env,
           \/ HandleAcked(d, e) \/ HandleRateLimited(d, e)
           \/ HandleQuota(d, e) \/ HandleNoRole(d, e)
    PROVE  TypeOK'
<1>1. CASE HandleAcked(d, e)
  <2>1. response[d] \in Answer
    BY <1>1 DEF TypeInv, TypeOK, StoreTypeOK, AnswerInHand, HandleAcked, Handle
  <2>2. response[d].res[e].seq \in Nat
    BY <2>1 DEF Answer, Outcome
  <2> QED BY <1>1, <2>2
          DEF TypeInv, HandleAcked, Handle, TypeOK, StoreTypeOK, storeVars, RowState
<1>2. CASE HandleRateLimited(d, e)
  BY <1>2 DEF TypeInv, HandleRateLimited, Handle, TypeOK, StoreTypeOK, storeVars, RowState
<1>3. CASE HandleQuota(d, e)
  BY <1>3 DEF TypeInv, HandleQuota, Handle, TypeOK, StoreTypeOK, storeVars, RowState
<1>4. CASE HandleNoRole(d, e)
  BY <1>4 DEF TypeInv, HandleNoRole, Handle, TypeOK, StoreTypeOK, storeVars, RowState
<1> QED BY <1>1, <1>2, <1>3, <1>4

\* A page is answered, or not.
LEMMA PullType ==
    ASSUME TypeOK, NEW d \in Device, ServePull(d) \/ PullFailed(d)
    PROVE  TypeOK'
<1>0. losses \in 0 .. MaxLoss /\ MaxLoss \in Nat /\ store \in [Env -> Nat] /\ epoch \in Nat
  BY BoundsAreNat DEF TypeOK, StoreTypeOK
<1>1. CASE ServePull(d)
  <2>1. PICK run \in SUBSET Behind(d) :
         /\ IsRun(d, run)
         /\ \/ /\ run = {} /\ Behind(d) = {}
               /\ Answered(d, run, after[d], FALSE)
               /\ losses' = losses
            \/ \E e \in run :
                 /\ IsRun(d, run \ {e})
                 /\ Answered(d, run, store[e], FALSE)
                 /\ losses' = losses
            \/ \E bad \in Behind(d) \ run :
                 /\ IsRun(d, run \cup {bad})
                 /\ Answered(d, run, store[bad] - 1, TRUE)
                 /\ losses < MaxLoss /\ losses' = losses + 1
    BY <1>1 DEF ServePull
  <2>2. losses' \in 0 .. MaxLoss
    <3>1. losses' = losses \/ (losses < MaxLoss /\ losses' = losses + 1)
      BY <2>1
    <3> QED BY <1>0, <3>1
  <2>3. \E next \in Nat, last \in BOOLEAN : Answered(d, run, next, last)
    <3>1. after[d] \in Nat
      BY DEF TypeOK
    <3>2. \A e \in Behind(d) : store[e] \in Nat /\ store[e] - 1 \in Nat
      BY <1>0, <3>1 DEF Behind
    <3> QED BY <2>1, <3>1, <3>2
  <2>4. PICK next \in Nat, last \in BOOLEAN : Answered(d, run, next, last)
    BY <2>3
  <2>5. [epoch |-> epoch, seq |-> [e \in Env |-> IF e \in run THEN store[e] ELSE 0],
         next |-> next, last |-> last] \in Page
    BY <1>0 DEF Page
  <2>6. page' \in [Device -> Page]
    BY <2>4, <2>5 DEF Answered, TypeOK
  <2> QED BY <1>1, <2>2, <2>6 DEF ServePull, TypeOK, StoreTypeOK, dbVars, Stage
<1>2. CASE PullFailed(d)
  BY <1>0, <1>2 DEF PullFailed, TypeOK, StoreTypeOK, dbVars, Stage
<1> QED BY <1>1, <1>2

\* A saved entry.
LEMMA SaveType ==
    ASSUME TypeOK, NEW e \in Env, Save(e)
    PROVE  TypeOK'
BY DEF Save, TypeOK, StoreTypeOK, storeVars, memVars, RowState

\* A crash.
LEMMA CrashType ==
    ASSUME TypeOK, NEW d \in Device, Crash(d)
    PROVE  TypeOK'
<1>1. Orphaned(d) \in SUBSET Request
  BY OrphanedType
<1>2. NoPage \in Page /\ NoSeq \in [Env -> Nat]
  BY DEF Page, NoPage, NoSeq
<1>3. crashes' \in 0 .. MaxCrash
  BY DEF Crash, TypeOK
<1> QED BY <1>1, <1>2, <1>3 DEF Crash, TypeOK, StoreTypeOK, dbVars, Stage

\* The steps of the store alone.
LEMMA StoreStepType ==
    ASSUME TypeOK, StoreTypeOK', UNCHANGED <<dbVars, memVars>>
    PROVE  TypeOK'
BY DEF TypeOK, dbVars, memVars

\* Every step of the system.
LEMMA NextType ==
    ASSUME TypeInv, [Next]_vars
    PROVE  TypeOK'
<1>0. TypeOK
  BY DEF TypeInv
<1>1. CASE \E e \in Env : Save(e)
  BY <1>0, <1>1, SaveType
<1>2. CASE \E d \in Device : DeviceStep(d) \/ KeyArrives(d) \/ PushFailed(d)
                           \/ BackoffOver(d) \/ ResumeBook(d)
  BY <1>0, <1>2, RoundType, WireType, HandleType, PullType DEF DeviceStep
<1>3. CASE ServerStep
  <2>1. PICK r \in reqs : Serve(r) /\ UNCHANGED <<dbVars, memVars>>
    BY <1>3 DEF ServerStep
  <2>2. StoreTypeOK'
    BY <1>0, <2>1, ServeType DEF TypeOK
  <2> QED BY <1>0, <2>1, <2>2, StoreStepType
<1>4. CASE Trouble
  <2>1. CASE \E r \in reqs : (RateLimited(r) \/ Abort(r)) /\ UNCHANGED <<dbVars, memVars>>
    <3>1. StoreTypeOK'
      BY <1>0, <2>1, LossType DEF TypeOK
    <3> QED BY <1>0, <2>1, <3>1, StoreStepType
  <2>2. CASE \E d \in Device : PushRefused(d) \/ PullFailed(d) \/ Crash(d)
    BY <1>0, <2>2, WireType, PullType, CrashType
  <2>3. CASE \E d \in Device : Demote(d) /\ UNCHANGED <<dbVars, memVars>>
    <3>1. StoreTypeOK'
      BY <1>0, <2>3, DemoteType DEF TypeOK
    <3> QED BY <1>0, <2>3, <3>1, StoreStepType
  <2>4. CASE RestoreStore
    <3>1. StoreTypeOK' /\ UNCHANGED <<dbVars, memVars>>
      BY <1>0, <2>4, RestoreType DEF TypeOK, RestoreStore
    <3> QED BY <1>0, <3>1, StoreStepType
  <2> QED BY <1>4, <2>1, <2>2, <2>3, <2>4 DEF Trouble
<1>5. CASE UNCHANGED vars
  BY <1>0, <1>5 DEF vars, storeVars, dbVars, memVars, TypeOK, StoreTypeOK
<1> QED BY <1>1, <1>2, <1>3, <1>4, <1>5 DEF Next

\* The answer stays in hand while its results are handled.
LEMMA NextAnswer ==
    ASSUME TypeInv, [Next]_vars
    PROVE  (\A d \in Device : AnswerInHand(d))'
<1> SUFFICES ASSUME NEW c \in Device, pc'[c] = "results"
             PROVE  response'[c] # NoResponse
  BY DEF AnswerInHand
<1>0. /\ pc[c] = "results" => response[c] # NoResponse
      /\ pc \in [Device -> Stage] /\ response \in [Device -> Answer \cup {NoResponse}]
      /\ reqs \in SUBSET Request /\ epoch \in Nat
  BY BoundsAreNat DEF TypeInv, AnswerInHand, TypeOK, StoreTypeOK
<1>1. ASSUME NEW d \in Device, DeviceStep(d) \/ PushFailed(d) \/ PushRefused(d) \/ Crash(d)
      PROVE  response'[c] # NoResponse
  <2>1. CASE ReceivePush(d)
    BY <1>0, <2>1 DEF ReceivePush, storeVars
  <2>2. CASE PushDone(d)
    BY <1>0, <2>2 DEF PushDone, BeginPull
  <2>3. CASE PushFailed(d) \/ PushRefused(d)
    BY <1>0, <2>3 DEF PushFailed, PushRefused, GiveUpBatch, BeginPull
  <2>4. CASE Crash(d)
    BY <1>0, <2>4 DEF Crash
  <2>5. CASE \E e \in Env : \/ HandleAcked(d, e) \/ HandleRateLimited(d, e)
                            \/ HandleQuota(d, e) \/ HandleNoRole(d, e)
    BY <1>0, <2>5 DEF HandleAcked, HandleRateLimited, HandleQuota, HandleNoRole, Handle,
                      storeVars
  <2>6. CASE StartRound(d) \/ DrainKeyWait(d) \/ Push(d) \/ SkipPush(d)
    BY <1>0, <2>6 DEF StartRound, DrainKeyWait, Push, SkipPush, BeginPull, storeVars
  <2>7. CASE ServePull(d) \/ RestartPull(d) \/ StorePage(d) \/ KeepPulling(d)
    BY <1>0, <2>7 DEF ServePull, RestartPull, StorePage, KeepPulling, storeVars, memVars
  <2>8. CASE SetCursor(d) \/ ReadYourWrites(d) \/ Prune(d)
    BY <1>0, <2>8 DEF SetCursor, ReadYourWrites, Prune, storeVars
  <2> QED BY <1>1, <2>1, <2>2, <2>3, <2>4, <2>5, <2>6, <2>7, <2>8 DEF DeviceStep
<1>2. ASSUME NEW d \in Device, KeyArrives(d) \/ PullFailed(d) \/ BackoffOver(d) \/ ResumeBook(d)
      PROVE  response'[c] # NoResponse
  BY <1>0, <1>2 DEF KeyArrives, PullFailed, BackoffOver, ResumeBook, storeVars, dbVars, memVars
<1>4. ASSUME NEW e \in Env, Save(e) PROVE response'[c] # NoResponse
  BY <1>0, <1>4 DEF Save, storeVars, memVars
<1>5. ASSUME NEW r \in reqs, Serve(r) \/ RateLimited(r) \/ Abort(r),
             UNCHANGED <<dbVars, memVars>>
      PROVE  response'[c] # NoResponse
  <2>1. CASE Commit(r)
    <3>1. [epoch |-> epoch, res |-> r.res] \in Answer
      BY <1>0 DEF Answer, Request
    <3> QED BY <1>0, <1>5, <2>1, <3>1, NoResponseAssumption DEF Commit, memVars
  <2>2. CASE UNCHANGED response
    BY <1>0, <1>5, <2>2 DEF memVars
  <2> QED BY <1>5, <2>1, <2>2
          DEF Serve, BookAccess, JudgeNoRole, JudgeQuota, JudgeDuplicate, JudgeInsert, InsertDenied, Judge,
              BumpUsage, RateLimited, Abort
<1>6. ASSUME NEW d \in Device, Demote(d), UNCHANGED <<dbVars, memVars>>
      PROVE  response'[c] # NoResponse
  BY <1>0, <1>6 DEF Demote, memVars
<1>7. ASSUME RestoreStore PROVE response'[c] # NoResponse
  BY <1>0, <1>7 DEF RestoreStore, Restore, memVars
<1>8. CASE UNCHANGED vars
  BY <1>0, <1>8 DEF vars, storeVars, memVars
<1> QED BY <1>1, <1>2, <1>4, <1>5, <1>6, <1>7, <1>8 DEF Next, ServerStep, Trouble

\* The initial states.
LEMMA InitType == Init => TypeInv
<1> SUFFICES ASSUME Init PROVE TypeInv
  OBVIOUS
<1>1. StoreTypeOK
  BY BoundsAreNat DEF Init, StoreInit, StoreTypeOK
<1>2. NoPage \in Page /\ NoSeq \in [Env -> Nat]
  BY DEF Page, NoPage, NoSeq
<1>3. TypeOK
  BY <1>1, <1>2 DEF Init, TypeOK, RowState, Stage
<1>4. \A d \in Device : AnswerInHand(d)
  BY DEF Init, AnswerInHand
<1> QED BY <1>3, <1>4 DEF TypeInv

\* Every variable holds a value of its kind in every reachable state, whatever
\* is lost, refused, restored or restarted.
THEOREM TypeCorrect == Spec => []TypeOK
<1>1. Init => TypeInv
  BY InitType
<1>2. TypeInv /\ [Next]_vars => TypeInv'
  BY NextType, NextAnswer DEF TypeInv
<1>3. TypeInv => TypeOK
  BY DEF TypeInv
<1> QED BY <1>1, <1>2, <1>3, PTL DEF Spec

-----------------------------------------------------------------------------
(***************************************************************************)
(* No silent skip.  The first lemmas are about one device c, by what a     *)
(* step does to it: nothing, a commit or a restore it does not notice, a   *)
(* move out of the pull loop, a move into it, an epoch recorded.           *)
(***************************************************************************)

\* The types the device lemmas use.
LEMMA DeviceTypes ==
    ASSUME TypeOK, NEW c \in Device
    PROVE  /\ store \in [Env -> Nat] /\ epoch \in Nat /\ overtaken \in SUBSET Env
           /\ devEpoch[c] \in Nat /\ cursor[c] \in Nat /\ after[c] \in Nat
           /\ page[c] \in Page /\ waitSeq[c] \in [Env -> Nat]
           /\ have[c] \in SUBSET Env
           /\ response[c] # NoResponse => response[c].epoch \in Nat
           /\ pc[c] \in Stage
BY BoundsAreNat DEF TypeOK, StoreTypeOK, Answer

\* The step is none of c's business, unless an answer to c, or a row c saves.
LEMMA Stay ==
    ASSUME TypeOK, NEW c \in Device, DevInv(c),
           UNCHANGED <<store, epoch, overtaken, pc[c], devEpoch[c], cursor[c], after[c],
                       restarts[c], page[c], waitSeq[c]>>,
           have[c] \subseteq have'[c],
           response'[c] # response[c] =>
               (response'[c] # NoResponse => response'[c].epoch <= epoch)
    PROVE  DevInv(c)'
<1>1. EpochsBehind(c)'
  BY DEF DevInv, EpochsBehind
<1>2. RestartSettles(c)'
  BY DEF DevInv, RestartSettles, Pulling, Current
<1>3. CursorCovered(c)'
  BY DEF DevInv, CursorCovered, Current, UpTo, Visible
<1>4. AfterCovered(c)'
  BY DEF DevInv, AfterCovered, Pulling, Current, UpTo, Visible, Waiting
<1>5. PageCovers(c)'
  BY DEF DevInv, PageCovers, Current, UpTo, Visible, OnPage
<1>6. PageStored(c)'
  BY DEF DevInv, PageStored, Current, UpTo, Visible, Waiting
<1>7. WaitKnowsSeq(c)'
  BY DEF DevInv, WaitKnowsSeq, Current, Waiting
<1> QED BY <1>1, <1>2, <1>3, <1>4, <1>5, <1>6, <1>7 DEF DevInv

\* Rows commit.  One that commits at or below a seq c holds is overtaken,
\* because c holds only seqs that are visible.
LEMMA CommitBelow ==
    ASSUME TypeOK, NEW s \in Nat, Visible(s), TypeOK',
           \A e \in Env : store[e] # 0 => store'[e] = store[e],
           \A e, f \in Env :
             store[e] = 0 /\ store'[e] # 0 /\ store[f] >= store'[e] => e \in overtaken'
    PROVE  UpTo(s)' \subseteq UpTo(s) \cup overtaken' /\ Visible(s)'
<1>0. store \in [Env -> Nat] /\ store' \in [Env -> Nat]
  BY DEF TypeOK, StoreTypeOK
<1>1. ASSUME NEW e \in Env, store'[e] # 0, store'[e] <= s, store[e] = 0
      PROVE  e \in overtaken'
  <2>1. s # 0
    BY <1>0, <1>1
  <2>2. PICK f \in Env : store[f] >= s
    BY <2>1 DEF Visible
  <2>3. store[f] >= store'[e]
    BY <1>0, <1>1, <2>2
  <2> QED BY <1>1, <2>3
<1>2. \A e \in Env : store[e] # 0 => store'[e] = store[e]
  OBVIOUS
<1>3. Visible(s)'
  <2>1. CASE s = 0
    BY <2>1 DEF Visible
  <2>2. CASE \E f \in Env : store[f] >= s /\ s # 0
    <3>1. PICK f \in Env : store[f] >= s /\ s # 0
      BY <2>2
    <3>2. store[f] # 0
      BY <1>0, <3>1
    <3> QED BY <1>2, <3>1, <3>2 DEF Visible
  <2> QED BY <2>1, <2>2 DEF Visible
<1> QED BY <1>1, <1>2, <1>3 DEF UpTo

\* A step of a push transaction: what it commits is new to c.
LEMMA Served ==
    ASSUME TypeOK, TypeOK', NEW c \in Device, DevInv(c),
           epoch' = epoch,
           \A e \in Env : store[e] # 0 => store'[e] = store[e],
           overtaken \subseteq overtaken',
           \A e, f \in Env :
             store[e] = 0 /\ store'[e] # 0 /\ store[f] >= store'[e] => e \in overtaken',
           \A d \in Device : response'[d] # response[d] => response'[d].epoch = epoch,
           UNCHANGED <<dbVars, memVars>>
    PROVE  DevInv(c)'
<1>0. /\ UNCHANGED <<pc[c], devEpoch[c], cursor[c], after[c], restarts[c], page[c],
                     waitSeq[c], have[c]>>
      /\ epoch \in Nat /\ cursor[c] \in Nat /\ after[c] \in Nat /\ page[c].next \in Nat
      /\ store \in [Env -> Nat]
  BY DeviceTypes DEF dbVars, memVars, Page
<1>1. EpochsBehind(c)'
  BY <1>0 DEF DevInv, EpochsBehind
<1>2. RestartSettles(c)'
  BY <1>0 DEF DevInv, RestartSettles, Pulling, Current
<1>3. CursorCovered(c)'
  <2> SUFFICES ASSUME Current(c)'
               PROVE  (UpTo(cursor[c]) \subseteq have[c] \cup overtaken /\ Visible(cursor[c]))'
    BY DEF CursorCovered
  <2>1. UpTo(cursor[c]) \subseteq have[c] \cup overtaken /\ Visible(cursor[c])
    BY <1>0 DEF DevInv, CursorCovered, Current
  <2>2. UpTo(cursor[c])' \subseteq UpTo(cursor[c]) \cup overtaken' /\ Visible(cursor[c])'
    BY <1>0, <2>1, CommitBelow DEF UpTo, Visible
  <2> QED BY <1>0, <2>1, <2>2
<1>4. AfterCovered(c)'
  <2> SUFFICES ASSUME Pulling(c)', Current(c)'
               PROVE  (/\ UpTo(after[c]) \subseteq have[c] \cup overtaken \cup Waiting(c)
                       /\ Visible(after[c]))'
    BY DEF AfterCovered
  <2>1. /\ UpTo(after[c]) \subseteq have[c] \cup overtaken \cup Waiting(c)
        /\ Visible(after[c])
    BY <1>0 DEF DevInv, AfterCovered, Current, Pulling
  <2>2. UpTo(after[c])' \subseteq UpTo(after[c]) \cup overtaken' /\ Visible(after[c])'
    BY <1>0, <2>1, CommitBelow DEF UpTo, Visible
  <2>3. Waiting(c)' = Waiting(c)
    BY <1>0 DEF Waiting
  <2> QED BY <1>0, <2>1, <2>2, <2>3
<1>5. PageCovers(c)'
  <2> SUFFICES ASSUME pc'[c] = "page", Current(c)', (page[c].epoch = epoch)'
               PROVE  (/\ \A e \in OnPage(c) : store[e] = page[c].seq[e]
                       /\ UpTo(page[c].next) \ UpTo(after[c]) \subseteq OnPage(c) \cup overtaken
                       /\ Visible(page[c].next))'
    BY DEF PageCovers
  <2>1. /\ \A e \in OnPage(c) : store[e] = page[c].seq[e]
        /\ UpTo(page[c].next) \ UpTo(after[c]) \subseteq OnPage(c) \cup overtaken
        /\ Visible(page[c].next)
    BY <1>0 DEF DevInv, PageCovers, Current
  <2>2. UpTo(page[c].next)' \subseteq UpTo(page[c].next) \cup overtaken'
        /\ Visible(page[c].next)'
    BY <1>0, <2>1, CommitBelow DEF UpTo, Visible
  <2>3. UpTo(after[c]) \subseteq UpTo(after[c])' /\ OnPage(c)' = OnPage(c)
    BY <1>0 DEF UpTo, OnPage
  <2>4. (\A e \in OnPage(c) : store[e] = page[c].seq[e])'
    BY <1>0, <2>1 DEF OnPage
  <2> QED BY <2>1, <2>2, <2>3, <2>4
<1>6. PageStored(c)'
  <2> SUFFICES ASSUME pc'[c] = "cursor", Current(c)'
               PROVE  (/\ UpTo(page[c].next) \subseteq have[c] \cup overtaken \cup Waiting(c)
                       /\ Visible(page[c].next))'
    BY DEF PageStored
  <2>1. /\ UpTo(page[c].next) \subseteq have[c] \cup overtaken \cup Waiting(c)
        /\ Visible(page[c].next)
    BY <1>0 DEF DevInv, PageStored, Current
  <2>2. UpTo(page[c].next)' \subseteq UpTo(page[c].next) \cup overtaken'
        /\ Visible(page[c].next)'
    BY <1>0, <2>1, CommitBelow DEF UpTo, Visible
  <2>3. Waiting(c)' = Waiting(c)
    BY <1>0 DEF Waiting
  <2> QED BY <1>0, <2>1, <2>2, <2>3
<1>7. WaitKnowsSeq(c)'
  BY <1>0 DEF DevInv, WaitKnowsSeq, Current, Waiting
<1> QED BY <1>1, <1>2, <1>3, <1>4, <1>5, <1>6, <1>7 DEF DevInv

\* The store goes back to a backup: c is not current any more, and its pull
\* loop was not in the middle of an epoch change.
LEMMA Restored ==
    ASSUME TypeOK, NEW c \in Device, DevInv(c), Settled(c), RestoreStore
    PROVE  DevInv(c)'
<1>0. /\ UNCHANGED <<pc[c], devEpoch[c], restarts[c], page[c], waitSeq[c], response[c]>>
      /\ epoch' = epoch + 1 /\ devEpoch[c] <= epoch
      /\ epoch \in Nat /\ devEpoch[c] \in Nat
      /\ response[c] # NoResponse => response[c].epoch \in Nat
  BY DeviceTypes DEF RestoreStore, Restore, dbVars, memVars, DevInv, EpochsBehind
<1>1. ~Current(c)'
  BY <1>0 DEF Current
<1>2. EpochsBehind(c)'
  BY <1>0 DEF DevInv, EpochsBehind
<1>3. RestartSettles(c)'
  BY <1>0 DEF DevInv, RestartSettles, Pulling, Settled
<1>4. WaitKnowsSeq(c)'
  BY <1>0, <1>1 DEF DevInv, WaitKnowsSeq, Waiting
<1> QED BY <1>1, <1>2, <1>3, <1>4
        DEF DevInv, CursorCovered, AfterCovered, PageCovers, PageStored

\* c moves to, or stays at, a stage outside the pull loop.
LEMMA Leave ==
    ASSUME TypeOK, NEW c \in Device, DevInv(c), ~Pulling(c)',
           UNCHANGED <<store, epoch, overtaken, devEpoch[c], cursor[c]>>,
           \A e \in Env : waitSeq'[c][e] \in {waitSeq[c][e], 0},
           have[c] \subseteq have'[c],
           response'[c] = response[c] \/ response'[c] = NoResponse
    PROVE  DevInv(c)'
<1>1. EpochsBehind(c)'
  BY DEF DevInv, EpochsBehind
<1>2. CursorCovered(c)'
  BY DEF DevInv, CursorCovered, Current, UpTo, Visible
<1>3. WaitKnowsSeq(c)'
  BY DEF DevInv, WaitKnowsSeq, Current, Waiting
<1> QED BY <1>1, <1>2, <1>3
        DEF DevInv, RestartSettles, AfterCovered, PageCovers, PageStored, Pulling

\* c enters the pull loop at its persisted cursor.
LEMMA Enter ==
    ASSUME TypeOK, NEW c \in Device, DevInv(c), BeginPull(c),
           UNCHANGED <<store, epoch, overtaken, devEpoch[c], cursor[c], waitSeq[c], have[c]>>,
           response'[c] = response[c] \/ response'[c] = NoResponse
    PROVE  DevInv(c)'
<1>0. pc'[c] = "pull" /\ after'[c] = cursor[c] /\ restarts'[c] = FALSE
  BY DEF BeginPull, TypeOK
<1>1. EpochsBehind(c)'
  BY DEF DevInv, EpochsBehind
<1>2. CursorCovered(c)'
  BY DEF DevInv, CursorCovered, Current, UpTo, Visible
<1>3. AfterCovered(c)'
  BY <1>0 DEF DevInv, CursorCovered, AfterCovered, Current, UpTo, Visible
<1>4. WaitKnowsSeq(c)'
  BY DEF DevInv, WaitKnowsSeq, Current, Waiting
<1> QED BY <1>0, <1>1, <1>2, <1>3, <1>4 DEF DevInv, RestartSettles, PageCovers, PageStored

\* In a calm instance an entry waits for its key only while its device is
\* current.
LEMMA WaitingCalm ==
    ASSUME CalmInstance, TypeOK, NEW c \in Device, DevInv(c)
    PROVE  Waiting(c) = {} \/ (Current(c) /\ epoch = 0 /\ MaxRestore = 0)
<1>1. CASE Sealed = {}
  BY <1>1 DEF DevInv, WaitKnowsSeq
<1>2. CASE MaxRestore = 0
  <2>1. epoch = 0
    BY <1>2 DEF TypeOK, StoreTypeOK
  <2>2. devEpoch[c] = 0
    BY <2>1, DeviceTypes DEF DevInv, EpochsBehind
  <2> QED BY <1>2, <2>1, <2>2 DEF Current
<1> QED BY <1>1, <1>2 DEF CalmInstance

\* c records an epoch the store has or had, outside the pull loop.
LEMMA Observe ==
    ASSUME CalmInstance, TypeOK, NEW c \in Device, DevInv(c), NEW ep \in Nat, ep <= epoch,
           ObserveEpoch(c, ep), ~Pulling(c)',
           UNCHANGED <<store, epoch, overtaken, waitSeq[c], have[c], response[c]>>
    PROVE  DevInv(c)'
<1>0. /\ devEpoch'[c] = ep
      /\ cursor'[c] = IF ep = devEpoch[c] THEN cursor[c] ELSE 0
      /\ store \in [Env -> Nat]
  BY DEF ObserveEpoch, TypeOK, StoreTypeOK
<1>1. EpochsBehind(c)'
  BY <1>0 DEF DevInv, EpochsBehind
<1>2. CursorCovered(c)'
  BY <1>0 DEF DevInv, CursorCovered, Current, UpTo, Visible
<1>3. WaitKnowsSeq(c)'
  BY <1>0, WaitingCalm DEF DevInv, WaitKnowsSeq, Current, Waiting
<1> QED BY <1>1, <1>2, <1>3
        DEF DevInv, RestartSettles, AfterCovered, PageCovers, PageStored, Pulling

\* A page is answered behind `after`.
LEMMA PageAnswered ==
    ASSUME TypeOK, NEW c \in Device, DevInv(c), ServePull(c)
    PROVE  DevInv(c)'
<1>0. /\ pc[c] = "pull" /\ pc'[c] = "page"
      /\ UNCHANGED <<store, epoch, overtaken, devEpoch[c], cursor[c], after[c], restarts[c],
                     waitSeq[c], have[c], response[c]>>
      /\ store \in [Env -> Nat] /\ after[c] \in Nat
  BY DeviceTypes DEF ServePull, dbVars, TypeOK
<1>1. PICK run \in SUBSET Behind(c) :
         /\ IsRun(c, run)
         /\ \/ /\ run = {} /\ Behind(c) = {}
               /\ Answered(c, run, after[c], FALSE)
               /\ losses' = losses
            \/ \E e \in run :
                 /\ IsRun(c, run \ {e})
                 /\ Answered(c, run, store[e], FALSE)
                 /\ losses' = losses
            \/ \E bad \in Behind(c) \ run :
                 /\ IsRun(c, run \cup {bad})
                 /\ Answered(c, run, store[bad] - 1, TRUE)
                 /\ losses < MaxLoss /\ losses' = losses + 1
  BY DEF ServePull
<1>2. PICK next \in Int, last \in BOOLEAN :
         /\ Answered(c, run, next, last)
         /\ next = after[c] \/ \E e \in Env : store[e] >= next
         /\ \A g \in Behind(c) : store[g] <= next => g \in run
  <2>0. after[c] \in Int /\ FALSE \in BOOLEAN
    BY <1>0
  <2>1. CASE Answered(c, run, after[c], FALSE)
    <3>1. \A g \in Behind(c) : store[g] <= after[c] => g \in run
      BY <1>0 DEF Behind
    <3> QED BY <2>0, <2>1, <3>1, Zenon
  <2>2. CASE \E e \in run : Answered(c, run, store[e], FALSE)
    <3>1. PICK e \in run : Answered(c, run, store[e], FALSE)
      BY <2>2
    <3>2. e \in Env /\ store[e] \in Nat /\ store[e] \in Int /\ store[e] >= store[e]
      BY <1>0 DEF Behind
    <3>3. \A g \in Behind(c) : store[g] <= store[e] => g \in run
      BY <1>0, <1>1, <3>2 DEF IsRun, Behind
    <3> QED BY <2>0, <3>1, <3>2, <3>3, Zenon
  <2>3. CASE \E bad \in Behind(c) \ run :
               IsRun(c, run \cup {bad}) /\ Answered(c, run, store[bad] - 1, TRUE)
    <3>1. PICK bad \in Behind(c) \ run :
             IsRun(c, run \cup {bad}) /\ Answered(c, run, store[bad] - 1, TRUE)
      BY <2>3
    <3>2. bad \in Env /\ store[bad] \in Nat /\ store[bad] >= store[bad] - 1
          /\ store[bad] - 1 \in Int
      BY <1>0 DEF Behind
    <3>3. \A g \in Behind(c) : store[g] <= store[bad] - 1 => g \in run
      BY <1>0, <3>1, <3>2 DEF IsRun, Behind
    <3> QED BY <3>1, <3>2, <3>3
  <2> QED BY <1>1, <2>1, <2>2, <2>3
<1>3. page'[c] = [epoch |-> epoch, seq |-> [e \in Env |-> IF e \in run THEN store[e] ELSE 0],
                  next |-> next, last |-> last]
  BY <1>2 DEF Answered, TypeOK
<1>4. OnPage(c)' = run
  BY <1>0, <1>3 DEF OnPage, Behind
<1>5. EpochsBehind(c)'
  BY <1>0 DEF DevInv, EpochsBehind
<1>6. RestartSettles(c)'
  BY <1>0, <1>3 DEF DevInv, RestartSettles, Pulling, Current
<1>7. CursorCovered(c)'
  BY <1>0 DEF DevInv, CursorCovered, Current, UpTo, Visible
<1>8. AfterCovered(c)'
  BY <1>0 DEF DevInv, AfterCovered, Pulling, Current, UpTo, Visible, Waiting
<1>9. PageCovers(c)'
  <2> SUFFICES ASSUME Current(c)
               PROVE  (/\ \A e \in OnPage(c) : store[e] = page[c].seq[e]
                       /\ UpTo(page[c].next) \ UpTo(after[c]) \subseteq OnPage(c) \cup overtaken
                       /\ Visible(page[c].next))'
    BY <1>0 DEF PageCovers, Current
  <2>1. (\A e \in OnPage(c) : store[e] = page[c].seq[e])'
    BY <1>0, <1>3, <1>4 DEF Behind
  <2>2. (UpTo(page[c].next) \ UpTo(after[c]) \subseteq OnPage(c))'
    BY <1>0, <1>2, <1>3, <1>4 DEF UpTo, Behind
  <2>3. Visible(after[c])
    BY <1>0 DEF DevInv, AfterCovered, Pulling
  <2>4. Visible(page[c].next)'
    BY <1>0, <1>2, <1>3, <2>3 DEF Visible
  <2> QED BY <2>1, <2>2, <2>4
<1>10. WaitKnowsSeq(c)'
  BY <1>0 DEF DevInv, WaitKnowsSeq, Current, Waiting
<1> QED BY <1>0, <1>5, <1>6, <1>7, <1>8, <1>9, <1>10 DEF DevInv, PageStored

\* The pull loop starts again for a new epoch.
LEMMA PullRestarted ==
    ASSUME CalmInstance, TypeOK, NEW c \in Device, DevInv(c), RestartPull(c)
    PROVE  DevInv(c)'
<1>0. /\ pc'[c] = "pull" /\ after'[c] = 0 /\ cursor'[c] = 0
      /\ devEpoch'[c] = epoch /\ devEpoch[c] # epoch
      /\ UNCHANGED <<store, epoch, overtaken, waitSeq[c], have[c], response[c]>>
      /\ store \in [Env -> Nat] /\ epoch \in Nat
  <2>1. page[c].epoch = epoch
    BY DEF RestartPull, DevInv, RestartSettles
  <2> QED BY <2>1, DeviceTypes DEF RestartPull, ObserveEpoch, TypeOK, storeVars
<1>1. Waiting(c) = {}
  BY <1>0, WaitingCalm DEF Current
<1>2. UpTo(0)' = {} /\ Visible(0)'
  BY <1>0 DEF UpTo, Visible
<1>3. EpochsBehind(c)'
  BY <1>0 DEF DevInv, EpochsBehind
<1>4. WaitKnowsSeq(c)'
  BY <1>0, <1>1 DEF WaitKnowsSeq, Waiting
<1>5. CursorCovered(c)' /\ AfterCovered(c)'
  BY <1>0, <1>2 DEF CursorCovered, AfterCovered
<1> QED BY <1>0, <1>3, <1>4, <1>5
        DEF DevInv, RestartSettles, PageCovers, PageStored, Current

\* A restarted loop never meets a second epoch change in a calm instance.
LEMMA NoSecondRestart ==
    ASSUME TypeOK, NEW c \in Device, DevInv(c)
    PROVE  ~KeepPulling(c)
BY DEF KeepPulling, DevInv, RestartSettles, Pulling, Current

\* The page's rows are stored.
LEMMA PageLanded ==
    ASSUME CalmInstance, TypeOK, NEW c \in Device, DevInv(c), StorePage(c)
    PROVE  DevInv(c)'
<1>0. /\ pc[c] = "page" /\ pc'[c] = "cursor" /\ page[c].epoch = devEpoch[c]
      /\ UNCHANGED <<store, epoch, overtaken, devEpoch[c], cursor[c], after[c], restarts[c],
                     page[c], response[c]>>
      /\ have'[c] = have[c] \cup Admitted(c)
      /\ \A e \in Env : waitSeq'[c][e] =
            IF e \in Keyless(c) /\ waitSeq[c][e] = 0 THEN page[c].seq[e]
            ELSE IF e \in Admitted(c) THEN 0 ELSE waitSeq[c][e]
  BY DEF StorePage, TypeOK, storeVars
<1>1. Waiting(c) \subseteq have'[c] \cup Waiting(c)'
  BY <1>0 DEF Waiting
<1>2. OnPage(c) \subseteq have'[c] \cup Waiting(c)'
  BY <1>0 DEF OnPage, Waiting, Admitted, Keyless
<1>3. Waiting(c)' \subseteq Waiting(c) \cup Keyless(c)
  BY <1>0 DEF Waiting
<1>4. EpochsBehind(c)'
  BY <1>0 DEF DevInv, EpochsBehind
<1>5. RestartSettles(c)'
  BY <1>0 DEF DevInv, RestartSettles, Pulling, Current
<1>6. CursorCovered(c)'
  BY <1>0 DEF DevInv, CursorCovered, Current, UpTo, Visible
<1>7. AfterCovered(c)'
  <2>1. Pulling(c)
    BY <1>0 DEF Pulling
  <2>2. Current(c)' => UpTo(after[c])' = UpTo(after[c]) /\ Visible(after[c])' = Visible(after[c])
                       /\ Current(c)
    BY <1>0 DEF UpTo, Visible, Current
  <2> QED BY <1>0, <1>1, <2>1, <2>2 DEF DevInv, AfterCovered
<1>8. PageStored(c)'
  <2> SUFFICES ASSUME Current(c)
               PROVE  (/\ UpTo(page[c].next) \subseteq have[c] \cup overtaken \cup Waiting(c)
                       /\ Visible(page[c].next))'
    BY <1>0 DEF PageStored, Current
  <2>1. /\ UpTo(page[c].next) \ UpTo(after[c]) \subseteq OnPage(c) \cup overtaken
        /\ Visible(page[c].next)
    BY <1>0 DEF DevInv, PageCovers, Current
  <2>2. UpTo(after[c]) \subseteq have[c] \cup overtaken \cup Waiting(c)
    BY <1>0 DEF DevInv, AfterCovered, Pulling
  <2>3. UpTo(page[c].next)' = UpTo(page[c].next) /\ Visible(page[c].next)' = Visible(page[c].next)
    BY <1>0 DEF UpTo, Visible
  <2> QED BY <1>0, <1>1, <1>2, <2>1, <2>2, <2>3
<1>9. WaitKnowsSeq(c)'
  <2>1. Keyless(c) \subseteq Sealed \cap OnPage(c)
    BY DEF Keyless
  <2>2. ASSUME Current(c), NEW e \in Waiting(c)' PROVE store[e] = waitSeq'[c][e]
    <3>1. CASE e \in Keyless(c) /\ waitSeq[c][e] = 0
      <4>1. store[e] = page[c].seq[e]
        BY <1>0, <2>1, <2>2, <3>1 DEF DevInv, PageCovers, Current
      <4> QED BY <1>0, <3>1, <4>1 DEF Waiting
    <3>2. CASE ~(e \in Keyless(c) /\ waitSeq[c][e] = 0)
      <4>1. e \in Waiting(c) /\ waitSeq'[c][e] = waitSeq[c][e]
        BY <1>0, <2>2, <3>2 DEF Waiting
      <4> QED BY <2>2, <4>1 DEF DevInv, WaitKnowsSeq
    <3> QED BY <3>1, <3>2
  <2>3. Waiting(c)' \subseteq Sealed
    BY <1>3, <2>1 DEF DevInv, WaitKnowsSeq
  <2> QED BY <1>0, <2>2, <2>3 DEF WaitKnowsSeq, Current
<1> QED BY <1>0, <1>4, <1>5, <1>6, <1>7, <1>8, <1>9 DEF DevInv, PageCovers

\* The cursors follow the page.
LEMMA CursorMoved ==
    ASSUME TypeOK, TypeOK', NEW c \in Device, DevInv(c), SetCursor(c)
    PROVE  DevInv(c)'
<1> DEFINE reached == IF page[c].next > after[c] THEN page[c].next ELSE after[c]
<1>0. /\ pc[c] = "cursor" /\ pc'[c] \in {"check", "pull"}
      /\ UNCHANGED <<store, epoch, overtaken, devEpoch[c], restarts[c], waitSeq[c], have[c],
                     response[c]>>
      /\ after'[c] = reached
      /\ store \in [Env -> Nat] /\ after[c] \in Nat /\ cursor[c] \in Nat /\ page[c].next \in Nat
      /\ waitSeq[c] \in [Env -> Nat] /\ cursor'[c] \in Nat
  BY DeviceTypes DEF SetCursor, TypeOK, storeVars, Page
<1>1. PICK floor \in Floors(c, reached) :
         /\ \A f \in Floors(c, reached) : floor <= f
         /\ cursor'[c] = IF floor > cursor[c] THEN floor ELSE cursor[c]
  BY DEF SetCursor, TypeOK
<1>2. /\ floor <= reached
      /\ \A e \in Waiting(c) : floor < waitSeq[c][e]
      /\ floor \in Int /\ reached \in Nat
  <2>1. reached \in Floors(c, reached)
    BY DEF Floors
  <2>2. \A e \in Waiting(c) : waitSeq[c][e] - 1 \in Floors(c, reached)
    BY DEF Floors
  <2>3. reached \in Nat
    BY <1>0
  <2>4. \A e \in Waiting(c) : waitSeq[c][e] \in Nat
    BY <1>0 DEF Waiting
  <2>5. floor \in Int
    BY <1>1, <2>3, <2>4 DEF Floors
  <2>6. \A e \in Waiting(c) : floor <= waitSeq[c][e] - 1
    BY <1>1, <2>2
  <2> QED BY <1>1, <2>1, <2>3, <2>4, <2>5, <2>6
<1>3. Current(c) => /\ UpTo(reached) \subseteq have[c] \cup overtaken \cup Waiting(c)
                    /\ Visible(reached)
  BY <1>0 DEF DevInv, AfterCovered, PageStored, Pulling
<1>4. EpochsBehind(c)'
  BY <1>0 DEF DevInv, EpochsBehind
<1>5. RestartSettles(c)'
  BY <1>0 DEF DevInv, RestartSettles, Pulling, Current
<1>6. CursorCovered(c)'
  <2> SUFFICES ASSUME Current(c)
               PROVE  (UpTo(cursor[c]) \subseteq have[c] \cup overtaken /\ Visible(cursor[c]))'
    BY <1>0 DEF CursorCovered, Current
  <2>1. CASE cursor'[c] = cursor[c]
    BY <1>0, <2>1 DEF DevInv, CursorCovered, UpTo, Visible
  <2>2. CASE cursor'[c] = floor
    <3>1. UpTo(floor) \subseteq UpTo(reached)
      BY <1>0, <1>2 DEF UpTo
    <3>2. UpTo(floor) \cap Waiting(c) = {}
      <4>1. \A e \in Waiting(c) : e \in Env /\ store[e] = waitSeq[c][e]
        BY DEF DevInv, WaitKnowsSeq, Waiting
      <4> QED BY <1>0, <1>2, <4>1 DEF UpTo
    <3>3. Visible(floor)
      <4>1. CASE reached = 0
        BY <1>0, <1>2, <2>2, <4>1 DEF Visible
      <4>2. CASE \E e \in Env : store[e] >= reached
        BY <1>0, <1>2, <4>2 DEF Visible
      <4> QED BY <1>3, <4>1, <4>2 DEF Visible
    <3>4. UpTo(cursor[c])' = UpTo(floor) /\ Visible(cursor[c])' = Visible(floor)
      BY <1>0, <2>2 DEF UpTo, Visible
    <3> QED BY <1>0, <1>3, <3>1, <3>2, <3>3, <3>4
  <2> QED BY <1>1, <2>1, <2>2
<1>7. AfterCovered(c)'
  <2>1. Current(c)' => Current(c)
    BY <1>0 DEF Current
  <2>2. UpTo(after[c])' = UpTo(reached) /\ Visible(after[c])' = Visible(reached)
        /\ Waiting(c)' = Waiting(c)
    BY <1>0 DEF UpTo, Visible, Waiting
  <2> QED BY <1>0, <1>3, <2>1, <2>2 DEF AfterCovered
<1>8. WaitKnowsSeq(c)'
  BY <1>0 DEF DevInv, WaitKnowsSeq, Current, Waiting
<1> QED BY <1>0, <1>4, <1>5, <1>6, <1>7, <1>8 DEF DevInv, PageCovers, PageStored
\* A step of device d's round, seen from d.
LEMMA OwnStep ==
    ASSUME CalmInstance, TypeOK, TypeOK', NEW c \in Device, DevInv(c), DeviceStep(c)
    PROVE  DevInv(c)'
<1>1. CASE StartRound(c)
  <2>1. epoch \in Nat /\ epoch <= epoch /\ ~Pulling(c)'
    BY <1>1, DeviceTypes DEF StartRound, Pulling, TypeOK
  <2> QED BY <1>1, <2>1, Observe DEF StartRound, storeVars
<1>2. CASE ReceivePush(c)
  <2>1. response[c].epoch \in Nat /\ response[c].epoch <= epoch
    BY <1>2, DeviceTypes DEF ReceivePush, DevInv, EpochsBehind
  <2>2. ~Pulling(c)'
    BY <1>2 DEF ReceivePush, Pulling, TypeOK
  <2> QED BY <1>2, <2>1, <2>2, Observe DEF ReceivePush, storeVars
<1>3. CASE Push(c)
  <2>1. ~Pulling(c)'
    BY <1>3 DEF Push, Pulling, TypeOK
  <2> QED BY <1>3, <2>1, Leave DEF Push
<1>4. CASE SkipPush(c)
  BY <1>4, Enter DEF SkipPush, storeVars, dbVars
<1>5. CASE PushDone(c)
  <2>1. response'[c] = NoResponse
    BY <1>5 DEF PushDone, TypeOK, StoreTypeOK
  <2>2. CASE BeginPull(c)
    BY <1>5, <2>1, <2>2, Enter DEF PushDone, dbVars
  <2>3. CASE pc' = [pc EXCEPT ![c] = "push"]
    <3>1. ~Pulling(c)'
      BY <2>3 DEF Pulling, TypeOK
    <3> QED BY <1>5, <2>1, <3>1, Leave DEF PushDone, dbVars
  <2> QED BY <1>5, <2>2, <2>3 DEF PushDone
<1>6. CASE \E e \in Env : \/ HandleAcked(c, e) \/ HandleRateLimited(c, e)
                          \/ HandleQuota(c, e) \/ HandleNoRole(c, e)
  <2>1. /\ pc[c] = "results"
        /\ UNCHANGED <<storeVars, have, devEpoch, cursor, pc, after, restarts, page, waitSeq>>
    BY <1>6 DEF HandleAcked, HandleRateLimited, HandleQuota, HandleNoRole, Handle
  <2>2. ~Pulling(c)'
    BY <2>1 DEF Pulling
  <2> QED BY <2>1, <2>2, Leave DEF storeVars
<1>7. CASE ServePull(c)
  BY <1>7, PageAnswered
<1>8. CASE RestartPull(c)
  BY <1>8, PullRestarted
<1>9. CASE StorePage(c)
  BY <1>9, PageLanded
<1>10. CASE KeepPulling(c)
  BY <1>10, NoSecondRestart
<1>11. CASE SetCursor(c)
  BY <1>11, CursorMoved
<1>12. CASE ReadYourWrites(c)
  <2>1. ~Pulling(c)'
    BY <1>12 DEF ReadYourWrites, Pulling, TypeOK
  <2> QED BY <1>12, <2>1, Leave DEF ReadYourWrites, storeVars
<1>13. CASE Prune(c)
  <2>1. ~Pulling(c)'
    BY <1>13 DEF Prune, Pulling, TypeOK
  <2> QED BY <1>13, <2>1, Leave DEF Prune, storeVars
<1>14. CASE DrainKeyWait(c)
  <2>1. ~Pulling(c)' /\ have[c] \subseteq have'[c]
    BY <1>14 DEF DrainKeyWait, Pulling, TypeOK
  <2>2. \A e \in Env : waitSeq'[c][e] \in {waitSeq[c][e], 0}
    BY <1>14 DEF DrainKeyWait, TypeOK
  <2> QED BY <1>14, <2>1, <2>2, Leave DEF DrainKeyWait, storeVars
<1> QED BY <1>1, <1>2, <1>3, <1>4, <1>5, <1>6, <1>7, <1>8, <1>9, <1>10, <1>11, <1>12, <1>13, <1>14
        DEF DeviceStep

\* What befalls device c beside its round.
LEMMA OwnTrouble ==
    ASSUME TypeOK, NEW c \in Device, DevInv(c),
           \/ KeyArrives(c) \/ PushFailed(c) \/ PushRefused(c) \/ PullFailed(c)
           \/ BackoffOver(c) \/ ResumeBook(c) \/ Crash(c)
    PROVE  DevInv(c)'
<1>1. CASE KeyArrives(c)
  BY <1>1, Stay DEF KeyArrives, storeVars, memVars
<1>2. CASE PushFailed(c)
  <2>1. ~Pulling(c)' /\ response'[c] = NoResponse
    BY <1>2 DEF PushFailed, GiveUpBatch, Pulling, TypeOK, StoreTypeOK
  <2> QED BY <1>2, <2>1, Leave DEF PushFailed, GiveUpBatch
<1>3. CASE PushRefused(c)
  <2>1. response'[c] = NoResponse
    BY <1>3 DEF PushRefused, GiveUpBatch, TypeOK, StoreTypeOK
  <2> QED BY <1>3, <2>1, Enter DEF PushRefused, GiveUpBatch
<1>4. CASE PullFailed(c)
  <2>1. ~Pulling(c)'
    BY <1>4 DEF PullFailed, Pulling, TypeOK
  <2> QED BY <1>4, <2>1, Leave DEF PullFailed, dbVars
<1>5. CASE BackoffOver(c) \/ ResumeBook(c)
  BY <1>5, Stay DEF BackoffOver, ResumeBook, storeVars, dbVars
<1>6. CASE Crash(c)
  <2>1. /\ ~Pulling(c)' /\ response'[c] = NoResponse
        /\ \A e \in Env : waitSeq'[c][e] = 0
    BY <1>6 DEF Crash, Pulling, TypeOK, StoreTypeOK, NoSeq
  <2> QED BY <1>6, <2>1, Leave DEF Crash, dbVars
<1> QED BY <1>1, <1>2, <1>3, <1>4, <1>5, <1>6

\* Another device's step is none of c's business.
LEMMA OthersStep ==
    ASSUME TypeOK, NEW c \in Device, NEW d \in Device, c # d, DevInv(c),
           \/ DeviceStep(d) \/ KeyArrives(d) \/ PushFailed(d) \/ PushRefused(d)
           \/ PullFailed(d) \/ BackoffOver(d) \/ ResumeBook(d) \/ Crash(d)
    PROVE  DevInv(c)'
<1> DEFINE Untouched ==
      /\ UNCHANGED <<store, epoch, overtaken, pc[c], devEpoch[c], cursor[c], after[c],
                     restarts[c], page[c], waitSeq[c]>>
      /\ have'[c] = have[c]
      /\ response'[c] = response[c]
<1>1. CASE StartRound(d) \/ ReceivePush(d) \/ RestartPull(d) \/ KeepPulling(d)
  <2>1. Untouched
    BY <1>1 DEF StartRound, ReceivePush, RestartPull, KeepPulling, ObserveEpoch, TypeOK,
                storeVars, memVars
  <2> QED BY <2>1, Stay
<1>2. CASE Push(d) \/ SkipPush(d) \/ PushDone(d) \/ PushFailed(d) \/ PushRefused(d)
  <2>1. Untouched
    BY <1>2 DEF Push, SkipPush, PushDone, PushFailed, PushRefused, GiveUpBatch, BeginPull,
                TypeOK, StoreTypeOK, storeVars, dbVars
  <2> QED BY <2>1, Stay
<1>3. CASE \E e \in Env : \/ HandleAcked(d, e) \/ HandleRateLimited(d, e)
                          \/ HandleQuota(d, e) \/ HandleNoRole(d, e)
  <2>1. Untouched
    BY <1>3 DEF HandleAcked, HandleRateLimited, HandleQuota, HandleNoRole, Handle, storeVars
  <2> QED BY <2>1, Stay
<1>4. CASE ServePull(d)
  <2>1. Untouched
    BY <1>4 DEF ServePull, Answered, TypeOK, dbVars
  <2> QED BY <2>1, Stay
<1>5. CASE StorePage(d) \/ SetCursor(d) \/ PullFailed(d) \/ ReadYourWrites(d) \/ Prune(d)
  <2>1. Untouched
    BY <1>5 DEF StorePage, SetCursor, PullFailed, ReadYourWrites, Prune, TypeOK, storeVars,
                dbVars
  <2> QED BY <2>1, Stay
<1>6. CASE KeyArrives(d) \/ BackoffOver(d) \/ ResumeBook(d) \/ Crash(d)
  <2>1. Untouched
    BY <1>6 DEF KeyArrives, BackoffOver, ResumeBook, Crash, TypeOK, StoreTypeOK, storeVars,
                dbVars, memVars
  <2> QED BY <2>1, Stay
<1>7. CASE DrainKeyWait(d)
  <2>1. Untouched
    BY <1>7 DEF DrainKeyWait, TypeOK, storeVars
  <2> QED BY <2>1, Stay
<1> QED BY <1>1, <1>2, <1>3, <1>4, <1>5, <1>6, <1>7 DEF DeviceStep

\* The inductive step.
LEMMA NextSync ==
    ASSUME CalmInstance, SyncInv, [Next]_vars
    PROVE  SyncInv'
<1>0. TypeInv /\ TypeOK /\ TypeInv' /\ TypeOK'
  BY NextType, NextAnswer DEF SyncInv, TypeInv
<1> SUFFICES ASSUME NEW c \in Device PROVE DevInv(c)'
  BY <1>0 DEF SyncInv
<1>00. DevInv(c)
  BY DEF SyncInv
<1>1. ASSUME NEW e \in Env, Save(e) PROVE DevInv(c)'
  <2>1. have[c] \subseteq have'[c]
    BY <1>0, <1>1 DEF Save, TypeOK
  <2> QED BY <1>0, <1>00, <1>1, <2>1, Stay DEF Save, storeVars, memVars
<1>2. ASSUME NEW d \in Device,
             \/ DeviceStep(d) \/ KeyArrives(d) \/ PushFailed(d) \/ PushRefused(d)
             \/ PullFailed(d) \/ BackoffOver(d) \/ ResumeBook(d) \/ Crash(d)
      PROVE  DevInv(c)'
  <2>1. CASE c = d
    BY <1>0, <1>00, <1>2, <2>1, OwnStep, OwnTrouble
  <2>2. CASE c # d
    BY <1>0, <1>00, <1>2, <2>2, OthersStep
  <2> QED BY <2>1, <2>2
<1>3. ASSUME NEW r \in reqs, Serve(r) \/ RateLimited(r) \/ Abort(r),
             UNCHANGED <<dbVars, memVars>>
      PROVE  DevInv(c)'
  <2>1. StoreTypeOK
    BY <1>0 DEF TypeOK
  <2> QED BY <1>0, <1>00, <1>3, <2>1, ServeFacts, Served
<1>4. ASSUME NEW d \in Device, Demote(d), UNCHANGED <<dbVars, memVars>>
      PROVE  DevInv(c)'
  BY <1>0, <1>00, <1>4, Stay DEF Demote, dbVars, memVars
<1>5. ASSUME RestoreStore PROVE DevInv(c)'
  BY <1>0, <1>00, <1>5, Restored DEF RestoreStore, CalmInstance
<1>6. CASE UNCHANGED vars
  BY <1>0, <1>00, <1>6, Stay DEF vars, storeVars, dbVars, memVars
<1> QED BY <1>1, <1>2, <1>3, <1>4, <1>5, <1>6 DEF Next, ServerStep, Trouble

\* The initial states.
LEMMA InitSync == Init => SyncInv
<1> SUFFICES ASSUME Init, NEW c \in Device PROVE DevInv(c)
  BY InitType DEF SyncInv
<1>1. /\ store = [e \in Env |-> 0] /\ epoch = 0 /\ response[c] = NoResponse
      /\ pc[c] = "idle" /\ devEpoch[c] = 0 /\ cursor[c] = 0 /\ waitSeq[c] = NoSeq
  BY DEF Init, StoreInit
<1>2. CursorCovered(c)
  BY <1>1 DEF CursorCovered, UpTo, Visible
<1>3. WaitKnowsSeq(c)
  BY <1>1 DEF WaitKnowsSeq, Waiting, NoSeq
<1> QED BY <1>1, <1>2, <1>3
        DEF DevInv, EpochsBehind, RestartSettles, AfterCovered, PageCovers, PageStored, Pulling

\* SyncInv always holds where no restore hits a pull loop that has yet to
\* settle: it says of every row behind `after` and behind the cursor where it is.
THEOREM SyncInvHolds == CalmInstance => (Spec => []SyncInv)
<1> SUFFICES ASSUME CalmInstance PROVE Spec => []SyncInv
  OBVIOUS
<1>1. SyncInv /\ [Next]_vars => SyncInv'
  BY NextSync
<1> QED BY InitSync, <1>1, PTL DEF Spec

\* Whatever is lost, damaged, refused, restarted or restored, a row behind a
\* device's persisted cursor is in its mirror, unless it committed below a seq
\* that was already visible: provided a restore waits for the pull loops to
\* settle, and key waits and restores do not meet.
THEOREM NoSilentSkipHolds == CalmInstance => (Spec => []NoSilentSkip)
<1> SUFFICES ASSUME CalmInstance PROVE Spec => []NoSilentSkip
  OBVIOUS
<1>1. Spec => []SyncInv
  BY SyncInvHolds
<1>2. SyncInv => NoSilentSkip
  BY DEF SyncInv, DevInv, CursorCovered, UpTo, Current, NoSilentSkip, Covered
<1> QED BY <1>1, <1>2, PTL
=============================================================================
