------------------------ MODULE SyncRefinementProofs ------------------------
(***************************************************************************)
(* The outbox and the store agree on every acked row, whatever is lost,    *)
(* restarted or restored; and, while no store is restored, the system      *)
(* implements the replicated log.  For every set of devices and envelopes, *)
(* every quota and every bound.                                            *)
(*                                                                         *)
(* Then what a device's mirror and outbox know of the rows its cursor has  *)
(* passed: a mirror row carries the store's seq (MirrorSeqIsCurrent), and  *)
(* an own row has come back and been observed, so the read-your-writes     *)
(* check accuses the server of losing a row only when it did               *)
(* (NoFalseWriteLost).  Both stand on SyncInv, which says where the rows   *)
(* behind a cursor are, and on RowInv, which says what an ack is worth.    *)
(***************************************************************************)
EXTENDS SyncRefinement, SyncEngineProofs

-----------------------------------------------------------------------------
(***************************************************************************)
(* The requests.                                                           *)
(***************************************************************************)

\* Shapes used throughout.
LEMMA RequestTypes ==
    ASSUME TypeOK
    PROVE  /\ reqs \in SUBSET Request /\ store \in [Env -> Nat] /\ nextSeq \in Nat /\ nextSeq # 0
           /\ \A r \in reqs : /\ r \in Request /\ r.dev \in Device /\ r.begun \in BOOLEAN
                              /\ r.live \in BOOLEAN /\ r.seq \in Nat /\ r.cur \in Env \cup {NoEnv}
                              /\ r.todo \in SUBSET Env /\ r.res \in [Env -> Outcome]
                              /\ \A e \in Env : r.res[e].seq \in Nat
           /\ response \in [Device -> Answer \cup {NoResponse}]
BY DEF TypeOK, StoreTypeOK, Request, Outcome

\* x is r, but for who still listens to it.
Fades(x, r) == x \in Request /\ (x = r \/ x = [r EXCEPT !.live = FALSE])

\* A step that leaves the store alone, forgets no saved row, and only drops
\* requests or stops listening to them.
LEMMA RequestsFade ==
    ASSUME TypeOK, RequestInv, UNCHANGED <<store, nextSeq>>,
           \A e \in Env : st[e] # "new" => st'[e] # "new",
           \A x \in reqs' : \E r \in reqs : Fades(x, r),
           \A x, y \in reqs' : x.begun /\ y.begun /\ x.dev = y.dev => x = y
    PROVE  RequestInv'
<1>1. ASSUME NEW x \in reqs'
      PROVE  \E r \in reqs : /\ x.dev = r.dev /\ x.begun = r.begun /\ x.todo = r.todo
                             /\ x.cur = r.cur /\ x.seq = r.seq /\ x.res = r.res
  <2>1. PICK r \in reqs : Fades(x, r)
    OBVIOUS
  <2>2. r \in Request
    BY RequestTypes
  <2> QED BY <2>1, <2>2 DEF Request, Fades
<1>2. PushedByAuthor'
  <2> SUFFICES ASSUME NEW x \in reqs', NEW e \in Env, Carries(x, e)
               PROVE  Author[e] = x.dev /\ st'[e] # "new"
    BY DEF PushedByAuthor, Carries
  <2>1. PICK r \in reqs : /\ x.dev = r.dev /\ x.begun = r.begun /\ x.todo = r.todo
                          /\ x.cur = r.cur /\ x.seq = r.seq /\ x.res = r.res
    BY <1>1
  <2> QED BY <2>1 DEF RequestInv, PushedByAuthor, Carries
<1>3. OneTransaction'
  BY <1>1 DEF RequestInv, OneTransaction
<1>4. \A x \in reqs' : \E r \in reqs :
         /\ Drawn(x)' = Drawn(r)
         /\ \A e \in Env : SeqFor(x, e) = SeqFor(r, e)
  BY <1>1 DEF Drawn, SeqFor
<1>5. SeqsAreDrawn'
  <2>1. \A e \in Env : store'[e] < nextSeq'
    BY DEF RequestInv, SeqsAreDrawn
  <2>2. ASSUME NEW x \in reqs', NEW e \in Drawn(x)'
        PROVE  SeqFor(x, e) # 0 /\ SeqFor(x, e) < nextSeq'
    <3>1. PICK r \in reqs : Drawn(x)' = Drawn(r) /\ \A f \in Env : SeqFor(x, f) = SeqFor(r, f)
      BY <1>4
    <3>2. e \in Drawn(r) /\ e \in Env
      BY <2>2, <3>1 DEF Drawn
    <3> QED BY <3>1, <3>2 DEF RequestInv, SeqsAreDrawn
  <2> QED BY <2>1, <2>2 DEF SeqsAreDrawn, SeqFor
<1>6. SeqsAreDistinct'
  <2>1. \A e, f \in Env : store'[e] = store'[f] /\ store'[e] # 0 => e = f
    BY DEF RequestInv, SeqsAreDistinct
  <2>2. ASSUME NEW x \in reqs', NEW e \in Drawn(x)'
        PROVE  /\ \A f \in Env : SeqFor(x, e) # store'[f]
               /\ \A y \in reqs' : \A f \in Drawn(y)' : SeqFor(x, e) = SeqFor(y, f) => e = f
    <3>1. PICK r \in reqs : Drawn(x)' = Drawn(r) /\ \A f \in Env : SeqFor(x, f) = SeqFor(r, f)
      BY <1>4
    <3>2. e \in Drawn(r) /\ e \in Env
      BY <2>2, <3>1 DEF Drawn
    <3>3. \A f \in Env : SeqFor(x, e) # store'[f]
      BY <3>1, <3>2 DEF RequestInv, SeqsAreDistinct
    <3>4. ASSUME NEW y \in reqs', NEW f \in Drawn(y)', SeqFor(x, e) = SeqFor(y, f)
          PROVE  e = f
      <4>1. PICK q \in reqs : Drawn(y)' = Drawn(q) /\ \A g \in Env : SeqFor(y, g) = SeqFor(q, g)
        BY <1>4
      <4>2. f \in Drawn(q) /\ f \in Env
        BY <3>4, <4>1 DEF Drawn
      <4> QED BY <3>1, <3>2, <3>4, <4>1, <4>2 DEF RequestInv, SeqsAreDistinct
    <3> QED BY <3>3, <3>4
  <2> QED BY <2>1, <2>2 DEF SeqsAreDistinct, SeqFor
<1>7. AcksAreTrue'
  BY <1>1 DEF RequestInv, AcksAreTrue
<1> QED BY <1>2, <1>3, <1>5, <1>6, <1>7 DEF RequestInv

\* A transaction goes on: its request r becomes s, which answers for nothing r
\* did not, draws at most the next seq, and that for one envelope.
GoesOn(r, s) ==
    /\ s.dev = r.dev /\ s.begun
    /\ r.begun \/ \A q \in reqs : q.dev = r.dev => ~q.begun
    /\ \A e \in Env : Carries(s, e) => Carries(r, e)
    /\ \A e \in Drawn(s) :
          \/ e \in Drawn(r) /\ SeqFor(s, e) = SeqFor(r, e)
          \/ SeqFor(s, e) = nextSeq /\ nextSeq < nextSeq'
    /\ \A e, f \in Drawn(s) : SeqFor(s, e) = nextSeq /\ SeqFor(s, f) = nextSeq => e = f
    /\ s.cur # NoEnv => s.cur \in s.todo /\ store[s.cur] = 0
    /\ \A e \in Env : s.res[e].kind = "acked" /\ store[e] # 0 => s.res[e].seq = store[e]

LEMMA RequestGoesOn ==
    ASSUME TypeOK, RequestInv, NEW r \in reqs, NEW s, GoesOn(r, s),
           reqs' = (reqs \ {r}) \cup {s}, UNCHANGED <<store, st>>,
           nextSeq' \in Nat, nextSeq <= nextSeq'
    PROVE  RequestInv'
<1> USE DEF GoesOn
<1>0. /\ nextSeq \in Nat /\ nextSeq # 0 /\ store \in [Env -> Nat]
      /\ \A q \in reqs : \A e \in Env : SeqFor(q, e) \in Nat
      /\ \A q : Drawn(q)' = Drawn(q) /\ Drawn(q) \subseteq Env
  BY RequestTypes DEF SeqFor, Drawn
<1>1. PushedByAuthor'
  BY DEF RequestInv, PushedByAuthor, Carries
<1>2. OneTransaction'
  BY DEF RequestInv, OneTransaction
<1>3. SeqsAreDrawn'
  <2>1. \A e \in Env : store'[e] < nextSeq'
    BY <1>0 DEF RequestInv, SeqsAreDrawn
  <2>2. \A q \in reqs : \A e \in Drawn(q) : SeqFor(q, e) # 0 /\ SeqFor(q, e) < nextSeq'
    BY <1>0 DEF RequestInv, SeqsAreDrawn
  <2>3. \A e \in Drawn(s) : SeqFor(s, e) # 0 /\ SeqFor(s, e) < nextSeq'
    BY <1>0, <2>2
  <2>4. \A x \in reqs' : \A e \in Drawn(x)' : SeqFor(x, e) # 0 /\ SeqFor(x, e) < nextSeq'
    BY <1>0, <2>2, <2>3
  <2> QED BY <2>1, <2>4 DEF SeqsAreDrawn, SeqFor
<1>4. SeqsAreDistinct'
  <2>1. /\ \A q \in reqs : \A e \in Drawn(q) : SeqFor(q, e) < nextSeq
        /\ \A e \in Env : store[e] < nextSeq
    BY DEF RequestInv, SeqsAreDrawn
  <2>2. \A e \in Drawn(s), f \in Env : SeqFor(s, e) # store[f]
    BY <1>0, <2>1 DEF RequestInv, SeqsAreDistinct
  <2>3. \A e \in Drawn(s), q \in reqs : \A f \in Drawn(q) : SeqFor(s, e) = SeqFor(q, f) => e = f
    BY <1>0, <2>1 DEF RequestInv, SeqsAreDistinct
  <2>4. \A e, f \in Drawn(s) : SeqFor(s, e) = SeqFor(s, f) => e = f
    <3> SUFFICES ASSUME NEW e \in Drawn(s), NEW f \in Drawn(s), SeqFor(s, e) = SeqFor(s, f)
                 PROVE  e = f
      OBVIOUS
    <3>1. CASE f \in Drawn(r) /\ SeqFor(s, f) = SeqFor(r, f)
      BY <2>3, <3>1
    <3>2. CASE SeqFor(s, f) = nextSeq
      BY <3>2
    <3> QED BY <3>1, <3>2
  <2>5. \A x \in reqs' : \A e \in Drawn(x)' : \A f \in Env : SeqFor(x, e) # store'[f]
    BY <1>0, <2>2 DEF RequestInv, SeqsAreDistinct
  <2>6. \A x, y \in reqs' : \A e \in Drawn(x)', f \in Drawn(y)' : SeqFor(x, e) = SeqFor(y, f) => e = f
    BY <1>0, <2>3, <2>4 DEF RequestInv, SeqsAreDistinct
  <2>7. \A e, f \in Env : store'[e] = store'[f] /\ store'[e] # 0 => e = f
    BY DEF RequestInv, SeqsAreDistinct
  <2> QED BY <2>5, <2>6, <2>7 DEF SeqsAreDistinct, SeqFor
<1>5. AcksAreTrue'
  BY DEF RequestInv, AcksAreTrue
<1> QED BY <1>1, <1>2, <1>3, <1>4, <1>5 DEF RequestInv

\* A request its transaction is done with leaves, and its rows become visible.
LEMMA RequestCommits ==
    ASSUME TypeOK, RequestInv, NEW r \in reqs, Commit(r), UNCHANGED st
    PROVE  /\ RequestInv'
           /\ \A e \in Env : store[e] # 0 => store'[e] = store[e]
           /\ \A e \in Env : store[e] = 0 /\ store'[e] # 0 => st[e] # "new"
           /\ \A e \in Env : r.res[e].kind = "acked" => store'[e] # 0 /\ store'[e] = r.res[e].seq
<1>0. /\ nextSeq \in Nat /\ nextSeq # 0 /\ store \in [Env -> Nat] /\ NoEnv \notin Env
      /\ reqs' = reqs \ {r} /\ nextSeq' = nextSeq
      /\ \A e \in Env : store'[e] = IF e \in Inserted(r) THEN r.res[e].seq ELSE store[e]
      /\ \A q \in reqs : q.cur \in Env \cup {NoEnv} /\ \A e \in Env : q.res[e].seq \in Nat
      /\ r.begun
  BY RequestTypes, EnvFinite DEF Commit
<1>1. /\ Inserted(r) \subseteq Drawn(r) /\ Inserted(r) \subseteq Env
      /\ \A e \in Inserted(r) : store[e] = 0 /\ r.res[e].kind = "acked" /\ r.res[e].seq # 0
                                /\ r.res[e].seq < nextSeq
  <2>1. Inserted(r) \subseteq Drawn(r) /\ r.cur \notin Env
    BY <1>0 DEF Inserted, Drawn, Commit, RequestInv, AcksAreTrue
  <2> QED BY <2>1 DEF Inserted, Drawn, RequestInv, SeqsAreDrawn, SeqFor
<1>2. \A e \in Env : store[e] # 0 => store'[e] = store[e]
  BY <1>0, <1>1
<1>3. \A e \in Env : store[e] = 0 /\ store'[e] # 0 => st[e] # "new"
  BY <1>0, <1>1 DEF RequestInv, PushedByAuthor, Carries
<1>4. \A e \in Env : r.res[e].kind = "acked" => store'[e] # 0 /\ store'[e] = r.res[e].seq
  BY <1>0, <1>1 DEF Inserted, RequestInv, AcksAreTrue
<1>5. PushedByAuthor'
  BY <1>0 DEF RequestInv, PushedByAuthor, Carries
<1>6. OneTransaction'
  BY <1>0 DEF RequestInv, OneTransaction
\* The other transactions hold other envelopes: they are of other devices.
<1>7. ASSUME NEW q \in reqs', NEW e \in Env, Carries(q, e), q.begun PROVE e \notin Inserted(r)
  <2>1. q \in reqs /\ q # r /\ q.dev # r.dev
    BY <1>0, <1>7 DEF RequestInv, OneTransaction
  <2> QED BY <1>7, <2>1 DEF RequestInv, PushedByAuthor, Carries, Inserted
<1>8. \A q \in reqs' : /\ q \in reqs
                      /\ Drawn(q)' \subseteq Drawn(q) /\ Drawn(q) \subseteq Env
                      /\ \A e \in Env : SeqFor(q, e) \in Nat
  BY <1>0, <1>2, RequestTypes DEF Drawn, SeqFor
<1>9. SeqsAreDrawn'
  <2>1. \A e \in Env : store'[e] < nextSeq'
    BY <1>0, <1>1 DEF RequestInv, SeqsAreDrawn
  <2>2. \A q \in reqs' : \A e \in Drawn(q)' : SeqFor(q, e) # 0 /\ SeqFor(q, e) < nextSeq'
    BY <1>0, <1>8 DEF RequestInv, SeqsAreDrawn
  <2> QED BY <2>1, <2>2 DEF SeqsAreDrawn, SeqFor
<1>10. SeqsAreDistinct'
  <2>1. \A e \in Inserted(r) : SeqFor(r, e) = r.res[e].seq
    BY <1>0, <1>1 DEF SeqFor, Commit, RequestInv, AcksAreTrue
  <2>2. ASSUME NEW e \in Env, NEW f \in Env, store'[e] = store'[f], store'[e] # 0 PROVE e = f
    BY <1>0, <1>1, <2>1, <2>2 DEF RequestInv, SeqsAreDistinct
  <2>3. ASSUME NEW q \in reqs', NEW e \in Drawn(q)', NEW f \in Env PROVE SeqFor(q, e) # store'[f]
    <3>1. e \in Drawn(q) /\ e \in Env /\ q \in reqs /\ store'[e] = 0
      BY <1>8, <2>3 DEF Drawn
    <3>2. CASE f \in Inserted(r)
      <4>1. SeqFor(q, e) = SeqFor(r, f) => e = f
        BY <1>1, <3>1, <3>2 DEF RequestInv, SeqsAreDistinct
      <4> QED BY <1>0, <1>1, <2>1, <3>1, <3>2, <4>1
    <3>3. CASE f \notin Inserted(r)
      BY <1>0, <3>1, <3>3 DEF RequestInv, SeqsAreDistinct
    <3> QED BY <3>2, <3>3
  <2>4. \A q, p \in reqs' : \A e \in Drawn(q)', f \in Drawn(p)' : SeqFor(q, e) = SeqFor(p, f) => e = f
    BY <1>8 DEF RequestInv, SeqsAreDistinct
  <2> QED BY <2>2, <2>3, <2>4 DEF SeqsAreDistinct, SeqFor
<1>11. AcksAreTrue'
  <2> SUFFICES ASSUME NEW q \in reqs'
               PROVE  /\ q.cur # NoEnv => q.cur \in q.todo /\ store'[q.cur] = 0
                      /\ \A e \in Env : q.res[e].kind = "acked" /\ store'[e] # 0
                                        => q.res[e].seq = store'[e]
    BY DEF AcksAreTrue
  <2>1. q.begun \/ (q.cur = NoEnv /\ \A e \in Env : q.res[e].kind = "none")
    BY <1>8 DEF RequestInv, OneTransaction
  <2>2. q.cur # NoEnv => q.cur \in Env /\ Carries(q, q.cur)
    BY <1>0, <1>8 DEF Carries
  <2>3. \A e \in Env : q.res[e].kind = "acked" => Carries(q, e)
    BY DEF Carries
  <2>4. \A e \in Env : Carries(q, e) /\ q.begun => store'[e] = store[e]
    BY <1>0, <1>7
  <2> QED BY <1>8, <2>1, <2>2, <2>3, <2>4 DEF RequestInv, AcksAreTrue
<1> QED BY <1>2, <1>3, <1>4, <1>5, <1>6, <1>9, <1>10, <1>11 DEF RequestInv

\* Every other step of the transaction that serves a request, and its loss.
LEMMA RequestServed ==
    ASSUME TypeOK, RequestInv, NEW r \in reqs, UNCHANGED st,
           \/ BookAccess(r) \/ BumpUsage(r) \/ RateLimited(r)
           \/ \E e \in Env : JudgeNoRole(r, e) \/ JudgeQuota(r, e) \/ JudgeDuplicate(r, e)
                                                \/ JudgeInsert(r, e) \/ InsertDenied(r, e)
    PROVE  \E s \in Request :
             /\ reqs' = (reqs \ {r}) \cup {s} /\ s.dev = r.dev /\ s.live = r.live
             /\ RequestInv'
<1>0. /\ r \in Request /\ nextSeq \in Nat /\ nextSeq # 0 /\ store \in [Env -> Nat] /\ NoEnv \notin Env
      /\ Drawn(r) \subseteq Env /\ r.todo \subseteq Env /\ r.cur \in Env \cup {NoEnv}
      /\ \A e \in Env : r.res[e].kind = "acked" /\ store[e] # 0 => r.res[e].seq = store[e]
      /\ r.cur # NoEnv => r.cur \in r.todo /\ store[r.cur] = 0
      /\ ~r.begun => r.cur = NoEnv /\ \A e \in Env : r.res[e].kind = "none"
      /\ \A e \in Drawn(r) : SeqFor(r, e) < nextSeq
  BY RequestTypes, EnvFinite DEF Drawn, RequestInv, AcksAreTrue, OneTransaction, SeqsAreDrawn
<1>1. CASE BookAccess(r)
  <2> DEFINE s == [r EXCEPT !.begun = TRUE, !.may = writer[r.dev], !.count = Cardinality(Stored)]
  <2>1. s \in Request
    BY <1>0, <1>1, StoredCount DEF Request, TypeOK, StoreTypeOK
  <2>2. /\ s.dev = r.dev /\ s.live = r.live /\ s.begun /\ s.todo = r.todo /\ s.cur = r.cur
        /\ s.seq = r.seq /\ s.res = r.res
    BY <1>0 DEF Request
  <2>3. reqs' = (reqs \ {r}) \cup {s}
    BY <1>1 DEF BookAccess, Replace
  <2>4. Drawn(s) = Drawn(r) /\ \A e \in Env : SeqFor(s, e) = SeqFor(r, e) /\ (Carries(s, e) <=> Carries(r, e))
    BY <2>2 DEF Drawn, SeqFor, Carries
  <2> HIDE DEF s
  <2>5. UNCHANGED <<store, nextSeq>> /\ \A q \in reqs : q.dev = r.dev => ~q.begun
    BY <1>1 DEF BookAccess
  <2>6. \A e, f \in Drawn(s) : SeqFor(s, e) = nextSeq /\ SeqFor(s, f) = nextSeq => e = f
    BY <1>0, <2>4
  <2>7. GoesOn(r, s)
    BY <1>0, <2>2, <2>4, <2>5, <2>6 DEF GoesOn
  <2>8. RequestInv'
    BY <1>0, <2>3, <2>5, <2>7, RequestGoesOn
  <2> QED BY <2>1, <2>2, <2>3, <2>8
<1>2. CASE RateLimited(r)
  <2> DEFINE s == [r EXCEPT !.begun = TRUE, !.todo = {},
                     !.res = [e \in Env |-> IF e \in r.todo THEN Said("rate_limited") ELSE @[e]]]
  <2>1. Said("rate_limited") \in Outcome /\ Said("rate_limited").kind = "rate_limited"
    BY OutcomeType DEF Kind, Said
  <2>2. [e \in Env |-> IF e \in r.todo THEN Said("rate_limited") ELSE r.res[e]] \in [Env -> Outcome]
    BY <1>0, <2>1 DEF Request
  <2>3. s \in Request
    BY <1>0, <2>2 DEF Request
  <2>4. /\ s.dev = r.dev /\ s.live = r.live /\ s.begun /\ s.todo = {} /\ s.cur = NoEnv
        /\ \A e \in Env : s.res[e] = IF e \in r.todo THEN Said("rate_limited") ELSE r.res[e]
    BY <1>0, <1>2 DEF Request, RateLimited
  <2>5. reqs' = (reqs \ {r}) \cup {s}
    BY <1>2 DEF RateLimited, Replace
  <2>6. \A e \in Env : s.res[e].kind # "acked" /\ (Carries(s, e) => Carries(r, e))
    BY <1>0, <1>2, <2>1, <2>4 DEF Carries, RateLimited
  <2>7. Drawn(s) = {}
    BY <1>0, <2>4, <2>6 DEF Drawn
  <2> HIDE DEF s
  <2>8. UNCHANGED <<store, nextSeq>> /\ \A q \in reqs : q.dev = r.dev => ~q.begun
    BY <1>2 DEF RateLimited
  <2>9. GoesOn(r, s)
    BY <2>4, <2>6, <2>7, <2>8 DEF GoesOn
  <2>10. RequestInv'
    BY <1>0, <2>5, <2>8, <2>9, RequestGoesOn
  <2> QED BY <2>3, <2>4, <2>5, <2>10
<1>3. ASSUME NEW e \in Env, JudgeNoRole(r, e) \/ JudgeQuota(r, e) \/ JudgeDuplicate(r, e)
      PROVE  \E s \in Request :
               /\ reqs' = (reqs \ {r}) \cup {s} /\ s.dev = r.dev /\ s.live = r.live
               /\ RequestInv'
  <2>1. PICK o \in Outcome : /\ Judge(r, e, o)
                             /\ o.kind = "acked" => store[e] # 0 /\ o.seq = store[e]
                             /\ o.kind # "none"
    <3>1. /\ Said("no_role") \in Outcome /\ Said("quota") \in Outcome /\ Acked(store[e]) \in Outcome
          /\ Said("no_role").kind = "no_role" /\ Said("quota").kind = "quota"
          /\ Acked(store[e]).kind = "acked" /\ Acked(store[e]).seq = store[e]
      BY <1>0, OutcomeType DEF Kind, Said, Acked
    <3> QED BY <1>3, <3>1 DEF JudgeNoRole, JudgeQuota, JudgeDuplicate
  <2> DEFINE s == [r EXCEPT !.todo = @ \ {e}, !.res[e] = o]
  <2>2. s \in Request
    BY <1>0 DEF Request
  <2>3. /\ s.dev = r.dev /\ s.live = r.live /\ s.begun = r.begun /\ s.todo = r.todo \ {e}
        /\ s.cur = r.cur /\ s.seq = r.seq
        /\ \A f \in Env : s.res[f] = IF f = e THEN o ELSE r.res[f]
    BY <1>0 DEF Request
  <2>4. reqs' = (reqs \ {r}) \cup {s} /\ r.begun /\ r.cur = NoEnv /\ e \in r.todo
    BY <2>1 DEF Judge, Replace
  <2>5. \A f \in Env : Carries(s, f) => Carries(r, f)
    BY <2>3, <2>4 DEF Carries
  <2>6. /\ \A f \in Drawn(s) : f \in Drawn(r) /\ SeqFor(s, f) = SeqFor(r, f)
        /\ \A f \in Env : s.res[f].kind = "acked" /\ store[f] # 0 => s.res[f].seq = store[f]
    BY <1>0, <2>1, <2>3, <2>4 DEF Drawn, SeqFor
  <2> HIDE DEF s
  <2>7. UNCHANGED <<store, nextSeq>>
    BY <2>1 DEF Judge
  <2>8. \A f, g \in Drawn(s) : SeqFor(s, f) = nextSeq /\ SeqFor(s, g) = nextSeq => f = g
    BY <1>0, <2>6
  <2>9. GoesOn(r, s)
    BY <2>3, <2>4, <2>5, <2>6, <2>8 DEF GoesOn
  <2>10. RequestInv'
    BY <1>0, <2>4, <2>7, <2>9, RequestGoesOn
  <2> QED BY <2>2, <2>3, <2>4, <2>10
<1>4. ASSUME NEW e \in Env, JudgeInsert(r, e)
      PROVE  \E s \in Request :
               /\ reqs' = (reqs \ {r}) \cup {s} /\ s.dev = r.dev /\ s.live = r.live
               /\ RequestInv'
  <2> DEFINE s == [r EXCEPT !.cur = e, !.seq = nextSeq]
  <2>1. s \in Request
    BY <1>0 DEF Request
  <2>2. /\ s.dev = r.dev /\ s.live = r.live /\ s.begun = r.begun /\ s.todo = r.todo
        /\ s.cur = e /\ s.seq = nextSeq /\ s.res = r.res
    BY <1>0 DEF Request
  <2>3. /\ reqs' = (reqs \ {r}) \cup {s} /\ r.begun /\ r.cur = NoEnv /\ e \in r.todo /\ store[e] = 0
        /\ nextSeq' = nextSeq + 1 /\ UNCHANGED store
    BY <1>4 DEF JudgeInsert, Replace
  <2>4. \A f \in Env : Carries(s, f) => Carries(r, f)
    BY <2>2, <2>3 DEF Carries
  <2>5. \A f \in Drawn(s) : \/ f = e /\ SeqFor(s, f) = nextSeq
                            \/ f # e /\ f \in Drawn(r) /\ SeqFor(s, f) = SeqFor(r, f)
    BY <1>0, <2>2, <2>3 DEF Drawn, SeqFor
  <2>6. \A f, g \in Drawn(s) : SeqFor(s, f) = nextSeq /\ SeqFor(s, g) = nextSeq => f = g
    BY <1>0, <2>5
  <2> HIDE DEF s
  <2>7. nextSeq' \in Nat /\ nextSeq < nextSeq' /\ nextSeq <= nextSeq'
    BY <1>0, <2>3
  <2>8. \A f \in Env : s.res[f].kind = "acked" /\ store[f] # 0 => s.res[f].seq = store[f]
    BY <1>0, <2>2
  <2>9. GoesOn(r, s)
    BY <2>2, <2>3, <2>4, <2>5, <2>6, <2>7, <2>8 DEF GoesOn
  <2>10. RequestInv'
    BY <1>0, <2>3, <2>7, <2>9, RequestGoesOn
  <2> QED BY <2>1, <2>2, <2>3, <2>10
<1>6. ASSUME NEW e \in Env, InsertDenied(r, e)
      PROVE  \E s \in Request :
               /\ reqs' = (reqs \ {r}) \cup {s} /\ s.dev = r.dev /\ s.live = r.live
               /\ RequestInv'
  <2>1. Said("no_role") \in Outcome /\ Said("no_role").kind = "no_role"
    BY OutcomeType DEF Kind, Said
  <2> DEFINE s == [r EXCEPT !.todo = @ \ {e}, !.res[e] = Said("no_role")]
  <2>2. s \in Request
    BY <1>0, <2>1 DEF Request
  <2>3. /\ s.dev = r.dev /\ s.live = r.live /\ s.begun = r.begun /\ s.todo = r.todo \ {e}
        /\ s.cur = r.cur /\ s.seq = r.seq
        /\ \A f \in Env : s.res[f] = IF f = e THEN Said("no_role") ELSE r.res[f]
    BY <1>0 DEF Request
  <2>4. /\ reqs' = (reqs \ {r}) \cup {s} /\ r.begun /\ r.cur = NoEnv /\ e \in r.todo
        /\ nextSeq' = nextSeq + 1 /\ UNCHANGED store
    BY <1>6 DEF InsertDenied, Replace
  <2>5. \A f \in Env : Carries(s, f) => Carries(r, f)
    BY <2>3, <2>4 DEF Carries
  <2>6. /\ \A f \in Drawn(s) : f \in Drawn(r) /\ SeqFor(s, f) = SeqFor(r, f)
        /\ \A f \in Env : s.res[f].kind = "acked" /\ store[f] # 0 => s.res[f].seq = store[f]
    BY <1>0, <2>1, <2>3, <2>4 DEF Drawn, SeqFor
  <2> HIDE DEF s
  <2>7. nextSeq' \in Nat /\ nextSeq < nextSeq' /\ nextSeq <= nextSeq'
    BY <1>0, <2>4
  <2>8. \A f, g \in Drawn(s) : SeqFor(s, f) = nextSeq /\ SeqFor(s, g) = nextSeq => f = g
    BY <1>0, <2>6
  <2>9. GoesOn(r, s)
    BY <2>3, <2>4, <2>5, <2>6, <2>8 DEF GoesOn
  <2>10. RequestInv'
    BY <1>0, <2>4, <2>7, <2>9, RequestGoesOn
  <2> QED BY <2>2, <2>3, <2>4, <2>10
<1>5. CASE BumpUsage(r)
  <2> DEFINE s == [r EXCEPT !.todo = @ \ {r.cur}, !.res[r.cur] = Acked(r.seq),
                     !.count = @ + 1, !.cur = NoEnv, !.seq = 0]
  <2>1. /\ r.cur \in Env /\ r.cur \in r.todo /\ r.seq \in Nat /\ r.count + 1 \in Nat
        /\ Acked(r.seq) \in Outcome /\ Acked(r.seq).kind = "acked" /\ Acked(r.seq).seq = r.seq
    BY <1>0, <1>5, OutcomeType DEF BumpUsage, Request, Acked
  <2>2. [r.res EXCEPT ![r.cur] = Acked(r.seq)] \in [Env -> Outcome]
    BY <1>0, <2>1 DEF Request
  <2>3. s \in Request
    BY <1>0, <2>1, <2>2 DEF Request
  <2>4. /\ s.dev = r.dev /\ s.live = r.live /\ s.begun = r.begun /\ s.todo = r.todo \ {r.cur}
        /\ s.cur = NoEnv
        /\ \A f \in Env : s.res[f] = IF f = r.cur THEN Acked(r.seq) ELSE r.res[f]
    BY <1>0, <2>1 DEF Request
  <2>5. reqs' = (reqs \ {r}) \cup {s} /\ r.begun
    BY <1>0, <1>5 DEF BumpUsage, Replace
  <2>6. \A f \in Env : Carries(s, f) => Carries(r, f)
    BY <1>0, <2>1, <2>4 DEF Carries
  <2>7. \A f \in Drawn(s) : f \in Drawn(r) /\ SeqFor(s, f) = SeqFor(r, f)
    BY <1>0, <2>1, <2>4 DEF Drawn, SeqFor
  <2>8. \A f \in Env : s.res[f].kind = "acked" /\ store[f] # 0 => s.res[f].seq = store[f]
    BY <1>0, <2>1, <2>4
  <2> HIDE DEF s
  <2>9. UNCHANGED <<store, nextSeq>>
    BY <1>5 DEF BumpUsage
  <2>10. \A f, g \in Drawn(s) : SeqFor(s, f) = nextSeq /\ SeqFor(s, g) = nextSeq => f = g
    BY <1>0, <2>7
  <2>11. GoesOn(r, s)
    BY <2>4, <2>5, <2>6, <2>7, <2>8, <2>10 DEF GoesOn
  <2>12. RequestInv'
    BY <1>0, <2>5, <2>9, <2>11, RequestGoesOn
  <2> QED BY <2>3, <2>4, <2>5, <2>12
<1> QED BY <1>1, <1>2, <1>3, <1>4, <1>5, <1>6

-----------------------------------------------------------------------------
(***************************************************************************)
(* The requests, over every step.                                          *)
(***************************************************************************)

\* What device d may do, its round and what befalls it.
DeviceActs(d) ==
    \/ DeviceStep(d) \/ KeyArrives(d) \/ PushFailed(d) \/ PushRefused(d)
    \/ PullFailed(d) \/ BackoffOver(d) \/ ResumeBook(d) \/ Crash(d)

\* An epoch change only puts acked rows of d back in the queue.
LEMMA ObserveKeeps ==
    ASSUME TypeOK, NEW d \in Device, NEW ep, ObserveEpoch(d, ep)
    PROVE  /\ \A e \in Env : \/ st'[e] = st[e] /\ ackedSeq'[e] = ackedSeq[e]
                             \/ Author[e] = d /\ st[e] = "acked" /\ st'[e] = "queued"
           /\ devEpoch'[d] = devEpoch[d] \/ \A e \in Own(d) : st'[e] # "acked"
           /\ devEpoch'[d] = ep
           /\ \A c \in Device : c # d => devEpoch'[c] = devEpoch[c]
BY DEF ObserveEpoch, TypeOK, Requeued, Own

\* What a device's step leaves alone: the store, what is saved, and all that is
\* the other devices'.
LEMMA DeviceActsAlone ==
    ASSUME TypeOK, NEW d \in Device, BatchHeld(d), DeviceActs(d)
    PROVE  /\ UNCHANGED <<store, nextSeq, epoch>>
           /\ \A e \in Env : st'[e] = "new" <=> st[e] = "new"
           /\ \A e \in Env : Author[e] # d => st'[e] = st[e] /\ ackedSeq'[e] = ackedSeq[e]
           /\ \A c \in Device : c # d => /\ UNCHANGED <<pc[c], response[c], batch[c], devEpoch[c]>>
                                         /\ UNCHANGED <<page[c], have[c]>>
<1> DEFINE Alone ==
           /\ UNCHANGED <<store, nextSeq, epoch>>
           /\ \A e \in Env : st'[e] = "new" <=> st[e] = "new"
           /\ \A e \in Env : Author[e] # d => st'[e] = st[e] /\ ackedSeq'[e] = ackedSeq[e]
           /\ \A c \in Device : c # d => /\ UNCHANGED <<pc[c], response[c], batch[c], devEpoch[c]>>
                                         /\ UNCHANGED <<page[c], have[c]>>
<1>1. CASE StartRound(d)
  BY <1>1, ObserveKeeps DEF StartRound, storeVars, TypeOK
<1>2. CASE Push(d)
  <2>1. PICK b \in SUBSET OwnIn(d, "queued") :
           /\ st' = [e \in Env |-> IF e \in b THEN "inflight" ELSE st[e]]
           /\ batch' = [batch EXCEPT ![d] = b]
    BY <1>2 DEF Push
  <2> QED BY <1>2, <2>1 DEF Push, TypeOK, OwnIn, Own
<1>3. CASE SkipPush(d) \/ PushDone(d)
  BY <1>3 DEF SkipPush, PushDone, BeginPull, storeVars, dbVars, TypeOK, StoreTypeOK
<1>4. CASE ReceivePush(d)
  BY <1>4, ObserveKeeps DEF ReceivePush, storeVars, TypeOK
<1>5. ASSUME NEW e \in Env, \/ HandleAcked(d, e) \/ HandleRateLimited(d, e)
                            \/ HandleQuota(d, e) \/ HandleNoRole(d, e)
      PROVE  Alone
  BY <1>5 DEF HandleAcked, HandleRateLimited, HandleQuota, HandleNoRole, Handle, storeVars,
              TypeOK, BatchHeld
<1>6. CASE ServePull(d)
  BY <1>6 DEF ServePull, Answered, dbVars, TypeOK
<1>7. CASE RestartPull(d)
  BY <1>7, ObserveKeeps DEF RestartPull, storeVars, TypeOK
<1>8. CASE KeepPulling(d)
  BY <1>8, ObserveKeeps DEF KeepPulling, storeVars, memVars, TypeOK
<1>9. CASE StorePage(d)
  BY <1>9 DEF StorePage, storeVars, TypeOK, SeenBack, Observable, Own
<1>10. CASE SetCursor(d)
  BY <1>10 DEF SetCursor, storeVars, TypeOK
<1>11. CASE ReadYourWrites(d)
  BY <1>11 DEF ReadYourWrites, storeVars, TypeOK, Lost, OwnIn, Own
<1>12. CASE Prune(d)
  BY <1>12 DEF Prune, storeVars, TypeOK, OwnIn, Own
<1>13. CASE KeyArrives(d) \/ DrainKeyWait(d)
  BY <1>13 DEF KeyArrives, DrainKeyWait, storeVars, memVars, TypeOK
<1>14. CASE PushFailed(d)
  BY <1>14 DEF PushFailed, GiveUpBatch, TypeOK, StoreTypeOK, BatchHeld
<1>15. CASE PushRefused(d)
  BY <1>15 DEF PushRefused, GiveUpBatch, BeginPull, TypeOK, StoreTypeOK, BatchHeld
<1>16. CASE PullFailed(d)
  BY <1>16 DEF PullFailed, dbVars, TypeOK
<1>17. CASE BackoffOver(d) \/ ResumeBook(d)
  BY <1>17 DEF BackoffOver, ResumeBook, storeVars, dbVars
<1>18. CASE Crash(d)
  BY <1>18 DEF Crash, dbVars, TypeOK, StoreTypeOK
<1> QED BY <1>1, <1>2, <1>3, <1>4, <1>5, <1>6, <1>7, <1>8, <1>9, <1>10, <1>11, <1>12, <1>13,
           <1>14, <1>15, <1>16, <1>17, <1>18 DEF DeviceActs, DeviceStep

\* A pushed batch adds a request that has not begun.
LEMMA RequestPushed ==
    ASSUME TypeOK, RequestInv, NEW d \in Device, Push(d)
    PROVE  /\ RequestInv'
           /\ \E b \in SUBSET Env : /\ reqs' = reqs \cup {NewRequest(d, b)}
                                   /\ NewRequest(d, b).dev = d
<1>1. PICK b \in SUBSET OwnIn(d, "queued") :
         /\ st' = [e \in Env |-> IF e \in b THEN "inflight" ELSE st[e]]
         /\ reqs' = reqs \cup {NewRequest(d, b)}
  BY DEF Push
<1> DEFINE n == NewRequest(d, b)
<1>2. /\ n.dev = d /\ ~n.begun /\ n.todo = b /\ n.cur = NoEnv
      /\ \A e \in Env : n.res[e].kind = "none"
      /\ b \subseteq Env /\ NoEnv \notin Env
  BY EnvFinite DEF NewRequest, Nothing, OwnIn, Own
<1>3. UNCHANGED <<store, nextSeq>>
  BY DEF Push
<1>4. \A q : Drawn(q)' = Drawn(q)
  BY <1>3 DEF Drawn
<1>5. Drawn(n) = {}
  BY <1>2 DEF Drawn
<1>6. \A e \in Env : Carries(n, e) => e \in b
  BY <1>2 DEF Carries
<1>7. \A e \in b : Author[e] = d /\ st'[e] # "new"
  BY <1>1, <1>2 DEF OwnIn, Own
<1>8. \A e \in Env : st[e] # "new" => st'[e] # "new"
  BY <1>1
<1>9. reqs' = reqs \cup {n}
  BY <1>1
<1> HIDE DEF n
<1>10. PushedByAuthor'
  BY <1>9, <1>2, <1>6, <1>7, <1>8 DEF RequestInv, PushedByAuthor, Carries
<1>11. OneTransaction'
  BY <1>9, <1>2 DEF RequestInv, OneTransaction
<1>12. SeqsAreDrawn'
  BY <1>9, <1>3, <1>4, <1>5 DEF RequestInv, SeqsAreDrawn, SeqFor
<1>13. SeqsAreDistinct'
  BY <1>9, <1>3, <1>4, <1>5 DEF RequestInv, SeqsAreDistinct, SeqFor
<1>14. AcksAreTrue'
  BY <1>9, <1>2, <1>3 DEF RequestInv, AcksAreTrue
<1> QED BY <1>1, <1>2, <1>10, <1>11, <1>12, <1>13, <1>14 DEF RequestInv, n

\* Any other step of a device.
LEMMA RequestsOfActs ==
    ASSUME TypeOK, RequestInv, NEW d \in Device, BatchHeld(d), DeviceActs(d)
    PROVE  /\ RequestInv'
           /\ \A c \in Device : c # d => Listened(c)' = Listened(c)
<1>0. /\ UNCHANGED <<store, nextSeq>> /\ reqs \in SUBSET Request
      /\ \A e \in Env : st[e] # "new" => st'[e] # "new"
  BY DeviceActsAlone, RequestTypes
<1>1. CASE Push(d)
  <2>1. PICK b \in SUBSET Env : reqs' = reqs \cup {NewRequest(d, b)} /\ NewRequest(d, b).dev = d
    BY <1>1, RequestPushed
  <2> QED BY <1>1, <2>1, RequestPushed DEF Listened
<1>2. CASE reqs' \subseteq reqs /\ \A r \in reqs \ reqs' : r.dev = d
  <2>1. \A x \in reqs' : \E r \in reqs : Fades(x, r)
    BY <1>0, <1>2 DEF Fades
  <2>2. \A x, y \in reqs' : x.begun /\ y.begun /\ x.dev = y.dev => x = y
    BY <1>2 DEF RequestInv, OneTransaction
  <2> QED BY <1>0, <1>2, <2>1, <2>2, RequestsFade DEF Listened
<1>3. CASE reqs' = Orphaned(d)
  <2>1. \A x \in reqs' : \E r \in reqs : x = IF r.dev = d THEN [r EXCEPT !.live = FALSE] ELSE r
    BY <1>3 DEF Orphaned
  <2>2. \A r \in reqs : /\ [r EXCEPT !.live = FALSE] \in Request
                        /\ [r EXCEPT !.live = FALSE].dev = r.dev
                        /\ [r EXCEPT !.live = FALSE].begun = r.begun
    BY <1>0 DEF Request
  <2>3. \A x \in reqs' : \E r \in reqs : Fades(x, r)
    BY <1>0, <2>1, <2>2 DEF Fades
  <2>4. ASSUME NEW x \in reqs', NEW y \in reqs', x.begun, y.begun, x.dev = y.dev PROVE x = y
    <3>1. PICK r \in reqs : x = IF r.dev = d THEN [r EXCEPT !.live = FALSE] ELSE r
      BY <2>1
    <3>2. PICK q \in reqs : y = IF q.dev = d THEN [q EXCEPT !.live = FALSE] ELSE q
      BY <2>1
    <3>3. r.begun /\ q.begun /\ r.dev = q.dev
      BY <2>2, <2>4, <3>1, <3>2
    <3>4. r = q
      BY <3>3 DEF RequestInv, OneTransaction
    <3> QED BY <3>1, <3>2, <3>4
  <2>5. ASSUME NEW c \in Device, c # d PROVE Listened(c)' = Listened(c)
    <3>1. \A r \in reqs : r.dev = c => r \in reqs'
      BY <1>3, <2>5 DEF Orphaned
    <3>2. \A x \in reqs' : x.dev = c => x \in reqs
      BY <2>1, <2>2, <2>5
    <3> QED BY <3>1, <3>2 DEF Listened
  <2> QED BY <1>0, <2>3, <2>4, <2>5, RequestsFade
<1>4. CASE PushRefused(d)
  BY <1>2, <1>4 DEF PushRefused
<1>5. CASE PushFailed(d) \/ Crash(d)
  BY <1>3, <1>5 DEF PushFailed, Crash
<1>6. CASE ~(Push(d) \/ PushRefused(d) \/ PushFailed(d) \/ Crash(d))
  <2>1. \A e \in Env : Handle(d, e, "acked") \/ Handle(d, e, "rate_limited") \/ Handle(d, e, "quota")
                         \/ Handle(d, e, "no_role") => reqs' = reqs
    BY DEF Handle, storeVars
  <2>2. reqs' = reqs
    BY <1>6, <2>1 DEF DeviceActs, DeviceStep, StartRound, SkipPush, ReceivePush, PushDone,
              HandleAcked, HandleRateLimited, HandleQuota, HandleNoRole, ServePull, RestartPull,
              StorePage, KeepPulling, SetCursor, ReadYourWrites, Prune, KeyArrives, DrainKeyWait,
              PullFailed, BackoffOver, ResumeBook, storeVars
  <2> QED BY <1>2, <2>2
<1> QED BY <1>1, <1>4, <1>5, <1>6

\* A restore ends every open transaction and gives no seq twice.
LEMMA RequestsRestored ==
    ASSUME TypeOK, RequestInv, Restore, UNCHANGED st
    PROVE  RequestInv'
<1>1. PICK kept \in SUBSET Stored :
         /\ store' = [e \in Env |-> IF e \in kept THEN store[e] ELSE 0]
         /\ nextSeq' \in {n \in 1 .. nextSeq : \A e \in kept : store[e] < n}
  BY DEF Restore
<1>2. /\ reqs' = {r \in reqs : ~r.begun} /\ store \in [Env -> Nat] /\ nextSeq \in Nat
      /\ nextSeq' \in Nat /\ nextSeq' # 0 /\ NoEnv \notin Env
  BY <1>1, RequestTypes, EnvFinite DEF Restore
<1>3. \A r \in reqs' : r.cur = NoEnv /\ (\A e \in Env : r.res[e].kind = "none") /\ Drawn(r)' = {}
  BY <1>2 DEF RequestInv, OneTransaction, Drawn
<1>4. PushedByAuthor'
  BY <1>2 DEF RequestInv, PushedByAuthor, Carries
<1>5. OneTransaction'
  BY <1>2, <1>3 DEF OneTransaction
<1>6. SeqsAreDrawn'
  <2>1. \A e \in Env : store'[e] < nextSeq'
    BY <1>1, <1>2
  <2> QED BY <1>3, <2>1 DEF SeqsAreDrawn
<1>7. SeqsAreDistinct'
  <2>1. \A e, f \in Env : store'[e] = store'[f] /\ store'[e] # 0 => e = f
    BY <1>1 DEF RequestInv, SeqsAreDistinct
  <2> QED BY <1>3, <2>1 DEF SeqsAreDistinct
<1>8. AcksAreTrue'
  BY <1>3 DEF AcksAreTrue
<1> QED BY <1>4, <1>5, <1>6, <1>7, <1>8 DEF RequestInv

-----------------------------------------------------------------------------
(***************************************************************************)
(* The outbox.                                                             *)
(***************************************************************************)

\* Shapes of one device's state.
LEMMA OutboxTypes ==
    ASSUME TypeOK, NEW d \in Device
    PROVE  /\ response[d] \in Answer \cup {NoResponse} /\ batch[d] \subseteq Env /\ page[d] \in Page
           /\ epoch \in Nat /\ devEpoch[d] \in Nat /\ page[d].epoch \in Nat
           /\ response[d] # NoResponse => response[d].epoch \in Nat
           /\ \A e \in Env : store[e] \in Nat
BY BoundsAreNat DEF TypeOK, StoreTypeOK, Answer, Page

\* Device c does nothing; rows may commit, none is lost, and nobody new answers
\* to it.
LEMMA OutboxStays ==
    ASSUME TypeOK, NEW c \in Device, OutboxInv(c), OneAnswerAwaited(c)', AnswerIsTrue(c)',
           UNCHANGED <<pc[c], batch[c], devEpoch[c], page[c], epoch>>,
           response'[c] = response[c] \/ (pc[c] # "results" /\ response'[c].epoch = epoch),
           \A e \in Env : store[e] # 0 => store'[e] = store[e],
           \A e \in Own(c) : \/ st'[e] = st[e] /\ ackedSeq'[e] = ackedSeq[e]
                             \/ st[e] = "new" /\ st'[e] = "queued"
    PROVE  OutboxInv(c)'
<1>1. EpochsFromStore(c)'
  BY OutboxTypes DEF OutboxInv, EpochsFromStore, EpochsBehind
<1>2. ResultsOfEpoch(c)'
  BY DEF OutboxInv, ResultsOfEpoch
<1>3. BatchHeld(c)'
  BY OutboxTypes DEF OutboxInv, BatchHeld, Own
<1>4. AckedInStore(c)'
  BY DEF OutboxInv, AckedInStore, Own
<1> QED BY <1>1, <1>2, <1>3, <1>4 DEF OutboxInv

\* A step of another device.
LEMMA OutboxOfOthers ==
    ASSUME TypeOK, RequestInv, NEW d \in Device, BatchHeld(d), DeviceActs(d),
           NEW c \in Device, c # d, OutboxInv(c)
    PROVE  OutboxInv(c)'
<1>1. /\ UNCHANGED <<store, epoch, pc[c], response[c], batch[c], devEpoch[c], page[c]>>
      /\ \A e \in Own(c) : st'[e] = st[e] /\ ackedSeq'[e] = ackedSeq[e]
      /\ Listened(c)' = Listened(c)
  BY DeviceActsAlone, RequestsOfActs DEF Own
<1>2. OneAnswerAwaited(c)' /\ AnswerIsTrue(c)'
  BY <1>1 DEF OutboxInv, OneAnswerAwaited, AnswerIsTrue
<1> QED BY <1>1, <1>2, OutboxStays

\* A transaction judges, inserts or is told to come back.
LEMMA OutboxServed ==
    ASSUME TypeOK, NEW c \in Device, OutboxInv(c), UNCHANGED <<dbVars, memVars, store, epoch, response>>,
           NEW r \in reqs, NEW s, s.dev = r.dev, s.live = r.live, reqs' = (reqs \ {r}) \cup {s}
    PROVE  OutboxInv(c)'
<1>1. /\ UNCHANGED <<pc[c], response[c], batch[c], devEpoch[c], page[c]>>
      /\ \A e \in Own(c) : st'[e] = st[e] /\ ackedSeq'[e] = ackedSeq[e]
  BY DEF dbVars, memVars
<1>2. Listened(c)' \subseteq (Listened(c) \ {r}) \cup {s} /\ (s \in Listened(c)' => r \in Listened(c) \/ s \in Listened(c))
  BY DEF Listened
<1>3. OneAnswerAwaited(c)'
  <2>1. Listened(c)' # {} => Listened(c) # {}
    BY <1>2 DEF Listened
  <2>2. \A x, y \in Listened(c)' : x = y
    BY <1>2 DEF OutboxInv, OneAnswerAwaited, Listened
  <2> QED BY <1>1, <2>1, <2>2 DEF OutboxInv, OneAnswerAwaited
<1>4. AnswerIsTrue(c)'
  BY DEF OutboxInv, AnswerIsTrue
<1> QED BY <1>1, <1>3, <1>4, OutboxStays

\* A transaction commits and answers its device, if that still listens.
LEMMA OutboxCommitted ==
    ASSUME TypeOK, RequestInv, NEW c \in Device, OutboxInv(c), UNCHANGED <<dbVars, memVars>>,
           NEW r \in reqs, Commit(r)
    PROVE  OutboxInv(c)'
<1>1. /\ UNCHANGED <<pc[c], batch[c], devEpoch[c], page[c], epoch, st>>
      /\ \A e \in Own(c) : st'[e] = st[e] /\ ackedSeq'[e] = ackedSeq[e]
      /\ reqs' = reqs \ {r} /\ r.dev \in Device /\ r.live \in BOOLEAN
      /\ response \in [Device -> Answer \cup {NoResponse}]
  BY RequestTypes DEF dbVars, memVars, Commit
<1>2. /\ \A e \in Env : store[e] # 0 => store'[e] = store[e]
      /\ \A e \in Env : r.res[e].kind = "acked" => store'[e] # 0 /\ store'[e] = r.res[e].seq
  BY <1>1, RequestCommits
<1>3. Listened(c)' = Listened(c) \ {r}
  BY <1>1 DEF Listened
<1>4. CASE r.live /\ r.dev = c
  <2>1. response'[c] = [epoch |-> epoch, res |-> r.res]
    BY <1>1, <1>4 DEF Commit
  <2>2. r \in Listened(c)
    BY <1>4 DEF Listened
  <2>3. OneAnswerAwaited(c)'
    BY <1>1, <1>3, <2>2 DEF OutboxInv, OneAnswerAwaited
  <2>4. AnswerIsTrue(c)'
    BY <1>2, <2>1 DEF AnswerIsTrue
  <2>5. pc[c] # "results" /\ response'[c].epoch = epoch
    BY <2>1, <2>2 DEF OutboxInv, OneAnswerAwaited
  <2> QED BY <1>1, <1>2, <2>3, <2>4, <2>5, OutboxStays
<1>5. CASE ~(r.live /\ r.dev = c)
  <2>1. response'[c] = response[c] /\ Listened(c)' = Listened(c)
    BY <1>1, <1>3, <1>5 DEF Commit, Listened
  <2>2. OneAnswerAwaited(c)' /\ AnswerIsTrue(c)'
    <3>1. OneAnswerAwaited(c)'
      BY <1>1, <2>1 DEF OutboxInv, OneAnswerAwaited
    <3>2. AnswerIsTrue(c)'
      BY <1>1, <1>2, <2>1 DEF OutboxInv, AnswerIsTrue
    <3> QED BY <3>1, <3>2
  <2> QED BY <1>1, <1>2, <2>1, <2>2, OutboxStays
<1> QED BY <1>4, <1>5

\* A restore opens an epoch no device has heard of.
LEMMA OutboxRestored ==
    ASSUME TypeOK, NEW c \in Device, OutboxInv(c), Restore, UNCHANGED <<dbVars, memVars>>
    PROVE  OutboxInv(c)'
<1>1. /\ UNCHANGED <<pc[c], batch[c], devEpoch[c], page[c], response[c], st>>
      /\ epoch' = epoch + 1 /\ reqs' \subseteq reqs
      /\ epoch \in Nat /\ devEpoch[c] \in Nat /\ page[c].epoch \in Nat
      /\ response[c] # NoResponse => response[c].epoch \in Nat
      /\ devEpoch[c] <= epoch /\ page[c].epoch <= epoch
      /\ response[c] # NoResponse => response[c].epoch <= epoch
  BY OutboxTypes DEF Restore, dbVars, memVars, OutboxInv, EpochsFromStore, EpochsBehind
<1>2. OneAnswerAwaited(c)'
  BY <1>1 DEF OutboxInv, OneAnswerAwaited, Listened
<1>3. EpochsFromStore(c)'
  BY <1>1 DEF EpochsFromStore, EpochsBehind
<1>4. AnswerIsTrue(c)' /\ AckedInStore(c)'
  BY <1>1 DEF AnswerIsTrue, AckedInStore
<1>5. ResultsOfEpoch(c)' /\ BatchHeld(c)'
  BY <1>1 DEF OutboxInv, ResultsOfEpoch, BatchHeld
<1> QED BY <1>2, <1>3, <1>4, <1>5 DEF OutboxInv

\* Device d does something that acks no row and observes no epoch.
LEMMA OutboxGoesOn ==
    ASSUME TypeOK, NEW d \in Device, OutboxInv(d), UNCHANGED <<store, epoch, devEpoch[d]>>,
           OneAnswerAwaited(d)', BatchHeld(d)', page'[d].epoch <= epoch,
           response'[d] = response[d] \/ response'[d] = NoResponse,
           pc'[d] = "results" => pc[d] = "results" /\ response'[d] = response[d],
           \A e \in Own(d) : st'[e] = "acked" => st[e] = "acked" /\ ackedSeq'[e] = ackedSeq[e]
    PROVE  OutboxInv(d)'
<1>1. EpochsFromStore(d)'
  BY OutboxTypes DEF OutboxInv, EpochsFromStore, EpochsBehind
<1>2. AnswerIsTrue(d)'
  BY DEF OutboxInv, AnswerIsTrue
<1>3. ResultsOfEpoch(d)'
  BY DEF OutboxInv, ResultsOfEpoch
<1>4. AckedInStore(d)'
  BY DEF OutboxInv, AckedInStore, Own
<1> QED BY <1>1, <1>2, <1>3, <1>4 DEF OutboxInv

\* Device d observes an epoch.
LEMMA OutboxObserves ==
    ASSUME TypeOK, NEW d \in Device, OutboxInv(d), NEW ep \in Nat, ep <= epoch, ObserveEpoch(d, ep),
           UNCHANGED <<store, epoch, response[d], batch[d], reqs>>, page'[d].epoch <= epoch,
           pc'[d] \in {"sent", "results"} <=> pc[d] \in {"sent", "results"},
           pc'[d] # pc[d] => Listened(d) = {},
           pc'[d] = "results" => response[d].epoch = ep
    PROVE  OutboxInv(d)'
<1>1. /\ devEpoch'[d] = ep
      /\ \A e \in Env : \/ st'[e] = st[e] /\ ackedSeq'[e] = ackedSeq[e]
                        \/ Author[e] = d /\ st[e] = "acked" /\ st'[e] = "queued"
      /\ devEpoch'[d] = devEpoch[d] \/ \A e \in Own(d) : st'[e] # "acked"
  BY ObserveKeeps
<1>2. OneAnswerAwaited(d)'
  BY DEF OutboxInv, OneAnswerAwaited, Listened
<1>3. EpochsFromStore(d)'
  BY <1>1, OutboxTypes DEF OutboxInv, EpochsFromStore, EpochsBehind
<1>4. AnswerIsTrue(d)'
  BY DEF OutboxInv, AnswerIsTrue
<1>5. ResultsOfEpoch(d)'
  BY <1>1 DEF ResultsOfEpoch
<1>6. BatchHeld(d)'
  BY <1>1, OutboxTypes DEF OutboxInv, BatchHeld
<1>7. AckedInStore(d)'
  BY <1>1 DEF OutboxInv, AckedInStore, Own
<1> QED BY <1>2, <1>3, <1>4, <1>5, <1>6, <1>7 DEF OutboxInv

\* One result of the batch is handled.
LEMMA OutboxHandles ==
    ASSUME TypeInv, NEW d \in Device, OutboxInv(d), NEW e \in Env,
           \/ HandleAcked(d, e) \/ HandleRateLimited(d, e)
           \/ HandleQuota(d, e) \/ HandleNoRole(d, e)
    PROVE  OutboxInv(d)'
<1>0. TypeOK
  BY DEF TypeInv
<1>1. /\ UNCHANGED <<store, epoch, reqs, response, devEpoch, pc, page>>
      /\ pc[d] = "results" /\ e \in batch[d] /\ batch'[d] = batch[d] \ {e}
      /\ \A f \in Env : f # e => st'[f] = st[f] /\ ackedSeq'[f] = ackedSeq[f]
      /\ page[d].epoch <= epoch /\ epoch \in Nat /\ response[d] # NoResponse
      /\ batch[d] \subseteq Env
  BY <1>0, OutboxTypes DEF HandleAcked, HandleRateLimited, HandleQuota, HandleNoRole, Handle,
        storeVars, TypeOK, OutboxInv, EpochsFromStore, TypeInv, AnswerInHand
<1>2. OneAnswerAwaited(d)' /\ BatchHeld(d)'
  <2>1. OneAnswerAwaited(d)'
    BY <1>1 DEF OutboxInv, OneAnswerAwaited, Listened
  <2>2. BatchHeld(d)'
    BY <1>1 DEF OutboxInv, BatchHeld
  <2> QED BY <2>1, <2>2
<1>3. CASE HandleAcked(d, e)
  <2>1. /\ response[d].res[e].kind = "acked" /\ ackedSeq'[e] = response[d].res[e].seq
    BY <1>0, <1>3 DEF HandleAcked, Handle, TypeOK
  <2>2. response[d].epoch = devEpoch[d]
    BY <1>1 DEF OutboxInv, ResultsOfEpoch
  <2>3. devEpoch[d] = epoch => store[e] # 0 /\ store[e] = ackedSeq'[e]
    BY <1>1, <2>1, <2>2 DEF OutboxInv, AnswerIsTrue
  <2>4. AckedInStore(d)'
    BY <1>1, <2>3 DEF OutboxInv, AckedInStore, Own
  <2>5. EpochsFromStore(d)' /\ AnswerIsTrue(d)' /\ ResultsOfEpoch(d)'
    <3>1. EpochsFromStore(d)'
      BY <1>1 DEF OutboxInv, EpochsFromStore, EpochsBehind
    <3>2. AnswerIsTrue(d)'
      BY <1>1 DEF OutboxInv, AnswerIsTrue
    <3>3. ResultsOfEpoch(d)'
      BY <1>1 DEF OutboxInv, ResultsOfEpoch
    <3> QED BY <3>1, <3>2, <3>3
  <2> QED BY <1>2, <2>4, <2>5 DEF OutboxInv
<1>4. CASE HandleRateLimited(d, e) \/ HandleQuota(d, e) \/ HandleNoRole(d, e)
  <2>1. st'[e] # "acked"
    BY <1>0, <1>4 DEF HandleRateLimited, HandleQuota, HandleNoRole, TypeOK
  <2>2. \A f \in Own(d) : st'[f] = "acked" => st[f] = "acked" /\ ackedSeq'[f] = ackedSeq[f]
    BY <1>1, <2>1 DEF Own
  <2> QED BY <1>0, <1>1, <1>2, <2>2, OutboxGoesOn
<1> QED BY <1>3, <1>4

\* Once orphaned, d's requests answer to nobody.
LEMMA NobodyListened ==
    ASSUME TypeOK, NEW d \in Device, reqs' = Orphaned(d)
    PROVE  Listened(d)' = {}
<1>1. \A r \in reqs : [r EXCEPT !.live = FALSE].live = FALSE
  BY RequestTypes DEF Request
<1>2. ASSUME NEW x \in Listened(d)' PROVE FALSE
  <2>1. PICK r \in reqs : x = IF r.dev = d THEN [r EXCEPT !.live = FALSE] ELSE r
    BY <1>2 DEF Listened, Orphaned
  <2> QED BY <1>1, <1>2, <2>1 DEF Listened
<1> QED BY <1>2

\* The push call is given up.
LEMMA OutboxGivenUp ==
    ASSUME TypeOK, NEW d \in Device, OutboxInv(d), GiveUpBatch(d), Listened(d)' = {},
           pc'[d] # "results"
    PROVE  OutboxInv(d)'
<1>1. /\ UNCHANGED <<store, epoch, devEpoch[d], page[d]>>
      /\ response'[d] = NoResponse /\ batch'[d] = {}
      /\ \A e \in Own(d) : st'[e] = "acked" => st[e] = "acked" /\ ackedSeq'[e] = ackedSeq[e]
  BY DEF GiveUpBatch, TypeOK, StoreTypeOK, Own
<1>2. OneAnswerAwaited(d)' /\ BatchHeld(d)' /\ page'[d].epoch <= epoch
  BY <1>1 DEF OneAnswerAwaited, BatchHeld, OutboxInv, EpochsFromStore
<1> QED BY <1>1, <1>2, OutboxGoesOn

\* Every other step of d.
LEMMA OutboxOfOwn ==
    ASSUME TypeInv, NEW d \in Device, OutboxInv(d), DeviceActs(d)
    PROVE  OutboxInv(d)'
<1>0. /\ TypeOK /\ page[d].epoch <= epoch /\ epoch \in Nat /\ page[d].epoch \in Nat
      /\ pc[d] \notin {"sent", "results"} =>
            response[d] = NoResponse /\ batch[d] = {} /\ Listened(d) = {}
      /\ pc[d] # "sent" => Listened(d) = {}
      /\ NoPage.epoch = 0
  BY OutboxTypes DEF TypeInv, OutboxInv, OneAnswerAwaited, EpochsFromStore, NoPage
<1>1. CASE StartRound(d)
  <2>1. /\ ObserveEpoch(d, epoch) /\ UNCHANGED <<store, epoch, response, batch, reqs, page>>
        /\ pc[d] = "idle" /\ pc'[d] = "push"
    BY <1>0, <1>1 DEF StartRound, storeVars, TypeOK
  <2> QED BY <1>0, <2>1, OutboxObserves
<1>2. CASE ReceivePush(d)
  <2>1. response[d].epoch \in Nat /\ response[d].epoch <= epoch
    BY <1>0, <1>2, OutboxTypes DEF ReceivePush, OutboxInv, EpochsFromStore, EpochsBehind
  <2>2. Listened(d) = {}
    BY <1>2 DEF ReceivePush, OutboxInv, OneAnswerAwaited
  <2> QED BY <1>0, <1>2, <2>1, <2>2, OutboxObserves DEF ReceivePush, storeVars, TypeOK
<1>3. CASE RestartPull(d)
  <2>1. /\ ObserveEpoch(d, page[d].epoch) /\ UNCHANGED <<store, epoch, response, batch, reqs>>
        /\ page'[d] = NoPage /\ pc[d] = "page" /\ pc'[d] = "pull"
    BY <1>0, <1>3 DEF RestartPull, storeVars, TypeOK
  <2> QED BY <1>0, <2>1, OutboxObserves
<1>4. CASE KeepPulling(d)
  BY <1>0, <1>4, OutboxObserves DEF KeepPulling, storeVars, memVars, TypeOK
<1>5. CASE \E e \in Env : \/ HandleAcked(d, e) \/ HandleRateLimited(d, e)
                          \/ HandleQuota(d, e) \/ HandleNoRole(d, e)
  BY <1>5, OutboxHandles
<1>6. CASE Push(d)
  <2>1. PICK b \in SUBSET OwnIn(d, "queued") :
           /\ st' = [e \in Env |-> IF e \in b THEN "inflight" ELSE st[e]]
           /\ batch' = [batch EXCEPT ![d] = b]
           /\ reqs' = reqs \cup {NewRequest(d, b)}
    BY <1>6 DEF Push
  <2>2. /\ UNCHANGED <<store, epoch, devEpoch, page, response, ackedSeq>>
        /\ pc'[d] = "sent" /\ batch'[d] = b /\ pc[d] = "push"
    BY <1>0, <1>6, <2>1 DEF Push, TypeOK
  <2>3. Listened(d)' \subseteq {NewRequest(d, b)}
    BY <1>0, <2>1, <2>2 DEF Listened
  <2>4. OneAnswerAwaited(d)'
    BY <1>0, <2>2, <2>3 DEF OneAnswerAwaited
  <2>5. BatchHeld(d)'
    BY <2>1, <2>2 DEF BatchHeld, OwnIn, Own
  <2>6. \A e \in Own(d) : st'[e] = "acked" => st[e] = "acked" /\ ackedSeq'[e] = ackedSeq[e]
    BY <2>1, <2>2 DEF Own
  <2> QED BY <1>0, <2>2, <2>4, <2>5, <2>6, OutboxGoesOn
<1>7. CASE PushFailed(d) \/ PushRefused(d)
  <2>1. pc'[d] # "results"
    BY <1>0, <1>7 DEF PushFailed, PushRefused, BeginPull, TypeOK
  <2>2. CASE PushFailed(d)
    BY <1>0, <2>1, <2>2, NobodyListened, OutboxGivenUp DEF PushFailed
  <2>3. CASE PushRefused(d)
    <3>1. PICK r \in Listened(d) : reqs' = reqs \ {r}
      BY <2>3 DEF PushRefused, Listened
    <3>2. Listened(d)' = {}
      BY <3>1 DEF Listened, OutboxInv, OneAnswerAwaited
    <3> QED BY <1>0, <2>1, <2>3, <3>2, OutboxGivenUp DEF PushRefused
  <2> QED BY <1>7, <2>2, <2>3
<1>8. CASE Crash(d)
  <2>1. /\ UNCHANGED <<store, epoch, devEpoch, st, ackedSeq>> /\ page'[d] = NoPage
        /\ response'[d] = NoResponse /\ batch'[d] = {} /\ pc'[d] = "idle"
    BY <1>0, <1>8 DEF Crash, dbVars, TypeOK, StoreTypeOK
  <2>2. OneAnswerAwaited(d)' /\ BatchHeld(d)'
    BY <1>0, <1>8, <2>1, NobodyListened DEF Crash, OneAnswerAwaited, BatchHeld
  <2> QED BY <1>0, <2>1, <2>2, OutboxGoesOn
<1>9. CASE PushDone(d)
  <2>1. /\ UNCHANGED <<store, epoch, devEpoch, st, ackedSeq, page, reqs>> /\ pc[d] = "results"
        /\ response'[d] = NoResponse /\ batch'[d] = {} /\ pc'[d] # "results"
    BY <1>0, <1>9 DEF PushDone, BeginPull, dbVars, TypeOK, StoreTypeOK
  <2>2. OneAnswerAwaited(d)' /\ BatchHeld(d)'
    BY <1>0, <2>1 DEF OneAnswerAwaited, BatchHeld, Listened
  <2> QED BY <1>0, <2>1, <2>2, OutboxGoesOn
<1>10. CASE BackoffOver(d) \/ ResumeBook(d)
  <2>1. UNCHANGED <<store, epoch, devEpoch, st, ackedSeq, page, reqs, response, batch, pc>>
    BY <1>10 DEF BackoffOver, ResumeBook, storeVars, dbVars
  <2>2. OneAnswerAwaited(d)' /\ BatchHeld(d)'
    BY <2>1 DEF OutboxInv, OneAnswerAwaited, BatchHeld, Listened
  <2> QED BY <1>0, <2>1, <2>2, OutboxGoesOn
<1>11. CASE \/ SkipPush(d) \/ ServePull(d) \/ StorePage(d) \/ SetCursor(d) \/ ReadYourWrites(d)
            \/ Prune(d) \/ KeyArrives(d) \/ DrainKeyWait(d) \/ PullFailed(d)
  <2>1. /\ UNCHANGED <<store, epoch, devEpoch, reqs, response, batch>>
        /\ pc[d] \notin {"sent", "results"} /\ pc'[d] \notin {"sent", "results"}
    BY <1>0, <1>11 DEF SkipPush, BeginPull, ServePull, StorePage, SetCursor, ReadYourWrites, Prune,
          KeyArrives, DrainKeyWait, PullFailed, storeVars, dbVars, memVars, TypeOK
  <2>2. \A e \in Own(d) : st'[e] = "acked" => st[e] = "acked" /\ ackedSeq'[e] = ackedSeq[e]
    <3>1. CASE StorePage(d)
      BY <1>0, <3>1 DEF StorePage, TypeOK, Own
    <3>2. CASE ReadYourWrites(d) \/ Prune(d)
      BY <1>0, <3>2 DEF ReadYourWrites, Prune, TypeOK, Own
    <3>3. CASE \/ SkipPush(d) \/ ServePull(d) \/ SetCursor(d) \/ KeyArrives(d)
               \/ DrainKeyWait(d) \/ PullFailed(d)
      BY <3>3 DEF SkipPush, ServePull, SetCursor, KeyArrives, DrainKeyWait, PullFailed, dbVars
    <3> QED BY <1>11, <3>1, <3>2, <3>3
  <2>3. page'[d].epoch <= epoch
    <3>1. CASE ServePull(d)
      <4>1. PICK run, next, last : Answered(d, run, next, last)
        BY <3>1, Zenon DEF ServePull
      <4>2. page'[d].epoch = epoch
        BY <1>0, <4>1 DEF Answered, TypeOK
      <4> QED BY <1>0, <4>2
    <3>2. CASE SetCursor(d)
      BY <1>0, <3>2 DEF SetCursor, TypeOK
    <3>3. CASE \/ SkipPush(d) \/ StorePage(d) \/ ReadYourWrites(d) \/ Prune(d) \/ KeyArrives(d)
               \/ DrainKeyWait(d) \/ PullFailed(d)
      <4>1. page' = page
        BY <3>3 DEF SkipPush, StorePage, ReadYourWrites, Prune, KeyArrives, DrainKeyWait,
              PullFailed, memVars
      <4> QED BY <1>0, <4>1
    <3> QED BY <1>11, <3>1, <3>2, <3>3
  <2>4. OneAnswerAwaited(d)' /\ BatchHeld(d)'
    BY <1>0, <2>1 DEF OneAnswerAwaited, BatchHeld, Listened
  <2> QED BY <1>0, <2>1, <2>2, <2>3, <2>4, OutboxGoesOn
<1> QED BY <1>1, <1>2, <1>3, <1>4, <1>5, <1>6, <1>7, <1>8, <1>9, <1>10, <1>11
        DEF DeviceActs, DeviceStep

-----------------------------------------------------------------------------
(***************************************************************************)
(* The invariant.                                                          *)
(***************************************************************************)

\* Nothing is pushed, acked or stored at the start.
LEMMA InitRows == Init => RowInv
<1> SUFFICES ASSUME Init PROVE RowInv
  OBVIOUS
<1>1. TypeInv
  BY InitType
<1>2. /\ reqs = {} /\ nextSeq = 1 /\ epoch = 0 /\ \A e \in Env : store[e] = 0 /\ st[e] = "new"
      /\ \A d \in Device : /\ response[d] = NoResponse /\ batch[d] = {} /\ pc[d] = "idle"
                           /\ devEpoch[d] = 0 /\ page[d].epoch = 0
  BY DEF Init, StoreInit, NoPage
<1>3. RequestInv
  BY <1>2 DEF RequestInv, PushedByAuthor, OneTransaction, SeqsAreDrawn, SeqsAreDistinct, AcksAreTrue
<1>4. ASSUME NEW d \in Device PROVE OutboxInv(d)
  BY <1>2, <1>4 DEF OutboxInv, OneAnswerAwaited, EpochsFromStore, EpochsBehind, AnswerIsTrue,
        ResultsOfEpoch, BatchHeld, AckedInStore, Listened, Own
<1> QED BY <1>1, <1>3, <1>4 DEF RowInv

\* The steps of a transaction.
LEMMA ServedRows ==
    ASSUME RowInv, NEW r \in reqs, Serve(r) \/ RateLimited(r) \/ Abort(r),
           UNCHANGED <<dbVars, memVars>>
    PROVE  /\ RequestInv' /\ \A c \in Device : OutboxInv(c)'
           /\ \A e \in Env : store[e] # 0 => store'[e] = store[e]
<1>0. TypeOK /\ RequestInv /\ UNCHANGED <<st, ackedSeq>>
  BY DEF RowInv, TypeInv, dbVars
<1>1. CASE Commit(r)
  BY <1>0, <1>1, RequestCommits, OutboxCommitted DEF RowInv
<1>2. CASE \/ BookAccess(r) \/ BumpUsage(r) \/ RateLimited(r)
           \/ \E e \in Env : JudgeNoRole(r, e) \/ JudgeQuota(r, e) \/ JudgeDuplicate(r, e)
                                                \/ JudgeInsert(r, e) \/ InsertDenied(r, e)
  <2>1. PICK s \in Request : /\ reqs' = (reqs \ {r}) \cup {s} /\ s.dev = r.dev /\ s.live = r.live
                             /\ RequestInv'
    BY <1>0, <1>2, RequestServed
  <2>2. UNCHANGED <<store, epoch, response>>
    BY <1>2 DEF BookAccess, BumpUsage, RateLimited, JudgeNoRole, JudgeQuota, JudgeDuplicate,
          JudgeInsert, InsertDenied, Judge
  <2>3. ASSUME NEW c \in Device PROVE OutboxInv(c)'
    BY <1>0, <2>1, <2>2, OutboxServed DEF RowInv
  <2> QED BY <2>1, <2>2, <2>3
<1>3. CASE Abort(r)
  <2>1. reqs' = reqs \ {r} /\ UNCHANGED <<store, nextSeq, epoch, response>>
    BY <1>3 DEF Abort
  <2>2. \A x \in reqs' : \E q \in reqs : Fades(x, q)
    BY <1>0, <2>1, RequestTypes DEF Fades
  <2>3. \A x, y \in reqs' : x.begun /\ y.begun /\ x.dev = y.dev => x = y
    BY <2>1 DEF RowInv, RequestInv, OneTransaction
  <2>4. RequestInv'
    BY <1>0, <2>1, <2>2, <2>3, RequestsFade
  <2>5. ASSUME NEW c \in Device PROVE OutboxInv(c)'
    <3>1. OutboxInv(c) /\ UNCHANGED <<pc[c], batch[c], devEpoch[c], page[c]>>
          /\ Listened(c)' \subseteq Listened(c)
      BY <2>1 DEF RowInv, dbVars, memVars, Listened
    <3>2. OneAnswerAwaited(c)' /\ AnswerIsTrue(c)'
      BY <2>1, <3>1 DEF OutboxInv, OneAnswerAwaited, AnswerIsTrue
    <3> QED BY <1>0, <2>1, <3>1, <3>2, OutboxStays
  <2> QED BY <2>1, <2>4, <2>5
<1> QED BY <1>1, <1>2, <1>3 DEF Serve

\* The inductive step.
LEMMA NextRows ==
    ASSUME RowInv, [Next]_vars
    PROVE  RowInv'
<1>0. TypeInv /\ TypeOK /\ TypeInv' /\ RequestInv /\ \A c \in Device : OutboxInv(c) /\ BatchHeld(c)
  BY NextType, NextAnswer DEF RowInv, TypeInv, OutboxInv
<1> SUFFICES RequestInv' /\ \A c \in Device : OutboxInv(c)'
  BY <1>0 DEF RowInv
<1>1. ASSUME UNCHANGED <<storeVars, memVars, devEpoch>>,
             \A e \in Env : \/ st'[e] = st[e] /\ ackedSeq'[e] = ackedSeq[e]
                            \/ st[e] = "new" /\ st'[e] = "queued"
      PROVE  RequestInv' /\ \A c \in Device : OutboxInv(c)'
  <2>1. UNCHANGED <<store, nextSeq, epoch, reqs, response, pc, batch, page>>
    BY <1>1 DEF storeVars, memVars
  <2>2. RequestInv'
    <3>1. \A x \in reqs' : \E r \in reqs : Fades(x, r)
      BY <1>0, <2>1, RequestTypes DEF Fades
    <3>2. \A x, y \in reqs' : x.begun /\ y.begun /\ x.dev = y.dev => x = y
      BY <1>0, <2>1 DEF RequestInv, OneTransaction
    <3> QED BY <1>0, <1>1, <2>1, <3>1, <3>2, RequestsFade
  <2>3. ASSUME NEW c \in Device PROVE OutboxInv(c)'
    <3>1. Listened(c)' = Listened(c)
      BY <2>1 DEF Listened
    <3>2. OneAnswerAwaited(c)' /\ AnswerIsTrue(c)'
      BY <1>0, <2>1, <3>1 DEF OutboxInv, OneAnswerAwaited, AnswerIsTrue
    <3>3. UNCHANGED <<pc[c], batch[c], devEpoch[c], page[c], epoch, response[c]>>
      BY <1>1, <2>1
    <3>4. \A e \in Own(c) : \/ st'[e] = st[e] /\ ackedSeq'[e] = ackedSeq[e]
                            \/ st[e] = "new" /\ st'[e] = "queued"
      BY <1>1 DEF Own
    <3> QED BY <1>0, <2>1, <3>2, <3>3, <3>4, OutboxStays
  <2> QED BY <2>2, <2>3
<1>2. ASSUME NEW e \in Env, Save(e) PROVE RequestInv' /\ \A c \in Device : OutboxInv(c)'
  BY <1>0, <1>1, <1>2 DEF Save, TypeOK
<1>3. ASSUME NEW d \in Device, DeviceActs(d) PROVE RequestInv' /\ \A c \in Device : OutboxInv(c)'
  <2>1. RequestInv'
    BY <1>0, <1>3, RequestsOfActs
  <2>2. ASSUME NEW c \in Device PROVE OutboxInv(c)'
    BY <1>0, <1>3, OutboxOfOwn, OutboxOfOthers
  <2> QED BY <2>1, <2>2
<1>4. ASSUME NEW r \in reqs, Serve(r) \/ RateLimited(r) \/ Abort(r), UNCHANGED <<dbVars, memVars>>
      PROVE  RequestInv' /\ \A c \in Device : OutboxInv(c)'
  BY <1>4, ServedRows
<1>5. ASSUME NEW d \in Device, Demote(d), UNCHANGED <<dbVars, memVars>>
      PROVE  RequestInv' /\ \A c \in Device : OutboxInv(c)'
  <2>1. UNCHANGED <<store, nextSeq, epoch, reqs, response, dbVars, memVars>>
    BY <1>5 DEF Demote
  <2>2. RequestInv'
    <3>1. \A x \in reqs' : \E r \in reqs : Fades(x, r)
      BY <1>0, <2>1, RequestTypes DEF Fades
    <3>2. \A x, y \in reqs' : x.begun /\ y.begun /\ x.dev = y.dev => x = y
      BY <1>0, <2>1 DEF RequestInv, OneTransaction
    <3> QED BY <1>0, <2>1, <3>1, <3>2, RequestsFade DEF dbVars
  <2>3. ASSUME NEW c \in Device PROVE OutboxInv(c)'
    <3>1. Listened(c)' = Listened(c) /\ UNCHANGED <<pc, batch, devEpoch, page, st, ackedSeq>>
      BY <2>1 DEF Listened, dbVars, memVars
    <3>2. OneAnswerAwaited(c)' /\ AnswerIsTrue(c)'
      BY <1>0, <2>1, <3>1 DEF OutboxInv, OneAnswerAwaited, AnswerIsTrue
    <3> QED BY <1>0, <2>1, <3>1, <3>2, OutboxStays
  <2> QED BY <2>2, <2>3
<1>6. CASE RestoreStore
  <2>1. Restore /\ UNCHANGED <<dbVars, memVars, st>>
    BY <1>6 DEF RestoreStore, dbVars
  <2> QED BY <1>0, <2>1, RequestsRestored, OutboxRestored
<1>7. CASE UNCHANGED vars
  BY <1>1, <1>7 DEF vars, dbVars
<1> QED BY <1>2, <1>3, <1>4, <1>5, <1>6, <1>7 DEF Next, ServerStep, Trouble, DeviceActs

\* RowInv, the invariant the two theorems below rest on, always holds: the
\* requests under way, the outbox and the store agree about every row.
THEOREM RowInvHolds == Spec => []RowInv
<1> QED BY InitRows, NextRows, PTL DEF Spec

\* An acked row is in the store under the seq its author was told, in every
\* epoch its author knows, whatever is lost, repeated, restarted or restored.
THEOREM AckedIsStoredHolds == Spec => []AckedIsStored
<1>1. RowInv => AckedIsStored
  BY AuthorAssumption DEF RowInv, OutboxInv, AckedInStore, AckedIsStored, Own
<1> QED BY RowInvHolds, <1>1, PTL

\* The rows an engine waits for are inflight until their result is applied:
\* the state machine of the outbox never throws on a result.
THEOREM BatchIsInflightHolds == Spec => []BatchIsInflight
<1>1. RowInv => BatchIsInflight
  BY DEF RowInv, OutboxInv, BatchHeld, BatchIsInflight
<1> QED BY RowInvHolds, <1>1, PTL

-----------------------------------------------------------------------------
(***************************************************************************)
(* The replicated log.                                                     *)
(***************************************************************************)

\* While no store is restored there is one epoch.
LEMMA OneEpoch ==
    ASSUME MaxRestore = 0, SyncInv, NEW d \in Device
    PROVE  Current(d) /\ epoch = 0
<1>1. epoch = 0 /\ devEpoch[d] \in Nat /\ devEpoch[d] <= epoch
  BY DeviceTypes DEF SyncInv, TypeInv, TypeOK, StoreTypeOK, DevInv, EpochsBehind
<1> QED BY <1>1 DEF Current

\* A device's step delivers committed rows to its mirror, or nothing.
LEMMA ActsDeliver ==
    ASSUME MaxRestore = 0, SyncInv, RowInv, NEW d \in Device, DeviceActs(d)
    PROVE  Log!Deliver(d)
<1>0. /\ TypeOK /\ Current(d) /\ epoch = 0 /\ BatchHeld(d) /\ have \in [Device -> SUBSET Env]
      /\ page[d] \in Page /\ page[d].epoch = epoch
  <2>1. TypeOK /\ Current(d) /\ epoch = 0 /\ BatchHeld(d) /\ page[d].epoch <= epoch
    BY OneEpoch DEF RowInv, TypeInv, OutboxInv, EpochsFromStore
  <2> QED BY <2>1, OutboxTypes DEF TypeOK
<1>1. UNCHANGED <<SavedEnvs, store>>
  BY <1>0, DeviceActsAlone DEF SavedEnvs
<1>2. have[d] \subseteq have'[d] /\ have'[d] \subseteq have[d] \cup Stored
      /\ have' = [have EXCEPT ![d] = have'[d]]
  <2>1. CASE StorePage(d)
    <3>1. OnPage(d) \subseteq Stored
      BY <1>0, <2>1 DEF StorePage, SyncInv, DevInv, PageCovers, OnPage, Stored
    <3>2. Admitted(d) \subseteq OnPage(d)
      BY DEF Admitted
    <3>3. have' = [have EXCEPT ![d] = @ \cup Admitted(d)]
      BY <2>1 DEF StorePage
    <3> QED BY <1>0, <3>1, <3>2, <3>3
  <2>2. CASE DrainKeyWait(d)
    <3>1. Waiting(d) \subseteq Stored
      BY <1>0 DEF SyncInv, DevInv, WaitKnowsSeq, Waiting, Stored
    <3>2. PICK e \in Waiting(d) : have' = [have EXCEPT ![d] = @ \cup {e}]
      BY <2>2 DEF DrainKeyWait
    <3> QED BY <1>0, <3>1, <3>2
  <2>3. CASE ~StorePage(d) /\ ~DrainKeyWait(d)
    <3>1. ASSUME NEW e \in Env, \/ HandleAcked(d, e) \/ HandleRateLimited(d, e)
                                \/ HandleQuota(d, e) \/ HandleNoRole(d, e)
          PROVE  have' = have
      BY <3>1 DEF HandleAcked, HandleRateLimited, HandleQuota, HandleNoRole, Handle
    <3>2. have' = have
      BY <2>3, <3>1 DEF DeviceActs, DeviceStep, StartRound, Push, SkipPush, ReceivePush, PushDone,
            ServePull, RestartPull, KeepPulling, SetCursor, ReadYourWrites, Prune, KeyArrives,
            PushFailed, PushRefused, GiveUpBatch, PullFailed, BackoffOver, ResumeBook, Crash, dbVars
    <3> QED BY <1>0, <3>2
  <2> QED BY <2>1, <2>2, <2>3
<1> QED BY <1>1, <1>2 DEF Log!Deliver, Log!Logged, Stored

\* The system starts as an empty log and every step writes an entry, enters
\* some, delivers some or does not show.
LEMMA StepImplementsLog ==
    ASSUME MaxRestore = 0, SyncInv, RowInv, RowInv', [Next]_vars
    PROVE  [Log!Next]_(Log!logVars)
<1>0. TypeOK /\ TypeOK' /\ RequestInv /\ RequestInv'
  BY DEF RowInv, TypeInv
<1> USE DEF Log!Next, Log!logVars
<1>1. ASSUME NEW e \in Env, Save(e) PROVE Log!Write(e)
  BY <1>0, <1>1 DEF Save, Log!Write, SavedEnvs, TypeOK, storeVars
<1>2. ASSUME NEW d \in Device, DeviceActs(d) PROVE Log!Deliver(d)
  BY <1>2, ActsDeliver
<1>3. ASSUME NEW r \in reqs, Commit(r), UNCHANGED <<dbVars, memVars>> PROVE Log!Enter
  <2>1. /\ \A e \in Env : store[e] # 0 => store'[e] = store[e]
        /\ \A e \in Env : store[e] = 0 /\ store'[e] # 0 => st[e] # "new"
        /\ UNCHANGED <<st, have>>
    BY <1>0, <1>3, RequestCommits DEF dbVars
  <2>2. store' \in [Env -> Nat]
    BY <1>0 DEF TypeOK, StoreTypeOK
  <2>3. \A e, f \in Env : store'[e] = store'[f] /\ store'[e] # 0 => e = f
    BY <1>0 DEF RequestInv, SeqsAreDistinct
  <2> QED BY <2>1, <2>2, <2>3 DEF Log!Enter, SavedEnvs
<1>4. ASSUME NEW r \in reqs, ~Commit(r), Serve(r) \/ RateLimited(r) \/ Abort(r),
             UNCHANGED <<dbVars, memVars>>
      PROVE  UNCHANGED <<SavedEnvs, store, have>>
  BY <1>4 DEF Serve, BookAccess, BumpUsage, RateLimited, Abort, JudgeNoRole, JudgeQuota,
        JudgeDuplicate, JudgeInsert, InsertDenied, Judge, SavedEnvs, dbVars
<1>5. ASSUME NEW d \in Device, Demote(d), UNCHANGED <<dbVars, memVars>>
      PROVE  UNCHANGED <<SavedEnvs, store, have>>
  BY <1>5 DEF Demote, SavedEnvs, dbVars
<1>6. ~RestoreStore
  BY <1>0 DEF RestoreStore, Restore, TypeOK, StoreTypeOK
<1>7. CASE UNCHANGED vars
  BY <1>7 DEF vars, dbVars, storeVars, SavedEnvs
<1> QED BY <1>1, <1>2, <1>3, <1>4, <1>5, <1>6, <1>7 DEF Next, ServerStep, Trouble, DeviceActs

\* Without restores, sync implements the replicated log.
THEOREM ImplementsLogHolds ==
    MaxRestore = 0 /\ ~OverlappingRestores => (Spec => ImplementsLog)
<1> SUFFICES ASSUME MaxRestore = 0, ~OverlappingRestores
             PROVE  Spec => ImplementsLog
  OBVIOUS
<1>1. CalmInstance
  BY DEF CalmInstance
<1>2. Init => Log!Init
  BY DEF Init, StoreInit, Log!Init, SavedEnvs, NoSeq
<1>3. SyncInv /\ [Next]_vars => SyncInv'
  BY <1>1, NextSync
<1>4. SyncInv /\ RowInv /\ RowInv' /\ [Next]_vars => [Log!Next]_(Log!logVars)
  BY StepImplementsLog
<1> QED BY <1>2, <1>3, <1>4, InitSync, InitRows, NextRows, PTL DEF Spec, ImplementsLog, Log!Spec

-----------------------------------------------------------------------------
(* The invariants *)

\* A row the store holds was saved by its author first.
StoredIsSaved == \A e \in Env : store[e] # 0 => st[e] # "new"

\* An own row at or below s is settled: seen back, refused or pruned.
Unsettled == {"new", "queued", "inflight", "acked"}
SettledUpTo(c, s) == \A e \in (UpTo(s) \cap Own(c)) \ overtaken : st[e] \notin Unsettled

\* The cursors of the current epoch have settled what they passed.  `after` is
\* read once more when the pull loop is over.
SettledInv(c) ==
    Current(c) =>
        /\ SettledUpTo(c, cursor[c])
        /\ Pulling(c) \/ pc[c] = "check" => SettledUpTo(c, after[c])
        /\ pc[c] = "cursor" => SettledUpTo(c, page[c].next)
        /\ pc[c] = "check" => Visible(after[c])

\* A mirror row at or below s knows its seq.
SeqKnownUpTo(c, s) == \A e \in (UpTo(s) \cap have[c]) \ overtaken : mirrorSeq[c][e] # 0

\* A seq a mirror row knows is the store's.
SeqIsTrue(c) == \A e \in Env : mirrorSeq[c][e] # 0 => mirrorSeq[c][e] = store[e]

\* The mirror knows the seq of what its cursors have passed.
SeqInv(c) ==
    /\ SeqIsTrue(c)
    /\ SeqKnownUpTo(c, cursor[c])
    /\ Pulling(c) => SeqKnownUpTo(c, after[c])
    /\ pc[c] = "cursor" => SeqKnownUpTo(c, page[c].next)

-----------------------------------------------------------------------------
(***************************************************************************)
(* What the steps of a device do to rows, cursors and mirrors.             *)
(***************************************************************************)

\* A device's step never unsettles a row: only rows of the batch, which are
\* inflight, and acked rows go back to the queue.
LEMMA ActsSettle ==
    ASSUME TypeOK, NEW d \in Device, BatchHeld(d), DeviceActs(d)
    PROVE  \A e \in Env : st[e] \notin Unsettled => st'[e] \notin Unsettled
<1> USE DEF Unsettled
<1>1. CASE StartRound(d) \/ ReceivePush(d) \/ RestartPull(d) \/ KeepPulling(d)
  <2>1. PICK ep : ObserveEpoch(d, ep)
    BY <1>1 DEF StartRound, ReceivePush, RestartPull, KeepPulling
  <2> QED BY <2>1, ObserveKeeps
<1>2. CASE Push(d)
  <2>1. PICK b \in SUBSET OwnIn(d, "queued") :
           st' = [e \in Env |-> IF e \in b THEN "inflight" ELSE st[e]]
    BY <1>2 DEF Push
  <2> QED BY <2>1 DEF OwnIn, Own
<1>3. ASSUME NEW f \in Env, \/ HandleAcked(d, f) \/ HandleRateLimited(d, f)
                            \/ HandleQuota(d, f) \/ HandleNoRole(d, f)
      PROVE  \A e \in Env : st[e] \notin Unsettled => st'[e] \notin Unsettled
  <2>1. st[f] = "inflight"
    BY <1>3 DEF HandleAcked, HandleRateLimited, HandleQuota, HandleNoRole, Handle, BatchHeld
  <2>2. \A e \in Env : e # f => st'[e] = st[e]
    BY <1>3 DEF HandleAcked, HandleRateLimited, HandleQuota, HandleNoRole, TypeOK
  <2> QED BY <2>1, <2>2
<1>4. CASE StorePage(d)
  BY <1>4 DEF StorePage
<1>5. CASE ReadYourWrites(d)
  BY <1>5 DEF ReadYourWrites, Lost, OwnIn
<1>6. CASE Prune(d)
  BY <1>6 DEF Prune
<1>7. CASE PushFailed(d) \/ PushRefused(d)
  BY <1>7 DEF PushFailed, PushRefused, GiveUpBatch, BatchHeld
<1>8. CASE \/ SkipPush(d) \/ PushDone(d) \/ ServePull(d) \/ SetCursor(d) \/ KeyArrives(d)
           \/ DrainKeyWait(d) \/ PullFailed(d) \/ BackoffOver(d) \/ ResumeBook(d) \/ Crash(d)
  <2>1. st' = st
    BY <1>8 DEF SkipPush, PushDone, ServePull, SetCursor, KeyArrives, DrainKeyWait, PullFailed,
          BackoffOver, ResumeBook, Crash, dbVars
  <2> QED BY <2>1
<1> QED BY <1>1, <1>2, <1>3, <1>4, <1>5, <1>6, <1>7, <1>8 DEF DeviceActs, DeviceStep

\* ... and leaves the other devices' cursors and mirrors alone.
LEMMA ActsElsewhere ==
    ASSUME TypeOK, NEW d \in Device, DeviceActs(d), NEW c \in Device, c # d
    PROVE  UNCHANGED <<overtaken, cursor[c], after[c], mirrorSeq[c]>>
<1> DEFINE Same == UNCHANGED <<overtaken, cursor[c], after[c], mirrorSeq[c]>>
<1>1. CASE StartRound(d) \/ ReceivePush(d) \/ RestartPull(d) \/ KeepPulling(d)
  BY <1>1 DEF StartRound, ReceivePush, RestartPull, KeepPulling, ObserveEpoch, TypeOK, storeVars,
        memVars
<1>2. CASE Push(d) \/ SkipPush(d) \/ PushDone(d) \/ PushFailed(d) \/ PushRefused(d)
  BY <1>2 DEF Push, SkipPush, PushDone, PushFailed, PushRefused, GiveUpBatch, BeginPull, TypeOK,
        storeVars, dbVars
<1>3. ASSUME NEW f \in Env, \/ HandleAcked(d, f) \/ HandleRateLimited(d, f)
                            \/ HandleQuota(d, f) \/ HandleNoRole(d, f)
      PROVE  Same
  BY <1>3 DEF HandleAcked, HandleRateLimited, HandleQuota, HandleNoRole, Handle, storeVars, TypeOK
<1>4. CASE ServePull(d) \/ PullFailed(d)
  BY <1>4 DEF ServePull, PullFailed, dbVars
<1>5. CASE StorePage(d) \/ SetCursor(d) \/ ReadYourWrites(d) \/ Prune(d)
  BY <1>5 DEF StorePage, SetCursor, ReadYourWrites, Prune, TypeOK, storeVars
<1>6. CASE \/ KeyArrives(d) \/ DrainKeyWait(d) \/ BackoffOver(d) \/ ResumeBook(d)
           \/ Crash(d)
  BY <1>6 DEF KeyArrives, DrainKeyWait, BackoffOver, ResumeBook, Crash, TypeOK, storeVars, dbVars,
        memVars
<1> HIDE DEF Same
<1> QED BY <1>1, <1>2, <1>3, <1>4, <1>5, <1>6 DEF DeviceActs, DeviceStep, Same

\* The rows SetCursor's new cursors have passed, and why they may have.
LEMMA CursorFloor ==
    ASSUME TypeOK, NEW c \in Device, SetCursor(c)
    PROVE  /\ after'[c] = page[c].next \/ after'[c] = after[c]
           /\ \/ cursor'[c] = cursor[c]
              \/ cursor'[c] <= after'[c]
           /\ UNCHANGED <<store, epoch, overtaken, devEpoch, st, have, mirrorSeq>>
           /\ pc[c] = "cursor" /\ pc'[c] \in {"check", "pull"}
<1>1. /\ UNCHANGED <<store, epoch, overtaken, devEpoch, st, have, mirrorSeq>>
      /\ pc[c] = "cursor" /\ pc'[c] \in {"check", "pull"}
  BY DEF SetCursor, storeVars, TypeOK
<1> DEFINE reached == IF page[c].next > after[c] THEN page[c].next ELSE after[c]
<1>2. PICK floor \in Floors(c, reached) :
         /\ \A f \in Floors(c, reached) : floor <= f
         /\ after'[c] = reached
         /\ cursor'[c] = IF floor > cursor[c] THEN floor ELSE cursor[c]
  BY DEF SetCursor, TypeOK
<1>3. reached \in Floors(c, reached)
  BY DEF Floors
<1> QED BY <1>1, <1>2, <1>3

-----------------------------------------------------------------------------
(***************************************************************************)
(* Rows are saved before they are stored.                                  *)
(***************************************************************************)

LEMMA NextSaved ==
    ASSUME RowInv, StoredIsSaved, [Next]_vars
    PROVE  StoredIsSaved'
<1>0. TypeOK /\ RequestInv /\ \A d \in Device : BatchHeld(d)
  BY DEF RowInv, TypeInv, OutboxInv
<1> USE DEF StoredIsSaved
<1>1. ASSUME NEW e \in Env, Save(e) PROVE StoredIsSaved'
  BY <1>0, <1>1 DEF Save, TypeOK, storeVars
<1>2. ASSUME NEW d \in Device, DeviceActs(d) PROVE StoredIsSaved'
  BY <1>0, <1>2, DeviceActsAlone
<1>3. ASSUME NEW r \in reqs, Commit(r), UNCHANGED <<dbVars, memVars>> PROVE StoredIsSaved'
  BY <1>0, <1>3, RequestCommits DEF dbVars
<1>4. ASSUME NEW r \in reqs, ~Commit(r), Serve(r) \/ RateLimited(r) \/ Abort(r),
             UNCHANGED <<dbVars, memVars>>
      PROVE  StoredIsSaved'
  BY <1>4 DEF Serve, BookAccess, BumpUsage, RateLimited, Abort, JudgeNoRole, JudgeQuota,
        JudgeDuplicate, JudgeInsert, InsertDenied, Judge, dbVars
<1>5. ASSUME NEW d \in Device, Demote(d), UNCHANGED <<dbVars, memVars>> PROVE StoredIsSaved'
  BY <1>5 DEF Demote, dbVars
<1>6. CASE RestoreStore
  BY <1>6 DEF RestoreStore, Restore, dbVars, Stored
<1>7. CASE UNCHANGED vars
  BY <1>7 DEF vars, dbVars, storeVars
<1> QED BY <1>1, <1>2, <1>3, <1>4, <1>5, <1>6, <1>7 DEF Next, ServerStep, Trouble, DeviceActs

-----------------------------------------------------------------------------
(***************************************************************************)
(* What the cursors have passed is settled.                                *)
(***************************************************************************)

\* A cursor that stays where it is, over rows that stay settled.
LEMMA SettledKept ==
    ASSUME NEW c \in Device, NEW s, SettledUpTo(c, s), UNCHANGED store,
           overtaken \subseteq overtaken',
           \A e \in Own(c) : st[e] \notin Unsettled => st'[e] \notin Unsettled
    PROVE  \A e \in ((UpTo(s)' \cap Own(c)) \ overtaken') : st'[e] \notin Unsettled
BY DEF SettledUpTo, UpTo, Own

\* c stays where it is, or goes to a stage outside the pull loop.
LEMMA SettledStays ==
    ASSUME TypeOK, NEW c \in Device, SettledInv(c),
           UNCHANGED <<store, epoch, overtaken, devEpoch[c], cursor[c]>>,
           \/ UNCHANGED <<pc[c], after[c], page[c]>>
           \/ ~Pulling(c)' /\ pc'[c] # "check",
           \A e \in Own(c) : st[e] \notin Unsettled => st'[e] \notin Unsettled
    PROVE  SettledInv(c)'
<1> SUFFICES ASSUME Current(c)' PROVE SettledInv(c)'
  BY DEF SettledInv
<1>1. Current(c) /\ SettledUpTo(c, cursor[c])
  BY DEF SettledInv, Current
<1>2. SettledUpTo(c, cursor[c])'
  BY <1>1, SettledKept DEF SettledUpTo, UpTo
<1>3. CASE UNCHANGED <<pc[c], after[c], page[c]>>
  <2>1. (Pulling(c) \/ pc[c] = "check")' => SettledUpTo(c, after[c])'
    BY <1>1, <1>3, SettledKept DEF SettledInv, SettledUpTo, UpTo, Pulling
  <2>2. (pc[c] = "cursor")' => SettledUpTo(c, page[c].next)'
    BY <1>1, <1>3, SettledKept DEF SettledInv, SettledUpTo, UpTo
  <2>3. (pc[c] = "check")' => Visible(after[c])'
    BY <1>1, <1>3 DEF SettledInv, Visible
  <2> QED BY <1>2, <2>1, <2>2, <2>3 DEF SettledInv
<1>4. CASE ~Pulling(c)' /\ pc'[c] # "check"
  BY <1>2, <1>4 DEF SettledInv, Pulling
<1> QED BY <1>3, <1>4

\* c enters the pull loop at its persisted cursor.
LEMMA SettledEnters ==
    ASSUME TypeOK, NEW c \in Device, SettledInv(c), BeginPull(c),
           UNCHANGED <<store, epoch, overtaken, devEpoch[c], cursor[c]>>,
           \A e \in Own(c) : st[e] \notin Unsettled => st'[e] \notin Unsettled
    PROVE  SettledInv(c)'
<1>1. pc'[c] = "pull" /\ after'[c] = cursor[c]
  BY DEF BeginPull, TypeOK
<1> SUFFICES ASSUME Current(c)' PROVE SettledInv(c)'
  BY DEF SettledInv
<1>2. SettledUpTo(c, cursor[c])
  BY DEF SettledInv, Current
<1>3. SettledUpTo(c, cursor[c])' /\ SettledUpTo(c, after[c])'
  BY <1>1, <1>2, SettledKept DEF SettledUpTo, UpTo
<1> QED BY <1>1, <1>3 DEF SettledInv

\* c records an epoch: where it changes, the cursor starts from 0.
LEMMA SettledObserves ==
    ASSUME TypeOK, NEW c \in Device, SettledInv(c), NEW ep, ObserveEpoch(c, ep),
           \/ ~Pulling(c)' /\ pc'[c] # "check"
           \/ pc'[c] = "pull" /\ after'[c] = 0 /\ ep # devEpoch[c],
           UNCHANGED <<store, epoch, overtaken>>
    PROVE  SettledInv(c)'
<1>1. /\ devEpoch'[c] = ep
      /\ cursor'[c] = IF ep = devEpoch[c] THEN cursor[c] ELSE 0
      /\ store \in [Env -> Nat]
  BY DEF ObserveEpoch, TypeOK, StoreTypeOK
<1>0. \A e \in Env : st[e] \notin Unsettled => st'[e] \notin Unsettled
  BY ObserveKeeps DEF Unsettled
<1>2. CASE ep = devEpoch[c]
  BY <1>0, <1>1, <1>2, SettledStays DEF Own
<1>3. CASE ep # devEpoch[c]
  <2>1. UpTo(0)' = {}
    BY <1>1 DEF UpTo
  <2>2. SettledUpTo(c, cursor[c])'
    BY <1>1, <1>3, <2>1 DEF SettledUpTo
  <2>3. (pc[c] = "pull")' => SettledUpTo(c, after[c])' \/ ~(Pulling(c) \/ pc[c] = "check")'
    BY <2>1 DEF SettledUpTo, Pulling
  <2> QED BY <2>2, <2>3 DEF SettledInv, Pulling
<1> QED BY <1>2, <1>3

\* A page is answered, or none comes: `after` stays, and it is a seq readers
\* could see.
LEMMA SettledAsked ==
    ASSUME TypeOK, NEW c \in Device, DevInv(c), SettledInv(c), ServePull(c) \/ PullFailed(c)
    PROVE  SettledInv(c)'
<1>1. /\ pc[c] = "pull" /\ pc'[c] \in {"page", "check"}
      /\ UNCHANGED <<store, epoch, overtaken, devEpoch, cursor, after, st>>
  BY DEF ServePull, PullFailed, dbVars, TypeOK
<1> SUFFICES ASSUME Current(c)' PROVE SettledInv(c)'
  BY DEF SettledInv
<1>2. /\ SettledUpTo(c, cursor[c]) /\ SettledUpTo(c, after[c]) /\ Visible(after[c])
  BY <1>1 DEF SettledInv, Current, DevInv, AfterCovered, Pulling
<1>3. SettledUpTo(c, cursor[c])' /\ SettledUpTo(c, after[c])' /\ Visible(after[c])'
  BY <1>1, <1>2 DEF SettledUpTo, UpTo, Visible
<1> QED BY <1>1, <1>3 DEF SettledInv

\* The page is stored: the own rows on it are observed, and it holds every row
\* its next_seq covers.
LEMMA SettledStored ==
    ASSUME TypeOK, NEW c \in Device, DevInv(c), SettledInv(c), StoredIsSaved, StorePage(c)
    PROVE  SettledInv(c)'
<1>1. /\ pc[c] = "page" /\ pc'[c] = "cursor" /\ page[c].epoch = devEpoch[c]
      /\ UNCHANGED <<store, epoch, overtaken, devEpoch, cursor, after, page>>
      /\ \A e \in Env : st'[e] = IF e \in SeenBack(c) THEN "observed" ELSE st[e]
  BY DEF StorePage, storeVars, TypeOK
<1>2. \A e \in Env : st[e] \notin Unsettled => st'[e] \notin Unsettled
  BY <1>1 DEF Unsettled
<1> SUFFICES ASSUME Current(c)' PROVE SettledInv(c)'
  BY DEF SettledInv
<1>3. /\ SettledUpTo(c, cursor[c]) /\ SettledUpTo(c, after[c])
      /\ UpTo(page[c].next) \ UpTo(after[c]) \subseteq OnPage(c) \cup overtaken
  BY <1>1 DEF SettledInv, Current, DevInv, PageCovers, Pulling
<1>4. SettledUpTo(c, cursor[c])' /\ SettledUpTo(c, after[c])'
  BY <1>1, <1>2, <1>3, SettledKept DEF SettledUpTo, UpTo, Own
<1>5. SettledUpTo(c, page[c].next)'
  <2> SUFFICES ASSUME NEW e \in Env, e \in UpTo(page[c].next), e \in Own(c), e \notin overtaken
               PROVE  st'[e] \notin Unsettled
    BY <1>1 DEF SettledUpTo, UpTo, Own
  <2>1. CASE e \in UpTo(after[c])
    BY <1>2, <1>3, <2>1 DEF SettledUpTo
  <2>2. CASE e \in OnPage(c)
    <3>1. st[e] # "new"
      BY DEF StoredIsSaved, UpTo
    <3>2. st[e] \in Unsettled => e \in SeenBack(c)
      BY <2>2, <3>1 DEF Unsettled, SeenBack, Observable
    <3> QED BY <1>1, <3>2 DEF Unsettled
  <2> QED BY <1>3, <2>1, <2>2
<1> QED BY <1>1, <1>4, <1>5 DEF SettledInv

\* The cursors follow the page.
LEMMA SettledMoved ==
    ASSUME TypeOK, TypeOK', NEW c \in Device, DevInv(c), SettledInv(c), SetCursor(c)
    PROVE  SettledInv(c)'
<1>1. /\ after'[c] = page[c].next \/ after'[c] = after[c]
      /\ cursor'[c] = cursor[c] \/ cursor'[c] <= after'[c]
      /\ UNCHANGED <<store, epoch, overtaken, devEpoch, st>>
      /\ pc[c] = "cursor" /\ pc'[c] \in {"check", "pull"}
      /\ after'[c] \in Nat /\ cursor'[c] \in Nat /\ store \in [Env -> Nat]
  BY CursorFloor DEF TypeOK, StoreTypeOK
<1> SUFFICES ASSUME Current(c)' PROVE SettledInv(c)'
  BY DEF SettledInv
<1>2. /\ SettledUpTo(c, cursor[c]) /\ SettledUpTo(c, after[c]) /\ SettledUpTo(c, page[c].next)
      /\ Visible(after[c]) /\ Visible(page[c].next)
  BY <1>1 DEF SettledInv, Current, DevInv, AfterCovered, PageStored, Pulling
<1>3. SettledUpTo(c, after'[c]) /\ Visible(after'[c])
  BY <1>1, <1>2
<1>4. SettledUpTo(c, cursor'[c])
  BY <1>1, <1>2, <1>3 DEF SettledUpTo, UpTo
<1>5. SettledUpTo(c, cursor[c])' /\ SettledUpTo(c, after[c])' /\ Visible(after[c])'
  BY <1>1, <1>3, <1>4 DEF SettledUpTo, UpTo, Visible
<1> QED BY <1>1, <1>5 DEF SettledInv

\* Rows commit: at or below what c's cursors have passed only overtaken ones.
LEMMA SettledServed ==
    ASSUME TypeOK, TypeOK', NEW c \in Device, DevInv(c), SettledInv(c),
           epoch' = epoch,
           \A e \in Env : store[e] # 0 => store'[e] = store[e],
           overtaken \subseteq overtaken',
           \A e, f \in Env :
             store[e] = 0 /\ store'[e] # 0 /\ store[f] >= store'[e] => e \in overtaken',
           UNCHANGED <<dbVars, memVars>>
    PROVE  SettledInv(c)'
<1>0. /\ UNCHANGED <<st, pc[c], devEpoch[c], cursor[c], after[c], page[c]>>
      /\ cursor[c] \in Nat /\ after[c] \in Nat /\ page[c].next \in Nat
  BY DeviceTypes DEF dbVars, memVars, Page
<1>1. ASSUME NEW s \in Nat, Visible(s), SettledUpTo(c, s)
      PROVE  \A e \in (UpTo(s)' \cap Own(c)) \ overtaken' : st'[e] \notin Unsettled
  <2>1. UpTo(s)' \subseteq UpTo(s) \cup overtaken'
    BY <1>1, CommitBelow
  <2> QED BY <1>0, <1>1, <2>1 DEF SettledUpTo
<1> SUFFICES ASSUME Current(c)' PROVE SettledInv(c)'
  BY DEF SettledInv
<1>2. Current(c)
  BY <1>0 DEF Current
<1>3. SettledUpTo(c, cursor[c])'
  <2>1. Visible(cursor[c]) /\ SettledUpTo(c, cursor[c])
    BY <1>2 DEF SettledInv, DevInv, CursorCovered
  <2> QED BY <1>0, <1>1, <2>1 DEF SettledUpTo, UpTo
<1>4. (Pulling(c) \/ pc[c] = "check")' => SettledUpTo(c, after[c])' /\ Visible(after[c])'
  <2> SUFFICES ASSUME Pulling(c) \/ pc[c] = "check"
               PROVE  SettledUpTo(c, after[c])' /\ Visible(after[c])'
    BY <1>0 DEF Pulling
  <2>1. Visible(after[c]) /\ SettledUpTo(c, after[c])
    BY <1>2 DEF SettledInv, DevInv, AfterCovered
  <2>2. Visible(after[c])'
    BY <1>0, <2>1, CommitBelow DEF Visible
  <2> QED BY <1>0, <1>1, <2>1, <2>2 DEF SettledUpTo, UpTo
<1>5. (pc[c] = "cursor")' => SettledUpTo(c, page[c].next)'
  <2> SUFFICES ASSUME pc[c] = "cursor" PROVE SettledUpTo(c, page[c].next)'
    BY <1>0
  <2>1. Visible(page[c].next) /\ SettledUpTo(c, page[c].next)
    BY <1>2 DEF SettledInv, DevInv, PageStored
  <2> QED BY <1>0, <1>1, <2>1 DEF SettledUpTo, UpTo
<1> QED BY <1>3, <1>4, <1>5 DEF SettledInv

\* A restore leaves nobody current.
LEMMA SettledRestored ==
    ASSUME TypeOK, NEW c \in Device, DevInv(c), RestoreStore
    PROVE  SettledInv(c)'
<1>1. devEpoch'[c] = devEpoch[c] /\ epoch' = epoch + 1 /\ devEpoch[c] <= epoch
  BY DEF RestoreStore, Restore, dbVars, DevInv, EpochsBehind
<1>2. devEpoch[c] \in Nat /\ epoch \in Nat
  BY DeviceTypes
<1> QED BY <1>1, <1>2 DEF SettledInv, Current

\* What device c does, seen from c.
LEMMA SettledOwn ==
    ASSUME TypeOK, TypeOK', NEW c \in Device, DevInv(c), BatchHeld(c), StoredIsSaved,
           SettledInv(c), DeviceActs(c)
    PROVE  SettledInv(c)'
<1>0. /\ \A e \in Own(c) : st[e] \notin Unsettled => st'[e] \notin Unsettled
      /\ UNCHANGED <<store, epoch>>
  BY ActsSettle, DeviceActsAlone DEF Own
<1>1. CASE StartRound(c) \/ ReceivePush(c)
  <2>1. /\ \E ep : ObserveEpoch(c, ep)
        /\ UNCHANGED overtaken /\ ~Pulling(c)' /\ pc'[c] # "check"
    BY <1>1 DEF StartRound, ReceivePush, storeVars, Pulling, TypeOK
  <2> QED BY <1>0, <2>1, SettledObserves
<1>2. CASE RestartPull(c)
  <2>1. /\ \E ep : ObserveEpoch(c, ep) /\ ep # devEpoch[c]
        /\ UNCHANGED overtaken /\ pc'[c] = "pull" /\ after'[c] = 0
    BY <1>2 DEF RestartPull, storeVars, TypeOK
  <2> QED BY <1>0, <2>1, SettledObserves
<1>3. CASE KeepPulling(c)
  BY <1>3, NoSecondRestart
<1>4. CASE Push(c)
  <2>1. /\ UNCHANGED <<overtaken, devEpoch[c], cursor[c]>> /\ pc'[c] = "sent"
    BY <1>4 DEF Push, TypeOK
  <2> QED BY <1>0, <2>1, SettledStays DEF Pulling
<1>5. CASE SkipPush(c) \/ PushRefused(c)
  <2>1. UNCHANGED <<overtaken, devEpoch[c], cursor[c]>> /\ BeginPull(c)
    BY <1>5 DEF SkipPush, PushRefused, GiveUpBatch, storeVars, dbVars
  <2> QED BY <1>0, <2>1, SettledEnters
<1>6. CASE PushDone(c)
  <2>1. UNCHANGED <<overtaken, devEpoch[c], cursor[c]>> /\ (BeginPull(c) \/ pc'[c] = "push")
    BY <1>6 DEF PushDone, dbVars, TypeOK
  <2> QED BY <1>0, <2>1, SettledEnters, SettledStays DEF Pulling
<1>7. ASSUME NEW f \in Env, \/ HandleAcked(c, f) \/ HandleRateLimited(c, f)
                            \/ HandleQuota(c, f) \/ HandleNoRole(c, f)
      PROVE  SettledInv(c)'
  <2>1. UNCHANGED <<overtaken, devEpoch[c], cursor[c], pc[c], after[c], page[c]>>
    BY <1>7 DEF HandleAcked, HandleRateLimited, HandleQuota, HandleNoRole, Handle, storeVars
  <2> QED BY <1>0, <2>1, SettledStays
<1>8. CASE ServePull(c) \/ PullFailed(c)
  BY <1>8, SettledAsked
<1>9. CASE StorePage(c)
  BY <1>9, SettledStored
<1>10. CASE SetCursor(c)
  BY <1>10, SettledMoved
<1>11. CASE ReadYourWrites(c) \/ Prune(c) \/ PushFailed(c) \/ Crash(c)
  <2>1. UNCHANGED <<overtaken, devEpoch[c], cursor[c]>> /\ pc'[c] \in {"idle", "push", "prune"}
    BY <1>11 DEF ReadYourWrites, Prune, PushFailed, GiveUpBatch, Crash, storeVars, dbVars, TypeOK
  <2> QED BY <1>0, <2>1, SettledStays DEF Pulling
<1>12. CASE KeyArrives(c) \/ DrainKeyWait(c) \/ BackoffOver(c) \/ ResumeBook(c)
  <2>1. UNCHANGED <<overtaken, devEpoch[c], cursor[c], pc[c], after[c], page[c]>>
    BY <1>12 DEF KeyArrives, DrainKeyWait, BackoffOver, ResumeBook, storeVars, dbVars, memVars
  <2> QED BY <1>0, <2>1, SettledStays
<1> QED BY <1>1, <1>2, <1>3, <1>4, <1>5, <1>6, <1>7, <1>8, <1>9, <1>10, <1>11, <1>12
        DEF DeviceActs, DeviceStep

\* The inductive step.
LEMMA NextSettled ==
    ASSUME CalmInstance, SyncInv, SyncInv', RowInv, StoredIsSaved, [Next]_vars,
           NEW c \in Device, SettledInv(c)
    PROVE  SettledInv(c)'
<1>0. /\ TypeOK /\ TypeOK' /\ DevInv(c) /\ StoreTypeOK
      /\ \A d \in Device : BatchHeld(d)
  BY DEF SyncInv, RowInv, TypeInv, OutboxInv, TypeOK
<1>1. ASSUME NEW e \in Env, Save(e) PROVE SettledInv(c)'
  <2>1. /\ UNCHANGED <<store, epoch, overtaken, devEpoch[c], cursor[c], pc[c], after[c], page[c]>>
        /\ \A f \in Env : st[f] \notin Unsettled => st'[f] \notin Unsettled
    BY <1>0, <1>1 DEF Save, storeVars, memVars, Unsettled, TypeOK
  <2> QED BY <1>0, <2>1, SettledStays DEF Own
<1>2. ASSUME NEW d \in Device, DeviceActs(d) PROVE SettledInv(c)'
  <2>1. CASE c = d
    BY <1>0, <1>2, <2>1, SettledOwn
  <2>2. CASE c # d
    <3>1. /\ UNCHANGED <<store, epoch, overtaken, devEpoch[c], cursor[c], pc[c], after[c], page[c]>>
          /\ \A e \in Own(c) : st'[e] = st[e]
      BY <1>0, <1>2, <2>2, DeviceActsAlone, ActsElsewhere DEF Own
    <3> QED BY <1>0, <3>1, SettledStays
  <2> QED BY <2>1, <2>2
<1>3. ASSUME NEW r \in reqs, Serve(r) \/ RateLimited(r) \/ Abort(r), UNCHANGED <<dbVars, memVars>>
      PROVE  SettledInv(c)'
  BY <1>0, <1>3, ServeFacts, SettledServed
<1>4. ASSUME NEW d \in Device, Demote(d), UNCHANGED <<dbVars, memVars>> PROVE SettledInv(c)'
  BY <1>0, <1>4, SettledStays DEF Demote, dbVars, memVars
<1>5. CASE RestoreStore
  BY <1>0, <1>5, SettledRestored
<1>6. CASE UNCHANGED vars
  BY <1>0, <1>6, SettledStays DEF vars, storeVars, dbVars, memVars
<1> QED BY <1>1, <1>2, <1>3, <1>4, <1>5, <1>6 DEF Next, ServerStep, Trouble, DeviceActs

\* The accusation itself: the check requeues what is acked at or below `after`,
\* and such a row would have been observed.
LEMMA AccusedIsLost ==
    ASSUME RowInv, [Next]_vars, NEW d \in Device, NEW e \in Env, SettledInv(d),
           pc[d] = "check", Author[e] = d, st[e] = "acked", st'[e] = "queued",
           devEpoch[d] = epoch
    PROVE  store[e] = 0 \/ e \in overtaken
<1>0. /\ TypeOK /\ e \in Own(d) /\ \A c \in Device : BatchHeld(c)
      /\ store[e] # 0 /\ store[e] = ackedSeq[e]
  BY DEF RowInv, TypeInv, OutboxInv, AckedInStore, Own
<1>1. PICK c \in Device : DeviceActs(c)
  <2>1. ~UNCHANGED st
    OBVIOUS
  <2>2. \A f \in Env : Save(f) => st'[e] # "queued" \/ st[e] = "new" \/ st'[e] = st[e]
    BY <1>0 DEF Save, TypeOK
  <2> QED BY <2>1, <2>2 DEF Next, ServerStep, Trouble, RestoreStore, DeviceActs, vars, dbVars
<1>2. c = d
  BY <1>0, <1>1, DeviceActsAlone
<1>3. ReadYourWrites(d)
  <2>1. \A f \in Env : ~(\/ HandleAcked(d, f) \/ HandleRateLimited(d, f)
                         \/ HandleQuota(d, f) \/ HandleNoRole(d, f))
    BY DEF HandleAcked, HandleRateLimited, HandleQuota, HandleNoRole, Handle
  <2> QED BY <1>1, <1>2, <2>1 DEF DeviceActs, DeviceStep, StartRound, Push, SkipPush, ReceivePush,
        PushDone, ServePull, RestartPull, StorePage, KeepPulling, SetCursor, Prune, KeyArrives,
        DrainKeyWait, PushFailed, PushRefused, GiveUpBatch, PullFailed, BackoffOver, ResumeBook, Crash, dbVars
<1>4. ackedSeq[e] <= after[d]
  BY <1>0, <1>3 DEF ReadYourWrites, Lost
<1>5. e \in UpTo(after[d])
  BY <1>0, <1>4 DEF UpTo
<1>6. SettledUpTo(d, after[d])
  BY DEF SettledInv, Current
<1> QED BY <1>0, <1>5, <1>6 DEF SettledUpTo, Unsettled

\* Nothing is stored at the start, and nothing passed.
LEMMA InitSettled == Init => StoredIsSaved /\ \A c \in Device : SettledInv(c)
<1> SUFFICES ASSUME Init PROVE StoredIsSaved /\ \A c \in Device : SettledInv(c)
  OBVIOUS
<1>1. \A e \in Env : store[e] = 0
  BY DEF Init, StoreInit
<1>2. \A c \in Device : pc[c] = "idle"
  BY DEF Init
<1> QED BY <1>1, <1>2 DEF StoredIsSaved, SettledInv, SettledUpTo, UpTo, Pulling

\* The read-your-writes check accuses the server of losing an acked write
\* (write_lost) only of a row the store does not hold, unless the row committed
\* below a seq already visible: through losses, crashes and restores, as long as
\* a restore waits for the pull loops to settle.
THEOREM NoFalseWriteLostHolds == CalmInstance => (Spec => NoFalseWriteLost)
<1> SUFFICES ASSUME CalmInstance PROVE Spec => NoFalseWriteLost
  OBVIOUS
<1> DEFINE I == StoredIsSaved /\ \A c \in Device : SettledInv(c)
           A == \A d \in Device, e \in Env :
                   /\ pc[d] = "check" /\ pc'[d] # "check" /\ crashes' = crashes
                   /\ Author[e] = d /\ st[e] = "acked" /\ st'[e] = "queued"
                   /\ devEpoch[d] = epoch
                   => store[e] = 0 \/ e \in overtaken
<1>1. Init => I
  BY InitSettled
<1>2. SyncInv /\ SyncInv' /\ RowInv /\ I /\ [Next]_vars => I'
  BY NextSaved, NextSettled
<1>3. RowInv /\ I /\ [Next]_vars => [A]_vars
  BY AccusedIsLost
<1>4. Spec => []SyncInv
  BY SyncInvHolds
<1>5. NoFalseWriteLost <=> [][A]_vars
  BY DEF NoFalseWriteLost
<1> HIDE DEF I, A
<1> QED BY <1>1, <1>2, <1>3, <1>4, <1>5, RowInvHolds, PTL DEF Spec

-----------------------------------------------------------------------------
(***************************************************************************)
(* The seq of a mirror row, while no store is restored.                    *)
(***************************************************************************)

\* c's mirror learns seqs, all true, and c stays where it is or goes to a stage
\* outside the pull loop.  A row that enters the mirror either knows its seq or
\* is not stored yet.
LEMMA SeqStays ==
    ASSUME TypeOK, NEW c \in Device, SeqInv(c),
           UNCHANGED <<store, overtaken, cursor[c]>>,
           UNCHANGED <<pc[c], after[c], page[c]>> \/ ~Pulling(c)',
           \A e \in Env : mirrorSeq[c][e] # 0 => mirrorSeq'[c][e] # 0,
           SeqIsTrue(c)',
           \A e \in have'[c] \ have[c] : mirrorSeq'[c][e] # 0 \/ store[e] = 0
    PROVE  SeqInv(c)'
<1>1. ASSUME NEW s, SeqKnownUpTo(c, s)
      PROVE  \A e \in (UpTo(s)' \cap have'[c]) \ overtaken' : mirrorSeq'[c][e] # 0
  BY <1>1 DEF SeqKnownUpTo, UpTo
<1>2. SeqKnownUpTo(c, cursor[c])'
  BY <1>1 DEF SeqInv, SeqKnownUpTo, UpTo
<1>3. CASE UNCHANGED <<pc[c], after[c], page[c]>>
  <2>1. (Pulling(c) => SeqKnownUpTo(c, after[c]))'
    BY <1>1, <1>3 DEF SeqInv, SeqKnownUpTo, UpTo, Pulling
  <2>2. (pc[c] = "cursor" => SeqKnownUpTo(c, page[c].next))'
    BY <1>1, <1>3 DEF SeqInv, SeqKnownUpTo, UpTo
  <2> QED BY <1>2, <2>1, <2>2 DEF SeqInv
<1>4. CASE ~Pulling(c)'
  BY <1>2, <1>4 DEF SeqInv, Pulling
<1> QED BY <1>3, <1>4

\* c enters the pull loop at its persisted cursor.
LEMMA SeqEnters ==
    ASSUME TypeOK, NEW c \in Device, SeqInv(c), BeginPull(c),
           UNCHANGED <<store, overtaken, cursor[c], have[c], mirrorSeq[c]>>
    PROVE  SeqInv(c)'
<1>1. pc'[c] = "pull" /\ after'[c] = cursor[c]
  BY DEF BeginPull, TypeOK
<1> QED BY <1>1 DEF SeqInv, SeqIsTrue, SeqKnownUpTo, UpTo

\* An ack tells the author's mirror the seq.
LEMMA SeqAcked ==
    ASSUME MaxRestore = 0, SyncInv, RowInv, NEW c \in Device, SeqInv(c),
           NEW e \in Env, HandleAcked(c, e)
    PROVE  SeqInv(c)'
<1>0. TypeOK /\ Current(c) /\ response[c] # NoResponse /\ response[c].epoch = epoch
  BY OneEpoch DEF RowInv, TypeInv, AnswerInHand, OutboxInv, ResultsOfEpoch, HandleAcked, Handle, Current
<1>1. store[e] # 0 /\ store[e] = response[c].res[e].seq
  BY <1>0 DEF RowInv, OutboxInv, AnswerIsTrue, HandleAcked, Handle
<1>2. /\ UNCHANGED <<store, overtaken, cursor, have, pc, after, page>>
      /\ \A f \in Env : mirrorSeq'[c][f] = IF f = e THEN response[c].res[e].seq ELSE mirrorSeq[c][f]
  BY <1>0 DEF HandleAcked, Handle, storeVars, TypeOK
<1>3. SeqIsTrue(c)'
  BY <1>1, <1>2 DEF SeqInv, SeqIsTrue
<1> QED BY <1>0, <1>1, <1>2, <1>3, SeqStays

\* The key is there: what waited enters the mirror under the seq it waited with.
LEMMA SeqOfWaiting ==
    ASSUME MaxRestore = 0, SyncInv, NEW c \in Device, SeqInv(c), DrainKeyWait(c)
    PROVE  SeqInv(c)'
<1>0. TypeOK /\ Current(c) /\ DevInv(c)
  BY OneEpoch DEF SyncInv, TypeInv
<1>1. \A e \in Waiting(c) : waitSeq[c][e] # 0 /\ store[e] = waitSeq[c][e]
  BY <1>0 DEF DevInv, WaitKnowsSeq, Waiting
<1>4. PICK w \in Waiting(c) :
         /\ have' = [have EXCEPT ![c] = @ \cup {w}]
         /\ mirrorSeq' = [mirrorSeq EXCEPT ![c][w] = IF w \in have[c] THEN @ ELSE waitSeq[c][w]]
  BY DEF DrainKeyWait
<1>2. /\ UNCHANGED <<store, overtaken, cursor, pc, after, page>>
      /\ w \in Env
      /\ have'[c] = have[c] \cup {w}
      /\ \A e \in Env : mirrorSeq'[c][e] = IF e \in {w} \ have[c] THEN waitSeq[c][e]
                                                                 ELSE mirrorSeq[c][e]
  BY <1>0, <1>4 DEF DrainKeyWait, storeVars, TypeOK, Waiting
<1>3. SeqIsTrue(c)'
  BY <1>1, <1>2 DEF SeqInv, SeqIsTrue
<1> QED BY <1>0, <1>1, <1>2, <1>3, <1>4, SeqStays

\* The page is stored: what it holds knows its seq.
LEMMA SeqStored ==
    ASSUME MaxRestore = 0, SyncInv, NEW c \in Device, SeqInv(c), StorePage(c)
    PROVE  SeqInv(c)'
<1>0. TypeOK /\ Current(c) /\ DevInv(c)
  BY OneEpoch DEF SyncInv, TypeInv
<1>1. /\ pc[c] = "page" /\ pc'[c] = "cursor" /\ page[c].epoch = epoch
      /\ UNCHANGED <<store, overtaken, cursor, after, page>>
      /\ have'[c] = have[c] \cup Admitted(c)
      /\ \A e \in Env : mirrorSeq'[c][e] = IF e \in Admitted(c) \cup NeedsSeq(c)
                                           THEN page[c].seq[e] ELSE mirrorSeq[c][e]
  BY <1>0 DEF StorePage, storeVars, TypeOK, Current
<1>2. /\ \A e \in OnPage(c) : page[c].seq[e] # 0 /\ store[e] = page[c].seq[e]
      /\ UpTo(page[c].next) \ UpTo(after[c]) \subseteq OnPage(c) \cup overtaken
  BY <1>0, <1>1 DEF DevInv, PageCovers, OnPage
<1>3. /\ Admitted(c) \subseteq OnPage(c) /\ NeedsSeq(c) \subseteq OnPage(c)
      /\ \A e \in OnPage(c) \cap have'[c] : mirrorSeq[c][e] # 0 \/ e \in Admitted(c) \cup NeedsSeq(c)
  BY <1>1 DEF Admitted, NeedsSeq
<1>4. SeqIsTrue(c)'
  BY <1>1, <1>2, <1>3 DEF SeqInv, SeqIsTrue
<1>5. \A e \in OnPage(c) \cap have'[c] : mirrorSeq'[c][e] # 0
  BY <1>1, <1>2, <1>3 DEF OnPage
<1>6. \A e \in Env : mirrorSeq[c][e] # 0 => mirrorSeq'[c][e] # 0
  BY <1>1, <1>2, <1>3
<1>7. ASSUME NEW s, SeqKnownUpTo(c, s)
      PROVE  \A e \in (UpTo(s)' \cap have'[c]) \ overtaken' : mirrorSeq'[c][e] # 0
  <2> SUFFICES ASSUME NEW e \in Env, e \in UpTo(s), e \in have'[c], e \notin overtaken
               PROVE  mirrorSeq'[c][e] # 0
    BY <1>1 DEF UpTo
  <2>1. e \in have[c] \/ e \in OnPage(c)
    BY <1>1, <1>3
  <2> QED BY <1>5, <1>6, <1>7, <2>1 DEF SeqKnownUpTo
<1>8. SeqKnownUpTo(c, after[c])
  BY <1>1 DEF SeqInv, Pulling
<1>9. SeqKnownUpTo(c, cursor[c])' /\ SeqKnownUpTo(c, after[c])'
  BY <1>1, <1>7, <1>8 DEF SeqInv, SeqKnownUpTo, UpTo
<1>10. SeqKnownUpTo(c, page[c].next)'
  <2> SUFFICES ASSUME NEW e \in Env, e \in UpTo(page[c].next), e \in have'[c], e \notin overtaken
               PROVE  mirrorSeq'[c][e] # 0
    BY <1>1 DEF SeqKnownUpTo, UpTo
  <2>1. CASE e \in OnPage(c)
    BY <1>5, <2>1
  <2>2. CASE e \in UpTo(after[c])
    BY <1>1, <1>7, <1>8, <2>2 DEF UpTo
  <2> QED BY <1>2, <2>1, <2>2
<1> QED BY <1>1, <1>4, <1>9, <1>10 DEF SeqInv

\* The cursors follow the page.
LEMMA SeqMoved ==
    ASSUME TypeOK, TypeOK', NEW c \in Device, SeqInv(c), SetCursor(c)
    PROVE  SeqInv(c)'
<1>1. /\ after'[c] = page[c].next \/ after'[c] = after[c]
      /\ cursor'[c] = cursor[c] \/ cursor'[c] <= after'[c]
      /\ UNCHANGED <<store, overtaken, have, mirrorSeq>>
      /\ pc[c] = "cursor" /\ pc'[c] \in {"check", "pull"}
      /\ after'[c] \in Nat /\ cursor'[c] \in Nat /\ store \in [Env -> Nat]
  BY CursorFloor DEF TypeOK, StoreTypeOK
<1>2. /\ SeqKnownUpTo(c, cursor[c]) /\ SeqKnownUpTo(c, after[c]) /\ SeqKnownUpTo(c, page[c].next)
  BY <1>1 DEF SeqInv, Pulling
<1>3. SeqKnownUpTo(c, after'[c])
  BY <1>1, <1>2
<1>4. SeqKnownUpTo(c, cursor'[c])
  BY <1>1, <1>2, <1>3 DEF SeqKnownUpTo, UpTo
<1>5. SeqKnownUpTo(c, cursor[c])' /\ SeqKnownUpTo(c, after[c])' /\ SeqIsTrue(c)'
  BY <1>1, <1>3, <1>4 DEF SeqKnownUpTo, UpTo, SeqInv, SeqIsTrue
<1> QED BY <1>1, <1>5 DEF SeqInv

\* Rows commit: at or below what c's cursors have passed only overtaken ones.
LEMMA SeqServed ==
    ASSUME MaxRestore = 0, SyncInv, TypeOK', NEW c \in Device, SeqInv(c),
           \A e \in Env : store[e] # 0 => store'[e] = store[e],
           overtaken \subseteq overtaken',
           \A e, f \in Env :
             store[e] = 0 /\ store'[e] # 0 /\ store[f] >= store'[e] => e \in overtaken',
           UNCHANGED <<dbVars, memVars>>
    PROVE  SeqInv(c)'
<1>0. /\ UNCHANGED <<pc[c], cursor[c], after[c], page[c], have[c], mirrorSeq[c]>>
      /\ TypeOK /\ Current(c) /\ DevInv(c)
  BY OneEpoch DEF dbVars, memVars, SyncInv, TypeInv
<1>00. cursor[c] \in Nat /\ after[c] \in Nat /\ page[c].next \in Nat
  BY <1>0, DeviceTypes DEF Page
<1>1. ASSUME NEW s \in Nat, Visible(s), SeqKnownUpTo(c, s)
      PROVE  \A e \in (UpTo(s)' \cap have'[c]) \ overtaken' : mirrorSeq'[c][e] # 0
  <2>1. UpTo(s)' \subseteq UpTo(s) \cup overtaken'
    BY <1>0, <1>1, CommitBelow
  <2> QED BY <1>0, <1>1, <2>1 DEF SeqKnownUpTo
<1>2. SeqKnownUpTo(c, cursor[c])'
  <2>1. Visible(cursor[c]) /\ SeqKnownUpTo(c, cursor[c])
    BY <1>0 DEF SeqInv, DevInv, CursorCovered
  <2> QED BY <1>0, <1>00, <1>1, <2>1 DEF SeqKnownUpTo, UpTo
<1>3. (Pulling(c) => SeqKnownUpTo(c, after[c]))'
  <2> SUFFICES ASSUME Pulling(c) PROVE SeqKnownUpTo(c, after[c])'
    BY <1>0 DEF Pulling
  <2>1. Visible(after[c]) /\ SeqKnownUpTo(c, after[c])
    BY <1>0 DEF SeqInv, DevInv, AfterCovered
  <2> QED BY <1>0, <1>00, <1>1, <2>1 DEF SeqKnownUpTo, UpTo
<1>4. (pc[c] = "cursor" => SeqKnownUpTo(c, page[c].next))'
  <2> SUFFICES ASSUME pc[c] = "cursor" PROVE SeqKnownUpTo(c, page[c].next)'
    BY <1>0
  <2>1. Visible(page[c].next) /\ SeqKnownUpTo(c, page[c].next)
    BY <1>0 DEF SeqInv, DevInv, PageStored
  <2> QED BY <1>0, <1>00, <1>1, <2>1 DEF SeqKnownUpTo, UpTo
<1>5. SeqIsTrue(c)'
  <2>1. mirrorSeq[c] \in [Env -> Nat]
    BY <1>0 DEF TypeOK
  <2> QED BY <1>0, <2>1 DEF SeqInv, SeqIsTrue
<1> QED BY <1>2, <1>3, <1>4, <1>5 DEF SeqInv

\* What device c does, seen from c.
LEMMA SeqOwn ==
    ASSUME MaxRestore = 0, SyncInv, SyncInv', RowInv, NEW c \in Device, SeqInv(c), DeviceActs(c)
    PROVE  SeqInv(c)'
<1>0. /\ TypeOK /\ TypeOK' /\ BatchHeld(c) /\ Current(c)
      /\ page[c].epoch <= epoch /\ epoch = 0 /\ page[c].epoch \in Nat
      /\ response[c] # NoResponse => response[c].epoch <= epoch /\ response[c].epoch \in Nat
  BY OneEpoch, OutboxTypes DEF RowInv, TypeInv, SyncInv, OutboxInv, EpochsFromStore, EpochsBehind
<1>1. UNCHANGED store
  BY <1>0, DeviceActsAlone
<1>2. ASSUME UNCHANGED <<overtaken, cursor[c], have[c], mirrorSeq[c]>>,
             UNCHANGED <<pc[c], after[c], page[c]>> \/ ~Pulling(c)'
      PROVE  SeqInv(c)'
  BY <1>0, <1>1, <1>2, SeqStays DEF SeqInv, SeqIsTrue
\* There is one epoch, so observing it changes nothing.
<1>3. CASE StartRound(c) \/ ReceivePush(c)
  <2>1. /\ UNCHANGED <<overtaken, have, mirrorSeq>> /\ pc'[c] \in {"push", "results"}
        /\ ObserveEpoch(c, epoch) \/ (ObserveEpoch(c, response[c].epoch) /\ response[c] # NoResponse)
    BY <1>0, <1>3 DEF StartRound, ReceivePush, storeVars, TypeOK
  <2>2. UNCHANGED cursor
    BY <1>0, <2>1 DEF ObserveEpoch, Current
  <2> QED BY <1>2, <2>1, <2>2 DEF Pulling
<1>4. ~RestartPull(c) /\ ~KeepPulling(c)
  BY <1>0 DEF RestartPull, KeepPulling, Current
<1>5. CASE SkipPush(c) \/ PushRefused(c)
  <2>1. UNCHANGED <<overtaken, cursor, have, mirrorSeq>> /\ BeginPull(c)
    BY <1>5 DEF SkipPush, PushRefused, GiveUpBatch, storeVars, dbVars
  <2> QED BY <1>0, <1>1, <2>1, SeqEnters
<1>6. CASE Push(c) \/ PushFailed(c) \/ Crash(c) \/ ReadYourWrites(c) \/ Prune(c)
  <2>1. /\ UNCHANGED <<overtaken, cursor, have, mirrorSeq>>
        /\ pc'[c] \in {"idle", "push", "sent", "prune"}
    BY <1>0, <1>6 DEF Push, PushFailed, GiveUpBatch, Crash, ReadYourWrites, Prune, storeVars,
          dbVars, TypeOK
  <2> QED BY <1>2, <2>1 DEF Pulling
<1>7. CASE PushDone(c)
  <2>1. UNCHANGED <<overtaken, cursor, have, mirrorSeq>> /\ (BeginPull(c) \/ pc'[c] = "push")
    BY <1>0, <1>7 DEF PushDone, dbVars, TypeOK
  <2> QED BY <1>0, <1>1, <1>2, <2>1, SeqEnters DEF Pulling
<1>8. ASSUME NEW f \in Env, \/ HandleAcked(c, f) \/ HandleRateLimited(c, f)
                            \/ HandleQuota(c, f) \/ HandleNoRole(c, f)
      PROVE  SeqInv(c)'
  <2>1. CASE HandleAcked(c, f)
    BY <2>1, SeqAcked
  <2>2. CASE HandleRateLimited(c, f) \/ HandleQuota(c, f) \/ HandleNoRole(c, f)
    <3>1. UNCHANGED <<overtaken, cursor, have, mirrorSeq, pc, after, page>>
      BY <2>2 DEF HandleRateLimited, HandleQuota, HandleNoRole, Handle, storeVars
    <3> QED BY <1>2, <3>1
  <2> QED BY <1>8, <2>1, <2>2
<1>9. CASE ServePull(c) \/ PullFailed(c)
  <2>1. /\ UNCHANGED <<overtaken, cursor, have, mirrorSeq, after>>
        /\ pc[c] = "pull" /\ pc'[c] \in {"page", "check"}
    BY <1>0, <1>9 DEF ServePull, PullFailed, dbVars, TypeOK
  <2> QED BY <1>1, <2>1 DEF SeqInv, SeqIsTrue, SeqKnownUpTo, UpTo, Pulling
<1>10. CASE StorePage(c)
  BY <1>10, SeqStored
<1>11. CASE SetCursor(c)
  BY <1>0, <1>11, SeqMoved
<1>12. CASE DrainKeyWait(c)
  BY <1>12, SeqOfWaiting
<1>13. CASE KeyArrives(c) \/ BackoffOver(c) \/ ResumeBook(c)
  <2>1. UNCHANGED <<overtaken, cursor, have, mirrorSeq, pc, after, page>>
    BY <1>13 DEF KeyArrives, BackoffOver, ResumeBook, storeVars, dbVars, memVars
  <2> QED BY <1>2, <2>1
<1> QED BY <1>3, <1>4, <1>5, <1>6, <1>7, <1>8, <1>9, <1>10, <1>11, <1>12, <1>13
        DEF DeviceActs, DeviceStep

\* The inductive step.
LEMMA NextSeqs ==
    ASSUME MaxRestore = 0, SyncInv, SyncInv', RowInv, StoredIsSaved, [Next]_vars,
           NEW c \in Device, SeqInv(c)
    PROVE  SeqInv(c)'
<1>0. TypeOK /\ TypeOK' /\ StoreTypeOK /\ \A d \in Device : BatchHeld(d)
  BY DEF SyncInv, RowInv, TypeInv, OutboxInv, TypeOK
\* A saved entry has no seq in the mirror, and none in the store yet.
<1>1. ASSUME NEW e \in Env, Save(e) PROVE SeqInv(c)'
  <2>1. UNCHANGED <<store, overtaken, cursor, pc, after, page, mirrorSeq>>
    BY <1>1 DEF Save, storeVars, memVars
  <2>2. store[e] = 0
    BY <1>1 DEF Save, StoredIsSaved
  <2>3. have'[c] \subseteq have[c] \cup {e}
    BY <1>0, <1>1 DEF Save, TypeOK
  <2> QED BY <1>0, <2>1, <2>2, <2>3, SeqStays DEF SeqInv, SeqIsTrue
<1>2. ASSUME NEW d \in Device, DeviceActs(d) PROVE SeqInv(c)'
  <2>1. CASE c = d
    BY <1>2, <2>1, SeqOwn
  <2>2. CASE c # d
    <3>1. UNCHANGED <<store, overtaken, cursor[c], pc[c], after[c], page[c], mirrorSeq[c], have[c]>>
      BY <1>0, <1>2, <2>2, DeviceActsAlone, ActsElsewhere
    <3> QED BY <1>0, <3>1, SeqStays DEF SeqInv, SeqIsTrue
  <2> QED BY <2>1, <2>2
<1>3. ASSUME NEW r \in reqs, Serve(r) \/ RateLimited(r) \/ Abort(r), UNCHANGED <<dbVars, memVars>>
      PROVE  SeqInv(c)'
  BY <1>0, <1>3, ServeFacts, SeqServed
<1>4. ASSUME NEW d \in Device, Demote(d), UNCHANGED <<dbVars, memVars>> PROVE SeqInv(c)'
  BY <1>0, <1>4, SeqStays DEF Demote, dbVars, memVars, SeqInv, SeqIsTrue
<1>5. ~RestoreStore
  BY <1>0 DEF RestoreStore, Restore, StoreTypeOK
<1>6. CASE UNCHANGED vars
  BY <1>0, <1>6, SeqStays DEF vars, storeVars, dbVars, memVars, SeqInv, SeqIsTrue
<1> QED BY <1>1, <1>2, <1>3, <1>4, <1>5, <1>6 DEF Next, ServerStep, Trouble, DeviceActs

\* While no store is restored, a mirror row behind the cursor carries the seq
\* the store gave the row, however it came in (the author's own save and ack, a
\* page, a wait for the key): what the revocation cut-off is compared with.
THEOREM MirrorSeqIsCurrentHolds ==
    MaxRestore = 0 /\ ~OverlappingRestores => (Spec => []MirrorSeqIsCurrent)
<1> SUFFICES ASSUME MaxRestore = 0, ~OverlappingRestores
             PROVE  Spec => []MirrorSeqIsCurrent
  OBVIOUS
<1> DEFINE I == StoredIsSaved /\ \A c \in Device : SeqInv(c)
<1>1. CalmInstance
  BY DEF CalmInstance
<1>2. Init => I
  <2> SUFFICES ASSUME Init, NEW c \in Device PROVE SeqInv(c)
    BY InitSettled
  <2>1. pc[c] = "idle" /\ mirrorSeq[c] = NoSeq /\ \A e \in Env : store[e] = 0
    BY DEF Init, StoreInit
  <2> QED BY <2>1 DEF SeqInv, SeqIsTrue, SeqKnownUpTo, UpTo, Pulling, NoSeq
<1>3. SyncInv /\ SyncInv' /\ RowInv /\ I /\ [Next]_vars => I'
  BY NextSaved, NextSeqs
<1>4. I => MirrorSeqIsCurrent
  BY DEF SeqInv, SeqIsTrue, SeqKnownUpTo, UpTo, MirrorSeqIsCurrent, Covered
<1>5. Spec => []SyncInv
  BY <1>1, SyncInvHolds
<1> HIDE DEF I
<1> QED BY <1>2, <1>3, <1>4, <1>5, RowInvHolds, PTL DEF Spec
=============================================================================
