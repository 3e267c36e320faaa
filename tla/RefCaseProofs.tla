--------------------------- MODULE RefCaseProofs ---------------------------
(***************************************************************************)
(* Theorems of RefCase: what holds of every book the generator posts,      *)
(* whatever the cases, the charts, the entries and the bounds.             *)
(*                                                                         *)
(* The close of a book of one owner and of a book of partners is worked    *)
(* out account by account, the numbering of the entries is shown to keep   *)
(* every entry written, and the inductive invariant says that every book   *)
(* of a case that passed its checks is the close of a posted book.         *)
(***************************************************************************)
EXTENDS RefBookProofs

-----------------------------------------------------------------------------
(* The entries of the close *)

LEMMA SumFive ==
    ASSUME NEW f, \A i \in 1..5 : f[i] \in Int
    PROVE  Sum(f, 1..5) = f[1] + f[2] + f[3] + f[4] + f[5]
<1> DEFINE A == {1, 2, 3, 4, 5}
           B == {1, 2, 3, 4}
           C == {1, 2, 3}
           D == {1, 2}
           E == {1}
<1>1. 1..5 = A /\ \A i \in A : f[i] \in Int
  OBVIOUS
<1>2. IsFiniteSet(A) /\ IsFiniteSet(B) /\ IsFiniteSet(C) /\ IsFiniteSet(D) /\ IsFiniteSet(E)
  <2>1. IsFiniteSet(1..5)
    <3>1. \A m \in Nat : IsFiniteSet(1..m)
      BY FS_Interval
    <3> QED BY <3>1
  <2>2. B \subseteq 1..5 /\ C \subseteq 1..5 /\ D \subseteq 1..5 /\ E \subseteq 1..5
    OBVIOUS
  <2> QED BY <1>1, <2>1, <2>2, FS_Subset
<1>3. B = A \ {5} /\ C = B \ {4} /\ D = C \ {3} /\ E = D \ {2} /\ {} = E \ {1}
  OBVIOUS
<1>4. 5 \in A /\ 4 \in B /\ 3 \in C /\ 2 \in D /\ 1 \in E /\ B \subseteq A /\ C \subseteq A /\ D \subseteq A /\ E \subseteq A
  OBVIOUS
<1> HIDE DEF A, B, C, D, E
<1>5. Sum(f, A) = f[5] + Sum(f, B)
  BY <1>1, <1>2, <1>3, <1>4, SumTake
<1>6. Sum(f, B) = f[4] + Sum(f, C)
  BY <1>1, <1>2, <1>3, <1>4, SumTake
<1>7. Sum(f, C) = f[3] + Sum(f, D)
  BY <1>1, <1>2, <1>3, <1>4, SumTake
<1>8. Sum(f, D) = f[2] + Sum(f, E)
  BY <1>1, <1>2, <1>3, <1>4, SumTake
<1>9. Sum(f, E) = f[1] + Sum(f, {})
  BY <1>1, <1>2, <1>3, <1>4, SumTake
<1>10. Sum(f, {}) = 0
  BY SumEmpty
<1>11. f[1] \in Int /\ f[2] \in Int /\ f[3] \in Int /\ f[4] \in Int /\ f[5] \in Int
  OBVIOUS
<1>12. Sum(f, A) = f[1] + f[2] + f[3] + f[4] + f[5]
  BY <1>5, <1>6, <1>7, <1>8, <1>9, <1>10, <1>11
<1> QED BY <1>1, <1>12

\* The lines that are not nil say as much as all of them.
Solid(L) == Taken(L, {k \in DOMAIN L : L[k].a # 0})

LEMMA SolidOn ==
    ASSUME NEW L \in Seq(Line), NEW n
    PROVE  Solid(L) \in Seq(Line) /\ On(Solid(L), n) = On(L, n)
<1> DEFINE K == {k \in DOMAIN L : L[k].a # 0}
           t == Solid(L)
           q == InOrder(K, Len(L))
<1>1. TakenIs(L, K, t, q) /\ K \in SUBSET DOMAIN L
  BY TakenLists DEF Solid
<1>2. DOMAIN t = DOMAIN q /\ (\A k \in DOMAIN t : q[k] \in K /\ t[k] = L[q[k]]) /\ t \in Seq({L[k] : k \in K})
  BY <1>1 DEF TakenIs
<1>3. t \in Seq(Line)
  <2>1. \A k \in K : L[k] \in Line
    BY LinesAre
  <2>2. DOMAIN t = 1..Len(t) /\ Len(t) \in Nat
    BY <1>1 DEF TakenIs
  <2>3. t \in [1..Len(t) -> Line]
    <3>1. t \in [1..Len(t) -> {L[k] : k \in K}]
      BY <1>2, <2>2
    <3> HIDE DEF t, q, K
    <3> QED BY <2>1, <3>1
  <2> HIDE DEF t
  <2> QED BY <2>2, <2>3
<1>4. Len(L) \in Nat /\ DOMAIN L = 1..Len(L) /\ \A i \in DOMAIN L : L[i].a \in Int
  BY LinesAre
<1>5. \A i \in DOMAIN L : OnLine(L, n)[i] = (IF L[i].n = n THEN L[i].a ELSE 0) /\ OnLine(L, n)[i] \in Int
  BY OnIs
<1>6. \A i \in (DOMAIN L) \ K : OnLine(L, n)[i] = 0
  BY <1>5
<1>7. \A k \in DOMAIN t : OnLine(t, n)[k] = OnLine(L, n)[q[k]]
  <2>1. \A k \in DOMAIN t : OnLine(t, n)[k] = (IF t[k].n = n THEN t[k].a ELSE 0)
    BY DEF OnLine
  <2>2. \A k \in DOMAIN t : q[k] \in DOMAIN L
    BY <1>1, <1>2
  <2> HIDE DEF t, q, K
  <2> QED BY <1>2, <1>5, <2>1, <2>2
<1> HIDE DEF t, K
<1>8. Sum(OnLine(t, n), DOMAIN q) = Sum(OnLine(L, n), 1..Len(L))
  <2>1. \A k \in DOMAIN q : OnLine(t, n)[k] = OnLine(L, n)[q[k]]
    BY <1>2, <1>7
  <2>2. K \in SUBSET (1..Len(L)) /\ (\A i \in 1..Len(L) : OnLine(L, n)[i] \in Int) /\ \A i \in (1..Len(L)) \ K : OnLine(L, n)[i] = 0
    BY <1>1, <1>4, <1>5, <1>6
  <2> QED BY <1>4, <2>1, <2>2, PickedAll
<1>9. On(t, n) = Sum(OnLine(t, n), DOMAIN t) /\ On(L, n) = Sum(OnLine(L, n), DOMAIN L)
  BY <1>3, OnIs
<1> QED BY <1>2, <1>3, <1>4, <1>8, <1>9 DEF t

\* A list of entries of the close.
Notes == {"income", "expense", "appropriation", "interest", "share", "result", "drawings", "shareout"}
Lists(es) == DOMAIN es = 1..Len(es) /\ Len(es) \in Nat /\ \A i \in DOMAIN es : es[i] \in [note : Notes, lines : Seq(Line)]
OnEach(es, n) == [i \in DOMAIN es |-> On(es[i].lines, n)]

LEMMA OnEachIs ==
    ASSUME NEW es, Lists(es), NEW n
    PROVE  /\ IsFiniteSet(DOMAIN es) /\ Sum(OnEach(es, n), DOMAIN es) \in Int
           /\ \A i \in DOMAIN es : OnEach(es, n)[i] = On(es[i].lines, n) /\ OnEach(es, n)[i] \in Int
<1>1. IsFiniteSet(DOMAIN es)
  BY FS_Interval DEF Lists
<1>2. \A i \in DOMAIN es : OnEach(es, n)[i] = On(es[i].lines, n) /\ OnEach(es, n)[i] \in Int
  BY OnIs DEF Lists, OnEach
<1> QED BY <1>1, <1>2, SumInt

\* The rows of the close on n.
LEMMA ClosePostsSum ==
    ASSUME NEW es, Lists(es), NEW n
    PROVE  SumOf(ClosePosts(es, n), LAMBDA p : p.a) = Sum(OnEach(es, n), DOMAIN es)
<1> DEFINE I == {i \in DOMAIN es : \E ln \in ToSet(es[i].lines) : ln.n = n}
           q == InOrder(I, Len(es))
           c == ClosePosts(es, n)
           g == [k \in DOMAIN q |-> c[k].a]
<1>1. c = [k \in DOMAIN q |-> [y |-> q[k], a |-> On(es[q[k]].lines, n)]]
  BY Zenon DEF ClosePosts
<1>2. DOMAIN c = DOMAIN q /\ \A k \in DOMAIN q : c[k].a = On(es[q[k]].lines, n)
  <2> HIDE DEF c, q
  <2> QED BY <1>1
<1>3. SumOf(c, LAMBDA p : p.a) = Sum([k \in DOMAIN c |-> c[k].a], DOMAIN c)
  BY DEF SumOf, SumFunction, Sum
<1>4. Len(es) \in Nat /\ I \in SUBSET (1..Len(es)) /\ DOMAIN es = 1..Len(es)
  BY DEF Lists
<1>5. \A k \in DOMAIN q : q[k] \in I
  BY <1>4, InOrderLists DEF Enumerates
<1>6. \A k \in DOMAIN q : g[k] = OnEach(es, n)[q[k]]
  <2>1. \A k \in DOMAIN q : g[k] = On(es[q[k]].lines, n)
    BY <1>2
  <2>2. \A k \in DOMAIN q : q[k] \in DOMAIN es
    BY <1>4, <1>5
  <2> HIDE DEF g, q, I
  <2> QED BY <2>1, <2>2, OnEachIs
<1>7. \A i \in 1..Len(es) : OnEach(es, n)[i] \in Int
  BY <1>4, OnEachIs
<1>8. \A i \in (1..Len(es)) \ I : OnEach(es, n)[i] = 0
  <2>1. ASSUME NEW i \in DOMAIN es, i \notin I PROVE OnEach(es, n)[i] = 0
    <3>1. es[i].lines \in Seq(Line) /\ ~\E ln \in ToSet(es[i].lines) : ln.n = n
      BY <2>1 DEF Lists
    <3> QED BY <3>1, OnNone, OnEachIs
  <2> QED BY <1>4, <2>1
<1>9. Sum(g, DOMAIN q) = Sum(OnEach(es, n), 1..Len(es))
  <2> HIDE DEF g, I
  <2> QED BY <1>4, <1>6, <1>7, <1>8, PickedAll
<1>10. g = [k \in DOMAIN c |-> c[k].a]
  BY <1>2
<1> HIDE DEF c, q, g
<1>11. SumOf(c, LAMBDA p : p.a) = Sum(OnEach(es, n), DOMAIN es)
  BY <1>2, <1>3, <1>4, <1>9, <1>10
<1> QED BY <1>11 DEF c

\* Dropping nil lines and empty entries takes nothing off an account.
Solidly(es) == [i \in DOMAIN es |-> [es[i] EXCEPT !.lines = Solid(@)]]

LEMMA OnEmpty ==
    ASSUME NEW n
    PROVE  On(<< >>, n) = 0
<1>1. << >> \in Seq(Line) /\ DOMAIN << >> = {}
  OBVIOUS
<1>2. On(<< >>, n) = Sum(OnLine(<< >>, n), DOMAIN << >>)
  BY <1>1, OnIs
<1>3. Sum(OnLine(<< >>, n), {}) = 0
  BY SumEmpty
<1> QED BY <1>1, <1>2, <1>3

LEMMA MadeOn ==
    ASSUME NEW es, Lists(es), NEW n
    PROVE  Lists(Made(es)) /\ SumOf(ClosePosts(Made(es), n), LAMBDA p : p.a) = Sum(OnEach(es, n), DOMAIN es)
<1> DEFINE s == Solidly(es)
           I == {i \in DOMAIN s : s[i].lines # << >>}
           q == InOrder(I, Len(s))
           m == Made(es)
           X == [note : Notes, lines : Seq(Line)]
<1>1. m = Taken(s, I)
  BY Zenon DEF Made, Those, Taken, Solidly, Solid
<1>2. ASSUME NEW i \in DOMAIN es
      PROVE  s[i] \in X /\ s[i].lines = Solid(es[i].lines) /\ On(s[i].lines, n) = On(es[i].lines, n)
  <2>1. es[i] \in X
    BY DEF Lists
  <2>2. s[i] = [es[i] EXCEPT !.lines = Solid(es[i].lines)]
    BY DEF Solidly
  <2>3. es[i].lines \in Seq(Line)
    BY <2>1
  <2>4. Solid(es[i].lines) \in Seq(Line) /\ On(Solid(es[i].lines), n) = On(es[i].lines, n)
    BY <2>3, SolidOn
  <2> HIDE DEF s
  <2>5. s[i].lines = Solid(es[i].lines) /\ s[i] \in X
    BY <2>1, <2>2, <2>4
  <2> QED BY <2>4, <2>5
<1>3. DOMAIN es = 1..Len(es) /\ Len(es) \in Nat
  BY DEF Lists
<1>4. s \in Seq(X) /\ DOMAIN s = DOMAIN es /\ Len(s) = Len(es)
  <2>1. s = [i \in 1..Len(es) |-> s[i]] /\ \A i \in 1..Len(es) : s[i] \in X
    BY <1>2, <1>3 DEF Solidly
  <2> HIDE DEF s, X
  <2> QED BY <1>3, <2>1
<1>5. TakenIs(s, I, m, q)
  <2> HIDE DEF s
  <2> QED BY <1>1, <1>4, TakenLists
<1>6. Lists(m)
  <2>1. DOMAIN m = 1..Len(m) /\ Len(m) \in Nat /\ \A k \in DOMAIN m : q[k] \in I /\ m[k] = s[q[k]]
    <3> HIDE DEF m, q, I, s
    <3> QED BY <1>5 DEF TakenIs
  <2>2. \A i \in I : s[i] \in X
    BY <1>2, <1>4
  <2> HIDE DEF m, q, I, s
  <2> QED BY <2>1, <2>2 DEF Lists
<1>7. \A k \in DOMAIN q : OnEach(m, n)[k] = OnEach(es, n)[q[k]]
  <2>1. DOMAIN m = DOMAIN q /\ \A k \in DOMAIN m : q[k] \in I /\ m[k] = s[q[k]]
    <3> HIDE DEF m, q, I, s
    <3> QED BY <1>5 DEF TakenIs
  <2>2. \A i \in I : i \in DOMAIN es /\ On(s[i].lines, n) = On(es[i].lines, n)
    BY <1>2, <1>4
  <2>3. \A i \in DOMAIN es : OnEach(es, n)[i] = On(es[i].lines, n)
    BY OnEachIs
  <2>4. \A k \in DOMAIN m : OnEach(m, n)[k] = On(m[k].lines, n)
    BY DEF OnEach
  <2> HIDE DEF m, q, I, s
  <2> QED BY <2>1, <2>2, <2>3, <2>4
<1>8. \A i \in (1..Len(es)) \ I : OnEach(es, n)[i] = 0
  <2>1. ASSUME NEW i \in DOMAIN es, i \notin I PROVE OnEach(es, n)[i] = 0
    <3>1. s[i].lines = << >> /\ On(s[i].lines, n) = On(es[i].lines, n)
      BY <1>2, <1>4, <2>1
    <3>2. On(<< >>, n) = 0
      BY OnEmpty
    <3>3. OnEach(es, n)[i] = On(es[i].lines, n)
      BY <2>1, OnEachIs
    <3> HIDE DEF s, I
    <3> QED BY <3>1, <3>2, <3>3
  <2> QED BY <1>3, <2>1
<1>9. I \in SUBSET (1..Len(es)) /\ Len(s) = Len(es) /\ DOMAIN m = DOMAIN q
  <2>1. I \in SUBSET (1..Len(es))
    BY <1>3, <1>4
  <2>2. DOMAIN m = DOMAIN q
    <3> HIDE DEF m, q, I, s
    <3> QED BY <1>5 DEF TakenIs
  <2> QED BY <1>4, <2>1, <2>2
<1>10. \A i \in 1..Len(es) : OnEach(es, n)[i] \in Int
  BY <1>3, OnEachIs
<1>11. Sum(OnEach(m, n), DOMAIN InOrder(I, Len(es))) = Sum(OnEach(es, n), 1..Len(es))
  <2>1. q = InOrder(I, Len(es))
    BY <1>9
  <2> HIDE DEF m, I, s, q
  <2>2. \A k \in DOMAIN InOrder(I, Len(es)) : OnEach(m, n)[k] = OnEach(es, n)[InOrder(I, Len(es))[k]]
    BY <1>7, <2>1
  <2> QED BY <1>3, <1>8, <1>9, <1>10, <2>2, PickedAll
<1>12. SumOf(ClosePosts(m, n), LAMBDA p : p.a) = Sum(OnEach(m, n), DOMAIN m)
  BY <1>6, ClosePostsSum
<1>13. Sum(OnEach(m, n), DOMAIN m) = Sum(OnEach(es, n), DOMAIN es)
  <2>1. DOMAIN m = DOMAIN InOrder(I, Len(es))
    BY <1>9
  <2> HIDE DEF m, I, s, q
  <2> QED BY <1>3, <1>11, <2>1
<1> QED BY <1>6, <1>12, <1>13, Zenon

\* What the balances of the accounts of kind k come to at the year's end.
KindTotal(bk, k) == Sum(Balances(bk, FyEnd), OfKind(bk, {k}))

LEMMA KindTotalIs ==
    ASSUME NEW bk, Base(bk), NEW k
    PROVE  /\ KindTotal(bk, k) \in Int /\ IsFiniteSet(OfKind(bk, {k})) /\ OfKind(bk, {k}) \in SUBSET Names(bk)
           /\ \A n \in Names(bk) : (n \in OfKind(bk, {k}) <=> Kind(bk, n) = k)
                                   /\ bk.closing[n] = Balances(bk, FyEnd)[n] /\ bk.closing[n] \in Int
<1>1. IsFiniteSet(Names(bk)) /\ OfKind(bk, {k}) \in SUBSET Names(bk) /\ \A n \in Names(bk) : n \in OfKind(bk, {k}) <=> Kind(bk, n) = k
  BY NamesAre DEF Base, OfKind
<1>2. IsFiniteSet(OfKind(bk, {k}))
  BY <1>1, FS_Subset
<1>3. \A n \in Names(bk) : bk.closing[n] = Balances(bk, FyEnd)[n] /\ bk.closing[n] \in Int
  BY ClosingBalance DEF Balances
<1>4. \A n \in OfKind(bk, {k}) : Balances(bk, FyEnd)[n] \in Int
  BY <1>1, <1>3
<1>5. KindTotal(bk, k) \in Int
  BY <1>2, <1>4, SumInt DEF KindTotal
<1> QED BY <1>1, <1>2, <1>3, <1>5

\* A list of lines that clears a set of heads.
Heads(bk, k) == {n \in Names(bk) : Kind(bk, n) = k /\ bk.closing[n] # 0}
Cleared(bk, k) ==
    [i \in DOMAIN InBook(bk, Heads(bk, k)) |-> Ln(InBook(bk, Heads(bk, k))[i], -bk.closing[InBook(bk, Heads(bk, k))[i]])]

LEMMA ClearedIs ==
    ASSUME NEW bk, Base(bk), NEW k, NEW to
    PROVE  HeadsClosed(bk, k, to) = Append(Cleared(bk, k), Ln(to, -SumLines(Cleared(bk, k))))
<1> DEFINE P(n) == Kind(bk, n) = k /\ bk.closing[n] # 0
           I == {i \in DOMAIN bk.order : P(bk.order[i])}
           J == {i \in DOMAIN bk.order : bk.order[i] \in Heads(bk, k)}
<1>1. \A i \in DOMAIN bk.order : bk.order[i] \in Names(bk)
  BY ElementsFinite DEF Base, AccountsOk, Names
<1>2. I = J
  BY <1>1 DEF Heads
<1>3. Accounts(bk, P) = Taken(bk.order, I)
  BY Zenon DEF Accounts, Those, Taken
<1>4. Accounts(bk, P) = InBook(bk, Heads(bk, k))
  BY <1>2, <1>3 DEF InBook
<1>5. HeadsClosed(bk, k, to) =
        Append([i \in DOMAIN Accounts(bk, P) |-> Ln(Accounts(bk, P)[i], -bk.closing[Accounts(bk, P)[i]])],
               Ln(to, -SumLines([i \in DOMAIN Accounts(bk, P) |-> Ln(Accounts(bk, P)[i], -bk.closing[Accounts(bk, P)[i]])])))
  BY Zenon DEF HeadsClosed
<1> QED BY <1>4, <1>5, Zenon DEF Cleared

LEMMA ClearedOn ==
    ASSUME NEW bk, Base(bk), NEW k
    PROVE  /\ Cleared(bk, k) \in Seq(Line)
           /\ SumLines(Cleared(bk, k)) = -KindTotal(bk, k)
           /\ \A n : On(Cleared(bk, k), n) = IF n \in OfKind(bk, {k}) THEN -bk.closing[n] ELSE 0
<1> DEFINE H == Heads(bk, k)
           s == InBook(bk, H)
           L == Cleared(bk, k)
           K == OfKind(bk, {k})
           B == Balances(bk, FyEnd)
           minus == [n \in Names(bk) |-> -bk.closing[n]]
           as == [i \in DOMAIN L |-> L[i].a]
<1>1. AccountsOk(bk) /\ H \in SUBSET Names(bk) /\ IsFiniteSet(Names(bk)) /\ IsFiniteSet(K) /\ K \in SUBSET Names(bk)
  BY NamesAre, KindTotalIs DEF Heads, Base
<1>2. /\ s \in Seq(H) /\ Len(s) \in Nat /\ DOMAIN s = 1..Len(s) /\ IsFiniteSet(DOMAIN s)
      /\ (\A i \in DOMAIN s : s[i] \in H) /\ \A n \in H : \E i \in DOMAIN s : s[i] = n
  BY <1>1, InBookLists
<1>3. \A n \in Names(bk) : /\ (n \in K <=> Kind(bk, n) = k) /\ bk.closing[n] = B[n] /\ bk.closing[n] \in Int
                           /\ (n \in H <=> n \in K /\ bk.closing[n] # 0) /\ minus[n] = -bk.closing[n] /\ n \in Titles
  <2>1. \A n \in Names(bk) : (n \in K <=> Kind(bk, n) = k) /\ bk.closing[n] = B[n] /\ bk.closing[n] \in Int
    BY KindTotalIs
  <2>2. \A n \in Names(bk) : (n \in H <=> Kind(bk, n) = k /\ bk.closing[n] # 0) /\ minus[n] = -bk.closing[n]
    BY DEF Heads
  <2>3. \A n \in Names(bk) : n \in Titles
    BY <1>1, NamesAre
  <2> HIDE DEF H, K, B, minus
  <2> QED BY <2>1, <2>2, <2>3
<1>4. L = [i \in DOMAIN s |-> [n |-> s[i], a |-> -bk.closing[s[i]]]]
  BY Zenon DEF Cleared, Ln
<1>5. DOMAIN L = DOMAIN s /\ \A i \in DOMAIN s : L[i].n = s[i] /\ L[i].a = minus[s[i]] /\ L[i] \in Line /\ s[i] \in H
  <2> HIDE DEF H, K, B, minus, L, s
  <2> QED BY <1>1, <1>2, <1>3, <1>4 DEF Line
<1>6. L \in Seq(Line)
  <2>1. L = [i \in 1..Len(s) |-> L[i]] /\ \A i \in 1..Len(s) : L[i] \in Line
    <3> HIDE DEF s, H
    <3> QED BY <1>2, <1>4, <1>5
  <2> HIDE DEF L, s, H
  <2> QED BY <1>2, <2>1
<1>7. \A n \in H : minus[n] \in Int
  <2> HIDE DEF H, minus
  <2> QED BY <1>1, <1>3
<1>8. SumLines(L) = Sum(minus, H)
  <2>1. SumLines(L) = Sum(as, DOMAIN L)
    BY <1>6, LinesAre
  <2>2. \A i \in DOMAIN s : as[i] = minus[s[i]]
    <3>1. \A i \in DOMAIN L : as[i] = L[i].a
      OBVIOUS
    <3> HIDE DEF L, s, H, as, minus
    <3> QED BY <1>5, <3>1
  <2> HIDE DEF L, H, as, minus
  <2>3. Sum(as, DOMAIN s) = Sum(minus, H)
    BY <1>1, <1>7, <2>2, InBookSum
  <2> QED BY <1>5, <2>1, <2>3
<1>9. Sum(minus, H) = -KindTotal(bk, k)
  <2>1. (\A n \in K \ H : minus[n] = 0) /\ (\A n \in K : B[n] \in Int /\ minus[n] = -B[n]) /\ H \in SUBSET K
    <3> HIDE DEF H, K, B, minus
    <3> QED BY <1>1, <1>3
  <2> HIDE DEF H, K, B, minus
  <2>2. Sum(minus, K) = Sum(minus, H)
    BY <1>1, <1>7, <2>1, SumSupport
  <2>3. Sum(minus, K) = -Sum(B, K)
    BY <1>1, <2>1, SumMinus
  <2> QED BY <2>2, <2>3 DEF KindTotal, K, B
<1>10. ASSUME NEW n PROVE On(L, n) = IF n \in K THEN -bk.closing[n] ELSE 0
  <2> DEFINE f == [x \in Names(bk) |-> IF x = n THEN minus[x] ELSE 0]
  <2>1. \A x \in H : f[x] \in Int /\ f[x] = (IF x = n THEN minus[x] ELSE 0)
    <3>1. \A x \in Names(bk) : f[x] = (IF x = n THEN minus[x] ELSE 0)
      OBVIOUS
    <3> HIDE DEF f, H, minus
    <3> QED BY <1>1, <1>7, <3>1
  <2>2. \A i \in DOMAIN s : OnLine(L, n)[i] = f[s[i]]
    <3>1. \A i \in DOMAIN L : OnLine(L, n)[i] = (IF L[i].n = n THEN L[i].a ELSE 0)
      BY <1>6, OnIs
    <3> HIDE DEF L, s, f, H, minus
    <3> QED BY <1>5, <2>1, <3>1
  <2>3. On(L, n) = Sum(OnLine(L, n), DOMAIN L)
    BY <1>6, OnIs
  <2>4. Sum(OnLine(L, n), DOMAIN s) = Sum(f, H)
    <3> HIDE DEF L, f, H, minus
    <3> QED BY <1>1, <2>1, <2>2, InBookSum
  <2>5. Sum(f, H) = IF n \in K THEN -bk.closing[n] ELSE 0
    <3>1. IsFiniteSet(H)
      BY <1>1, FS_Subset
    <3> HIDE DEF f, H, minus, K, B
    <3>2. CASE n \in H
      <4>1. f[n] \in Int /\ f[n] = minus[n] /\ \A x \in H \ {n} : f[x] = 0
        BY <2>1, <3>2
      <4>2. Sum(f, H) = f[n]
        BY <3>1, <3>2, <4>1, SumOne
      <4> QED BY <1>1, <1>3, <3>2, <4>1, <4>2
    <3>3. CASE n \notin H
      <4>1. \A x \in H : f[x] = 0
        BY <2>1, <3>3
      <4>2. Sum(f, H) = 0
        BY <3>1, <4>1, SumZero
      <4>3. n \in K => bk.closing[n] = 0
        BY <1>1, <1>3, <3>3
      <4> QED BY <4>2, <4>3
    <3> QED BY <3>2, <3>3
  <2> QED BY <1>5, <2>3, <2>4, <2>5
<1> HIDE DEF L, K
<1>11. \A n : On(L, n) = IF n \in K THEN -bk.closing[n] ELSE 0
  BY <1>10
<1> QED BY <1>6, <1>8, <1>9, <1>11 DEF L, K

\* What closing the heads of kind k against `to` puts on each account.
HeadOn(bk, k, n) == IF n \in OfKind(bk, {k}) THEN -bk.closing[n] ELSE 0

LEMMA HeadsClosedIs ==
    ASSUME NEW bk, Base(bk), NEW k, NEW to \in Titles
    PROVE  LET l == Ln(to, -SumLines(Cleared(bk, k)))
           IN  /\ HeadsClosed(bk, k, to) = Append(Cleared(bk, k), l) /\ HeadsClosed(bk, k, to) \in Seq(Line)
               /\ l \in Line /\ l.n = to /\ l.a = KindTotal(bk, k)
<1> DEFINE L == Cleared(bk, k)
           l == Ln(to, -SumLines(L))
<1>1. L \in Seq(Line) /\ SumLines(L) = -KindTotal(bk, k)
  BY ClearedOn
<1>2. KindTotal(bk, k) \in Int
  BY KindTotalIs
<1>3. l \in Line /\ l.n = to /\ l.a = KindTotal(bk, k)
  <2> HIDE DEF L
  <2> QED BY <1>1, <1>2 DEF Ln, Line
<1>4. HeadsClosed(bk, k, to) = Append(L, l)
  BY ClearedIs
<1> HIDE DEF L, l
<1>5. Append(L, l) \in Seq(Line)
  BY <1>1, <1>3
<1> QED BY <1>3, <1>4, <1>5 DEF L, l

LEMMA HeadPuts ==
    ASSUME NEW bk, Base(bk), NEW k, NEW to \in Titles, NEW n
    PROVE  On(HeadsClosed(bk, k, to), n) = HeadOn(bk, k, n) + (IF n = to THEN KindTotal(bk, k) ELSE 0)
<1> DEFINE L == Cleared(bk, k)
           l == Ln(to, -SumLines(L))
<1>1. L \in Seq(Line)
  BY ClearedOn
<1>2. On(L, n) = HeadOn(bk, k, n)
  BY ClearedOn DEF HeadOn
<1>3. HeadsClosed(bk, k, to) = Append(L, l) /\ l \in Line /\ l.n = to /\ l.a = KindTotal(bk, k)
  BY HeadsClosedIs
<1> HIDE DEF L, l
<1>4. On(Append(L, l), n) = On(L, n) + (IF l.n = n THEN l.a ELSE 0)
  BY <1>1, <1>3, OnAppend
<1> QED BY <1>2, <1>3, <1>4

-----------------------------------------------------------------------------
(* The partners' shares *)

Shared(ps) == /\ DOMAIN ps = 1..Len(ps) /\ Len(ps) \in Nat /\ ps # << >> /\ DOMAIN ps # {}
              /\ \A i \in DOMAIN ps : ps[i].share \in Nat \ {0}
Largest(ps, T, i) ==
    i \in T /\ \A j \in T : ps[i].share > ps[j].share \/ (ps[i].share = ps[j].share /\ i <= j)

\* One partner takes what is left over.
LEMMA LargestExists ==
    ASSUME NEW ps, Shared(ps)
    PROVE  \E i \in DOMAIN ps : Largest(ps, DOMAIN ps, i)
<1> DEFINE D == DOMAIN ps
           good == {T \in SUBSET D : T = {} \/ \E i \in T : Largest(ps, T, i)}
<1>1. IsFiniteSet(D)
  BY FS_Interval DEF Shared
<1>2. {} \in good
  OBVIOUS
<1>3. ASSUME NEW T \in SUBSET D, T # {}, \A x \in T : T \ {x} \in good PROVE T \in good
  <2>1. PICK x \in T : TRUE
    BY <1>3
  <2>2. T \ {x} = {} \/ \E i \in T \ {x} : Largest(ps, T \ {x}, i)
    BY <1>3, <2>1
  <2>3. \A i \in T : i \in Int /\ ps[i].share \in Int
    BY DEF Shared
  <2>4. CASE T \ {x} = {}
    <3>1. Largest(ps, T, x)
      BY <2>1, <2>3, <2>4 DEF Largest
    <3> QED BY <2>1, <3>1
  <2>5. CASE \E i \in T \ {x} : Largest(ps, T \ {x}, i)
    <3>1. PICK i \in T \ {x} : Largest(ps, T \ {x}, i)
      BY <2>5
    <3>2. CASE ps[i].share > ps[x].share \/ (ps[i].share = ps[x].share /\ i <= x)
      <4>1. Largest(ps, T, i)
        BY <2>3, <3>1, <3>2 DEF Largest
      <4> QED BY <3>1, <4>1
    <3>3. CASE ~(ps[i].share > ps[x].share \/ (ps[i].share = ps[x].share /\ i <= x))
      <4>1. ps[x].share > ps[i].share \/ (ps[x].share = ps[i].share /\ x <= i)
        BY <2>1, <2>3, <3>1, <3>3
      <4>2. \A j \in T : ps[x].share > ps[j].share \/ (ps[x].share = ps[j].share /\ x <= j)
        <5>1. ASSUME NEW j \in T PROVE ps[x].share > ps[j].share \/ (ps[x].share = ps[j].share /\ x <= j)
          <6>1. CASE j = x
            BY <2>1, <2>3, <6>1
          <6>2. CASE j # x
            <7>1. ps[i].share > ps[j].share \/ (ps[i].share = ps[j].share /\ i <= j)
              BY <3>1, <6>2 DEF Largest
            <7> QED BY <2>1, <2>3, <3>1, <4>1, <7>1
          <6> QED BY <6>1, <6>2
        <5> QED BY <5>1
      <4>3. Largest(ps, T, x)
        BY <2>1, <4>2 DEF Largest
      <4> QED BY <2>1, <4>3
    <3> QED BY <3>2, <3>3
  <2> QED BY <2>2, <2>4, <2>5
<1> HIDE DEF good
<1>4. D \in good
  BY <1>1, <1>2, <1>3, EverySubset, ZenonT(40)
<1> QED BY <1>4 DEF good, Shared

\* The shares are of whole paise, and add up to what was shared.
LEMMA SharesAdd ==
    ASSUME NEW ps, Shared(ps), NEW rest \in Int
    PROVE  /\ DOMAIN SharesOf(ps, rest) = DOMAIN ps /\ \A i \in DOMAIN ps : SharesOf(ps, rest)[i] \in Int
           /\ Sum(SharesOf(ps, rest), DOMAIN ps) = rest
<1> DEFINE D == DOMAIN ps
           sh == [i \in D |-> ps[i].share]
           w == Sum(sh, D)
           fl == [i \in D |-> (rest * ps[i].share) \div w]
           l == CHOOSE i \in D : \A j \in D : ps[i].share > ps[j].share \/ (ps[i].share = ps[j].share /\ i <= j)
           new == [fl EXCEPT ![l] = @ + rest - Sum(fl, D)]
<1>1. IsFiniteSet(D) /\ D # {}
  BY FS_Interval DEF Shared
<1>2. w \in Nat \ {0}
  <2>1. \A i \in D : sh[i] \in Nat \ {0}
    BY DEF Shared
  <2> HIDE DEF sh, D
  <2> QED BY <1>1, <2>1, SumPositive
<1>3. SharesOf(ps, rest) = new
  BY Zenon DEF SharesOf, SumSeq, SumOf, SumFunction, Sum
<1>4. l \in D
  <2>1. \E i \in D : \A j \in D : ps[i].share > ps[j].share \/ (ps[i].share = ps[j].share /\ i <= j)
    BY LargestExists DEF Largest
  <2> QED BY <2>1, Zenon
<1>5. \A i \in D : fl[i] \in Int
  <2>1. \A i \in D : ps[i].share \in Int
    BY DEF Shared
  <2> HIDE DEF w
  <2>2. \A i \in D : rest * ps[i].share \in Int
    BY <2>1
  <2>3. \A x \in Int : x \div w \in Int
    BY <1>2
  <2> QED BY <2>2, <2>3
<1>6. DOMAIN new = D /\ \A i \in D : new[i] = IF i = l THEN fl[i] + rest - Sum(fl, D) ELSE fl[i]
  <2>1. DOMAIN fl = D
    OBVIOUS
  <2> HIDE DEF fl, l, D
  <2> QED BY <2>1
<1> HIDE DEF new, fl, l, w, D
<1>7. Sum(fl, D) \in Int
  BY <1>1, <1>5, SumInt
<1>8. \A i \in D : new[i] \in Int
  BY <1>5, <1>6, <1>7
<1>9. Sum(new, D) = new[l] + Sum(new, D \ {l})
  BY <1>1, <1>4, <1>8, SumTake
<1>10. Sum(fl, D) = fl[l] + Sum(fl, D \ {l})
  BY <1>1, <1>4, <1>5, SumTake
<1>11. IsFiniteSet(D \ {l})
  BY <1>1, FS_RemoveElement
<1>12. Sum(new, D \ {l}) = Sum(fl, D \ {l})
  BY <1>5, <1>6, <1>11, SumSame
<1>13. Sum(fl, D \ {l}) \in Int /\ fl[l] \in Int /\ new[l] = fl[l] + rest - Sum(fl, D)
  BY <1>4, <1>5, <1>6, <1>11, SumInt
<1>14. Sum(new, D) = rest
  BY <1>7, <1>9, <1>10, <1>12, <1>13
<1> QED BY <1>3, <1>6, <1>8, <1>14 DEF D

LEMMA PartnersAre ==
    ASSUME NEW bk, Base(bk), bk.partners # << >>
    PROVE  /\ Shared(bk.partners) /\ IsFiniteSet(DOMAIN bk.partners)
           /\ \A i \in DOMAIN bk.partners :
                /\ bk.partners[i].current \in Names(bk) /\ bk.partners[i].current \in Titles
                /\ Kind(bk, bk.partners[i].current) \in OwnKinds
                /\ InterestOf(bk, bk.partners[i]) \in Int
<1> DEFINE ps == bk.partners
<1>1. AccountsOk(bk) /\ ps \in Seq(Partner(bk)) /\ \A i \in DOMAIN ps : Kind(bk, ps[i].current) \in OwnKinds
  BY DEF Base, AccountsOk
<1>2. DOMAIN ps = 1..Len(ps) /\ Len(ps) \in Nat /\ IsFiniteSet(DOMAIN ps) /\ \A i \in DOMAIN ps : ps[i] \in Partner(bk)
  BY <1>1, ElementsFinite
<1>3. \A i \in DOMAIN ps : ps[i].current \in Names(bk) /\ ps[i].share \in Nat \ {0} /\ ps[i].ioc \in Nat
                           /\ ps[i].capital \in Names(bk) \cup {NoAccount}
  BY <1>2 DEF Partner
<1>4. DOMAIN ps # {}
  <2>1. Len(ps) # 0
    BY <1>1, EmptySeq
  <2>2. 1 \in 1..Len(ps)
    BY <1>2, <2>1
  <2> QED BY <1>2, <2>2
<1>5. \A i \in DOMAIN ps : ps[i].current \in Titles
  BY <1>1, <1>3, NamesAre
<1>6. ASSUME NEW i \in DOMAIN ps PROVE InterestOf(bk, ps[i]) \in Int
  <2> DEFINE p == ps[i]
             cap == IF p.capital = NoAccount THEN 0 ELSE -bk.closing[p.capital]
  <2>1. p.ioc \in Int /\ (p.capital # NoAccount => p.capital \in Names(bk))
    BY <1>3
  <2>2. cap \in Int
    BY <2>1, ClosingBalance
  <2>3. InterestOf(bk, p) = IF cap > 0 THEN (2 * (cap * p.ioc) + 10000) \div (2 * 10000) ELSE 0
    BY DEF InterestOf, HalfUp
  <2> HIDE DEF cap, p
  <2>4. cap * p.ioc \in Int
    BY <2>1, <2>2
  <2>5. \A x \in Int : (2 * x + 10000) \div (2 * 10000) \in Int
    OBVIOUS
  <2>6. InterestOf(bk, p) \in Int
    BY <2>3, <2>4, <2>5
  <2> QED BY <2>6 DEF p
<1> QED BY <1>1, <1>2, <1>3, <1>4, <1>5, <1>6 DEF Shared

\* A line before the others.
LEMMA OnPrepend ==
    ASSUME NEW L \in Seq(Line), NEW l \in Line, NEW n
    PROVE  /\ <<l>> \o L \in Seq(Line)
           /\ On(<<l>> \o L, n) = (IF l.n = n THEN l.a ELSE 0) + On(L, n)
<1> DEFINE K == <<l>> \o L
           m == Len(L)
           e == [i \in 1..m |-> i + 1]
<1>1. m \in Nat /\ DOMAIN L = 1..m /\ IsFiniteSet(DOMAIN L)
  BY LinesAre
<1>2. K \in Seq(Line) /\ Len(K) = m + 1 /\ K[1] = l /\ \A i \in 1..m : K[i + 1] = L[i]
  <2>1. <<l>> \in Seq(Line) /\ Len(<<l>>) = 1 /\ <<l>>[1] = l
    OBVIOUS
  <2>2. K \in Seq(Line) /\ Len(K) = 1 + m /\ \A i \in 1..(1 + m) : K[i] = IF i <= 1 THEN <<l>>[i] ELSE L[i - 1]
    <3> DEFINE s == <<l>>
    <3>1. s \in Seq(Line) /\ Len(s) = 1
      BY <2>1
    <3> HIDE DEF s
    <3>2. s \o L \in Seq(Line) /\ Len(s \o L) = Len(s) + Len(L)
          /\ \A i \in 1..(Len(s) + Len(L)) : (s \o L)[i] = IF i <= Len(s) THEN s[i] ELSE L[i - Len(s)]
      BY <3>1, ConcatProperties
    <3>3. s \o L \in Seq(Line) /\ Len(s \o L) = 1 + m /\ \A i \in 1..(1 + m) : (s \o L)[i] = IF i <= 1 THEN s[i] ELSE L[i - 1]
      BY <3>1, <3>2
    <3> QED BY <3>3 DEF s
  <2> HIDE DEF K, m
  <2>3. K[1] = l
    BY <1>1, <2>1, <2>2
  <2>4. ASSUME NEW i \in 1..m PROVE K[i + 1] = L[i]
    <3>1. i + 1 \in 1..(1 + m) /\ ~(i + 1 <= 1) /\ (i + 1) - 1 = i
      BY <1>1
    <3>2. K[i + 1] = L[(i + 1) - 1]
      BY <2>2, <3>1
    <3> QED BY <3>1, <3>2
  <2> QED BY <1>1, <2>2, <2>3, <2>4
<1>3. DOMAIN K = 1..(m + 1) /\ IsFiniteSet(DOMAIN K) /\ On(K, n) = Sum(OnLine(K, n), DOMAIN K)
      /\ \A i \in DOMAIN K : OnLine(K, n)[i] = (IF K[i].n = n THEN K[i].a ELSE 0) /\ OnLine(K, n)[i] \in Int
  BY <1>2, LinesAre, OnIs
<1>4. On(L, n) = Sum(OnLine(L, n), DOMAIN L)
      /\ \A i \in DOMAIN L : OnLine(L, n)[i] = (IF L[i].n = n THEN L[i].a ELSE 0) /\ OnLine(L, n)[i] \in Int
  BY OnIs
<1>5. \A i \in 1..m : e[i] = i + 1
  OBVIOUS
<1> HIDE DEF K, m, e
<1> DEFINE R == (DOMAIN K) \ {1}
<1>6. On(K, n) = OnLine(K, n)[1] + Sum(OnLine(K, n), R)
  <2>1. 1 \in DOMAIN K
    BY <1>1, <1>3
  <2> QED BY <1>3, <2>1, SumTake
<1>7. Moved(e, 1..m, R, OnLine(K, n), OnLine(L, n))
  <2>1. \A i \in 1..m : e[i] \in R
    BY <1>1, <1>3, <1>5
  <2>2. \A i, j \in 1..m : e[i] = e[j] => i = j
    BY <1>1, <1>5
  <2>3. \A z \in R : \E i \in 1..m : e[i] = z
    <3>1. ASSUME NEW z \in R PROVE z - 1 \in 1..m /\ e[z - 1] = z
      BY <1>1, <1>3, <1>5
    <3> QED BY <3>1
  <2>4. \A z \in R : OnLine(K, n)[z] \in Int
    BY <1>3
  <2>5. ASSUME NEW i \in 1..m PROVE OnLine(L, n)[i] = OnLine(K, n)[e[i]]
    <3>1. e[i] \in DOMAIN K /\ K[e[i]] = L[i]
      BY <1>2, <1>5, <2>1
    <3> QED BY <1>1, <1>3, <1>4, <3>1
  <2> HIDE DEF R
  <2> QED BY <2>1, <2>2, <2>3, <2>4, <2>5 DEF Moved, Enumerates
<1>8. IsFiniteSet(R)
  BY <1>3, FS_RemoveElement
<1> HIDE DEF R
<1>9. Sum(OnLine(L, n), 1..m) = Sum(OnLine(K, n), R)
  BY <1>1, <1>7, <1>8, SumMoved
<1>10. OnLine(K, n)[1] = IF l.n = n THEN l.a ELSE 0
  BY <1>1, <1>2, <1>3
<1> QED BY <1>1, <1>2, <1>4, <1>6, <1>9, <1>10 DEF K

\* What the partners are given, f[i] to partner i, out of the appropriation account.
Given(bk, f) == [i \in DOMAIN bk.partners |-> Ln(bk.partners[i].current, -f[i])]
PaidOut(bk, f) == <<Ln(ApprAccount, Sum(f, DOMAIN bk.partners))>> \o Given(bk, f)

LEMMA GivenOn ==
    ASSUME NEW bk, Base(bk), bk.partners # << >>, NEW f, \A i \in DOMAIN bk.partners : f[i] \in Int
    PROVE  /\ Given(bk, f) \in Seq(Line) /\ SumLines(Given(bk, f)) = -Sum(f, DOMAIN bk.partners)
           /\ \A i \in DOMAIN Given(bk, f) : Given(bk, f)[i].n \in OfKind(bk, EquityKinds)
           /\ \A n : (n \in Names(bk) => Kind(bk, n) \notin OwnKinds) => On(Given(bk, f), n) = 0
<1> DEFINE ps == bk.partners
           D == DOMAIN ps
           L == Given(bk, f)
           as == [i \in DOMAIN L |-> L[i].a]
<1>1. /\ IsFiniteSet(D) /\ D = 1..Len(ps) /\ Len(ps) \in Nat
      /\ \A i \in D : ps[i].current \in Names(bk) /\ ps[i].current \in Titles /\ Kind(bk, ps[i].current) \in OwnKinds
  BY PartnersAre DEF Shared
<1>2. L = [i \in D |-> [n |-> ps[i].current, a |-> -f[i]]]
  BY Zenon DEF Given, Ln
<1>3. DOMAIN L = D /\ \A i \in D : L[i].n = ps[i].current /\ L[i].a = -f[i] /\ L[i] \in Line
  <2> HIDE DEF L
  <2> QED BY <1>1, <1>2 DEF Line
<1>4. L \in Seq(Line)
  <2>1. L = [i \in 1..Len(ps) |-> L[i]] /\ \A i \in 1..Len(ps) : L[i] \in Line
    <3> HIDE DEF L
    <3> QED BY <1>1, <1>2, <1>3
  <2> HIDE DEF L
  <2> QED BY <1>1, <2>1
<1>5. SumLines(L) = -Sum(f, D)
  <2>1. SumLines(L) = Sum(as, DOMAIN L)
    BY <1>4, LinesAre
  <2>2. \A i \in D : as[i] = -f[i]
    <3>1. \A i \in DOMAIN L : as[i] = L[i].a
      OBVIOUS
    <3> HIDE DEF L, as
    <3> QED BY <1>3, <3>1
  <2> HIDE DEF L, as
  <2>3. Sum(as, D) = -Sum(f, D)
    BY <1>1, <2>2, SumMinus
  <2> QED BY <1>3, <2>1, <2>3
<1>6. ASSUME NEW n, n \in Names(bk) => Kind(bk, n) \notin OwnKinds PROVE On(L, n) = 0
  <2>1. \A ln \in ToSet(L) : ln.n # n
    <3>1. \A ln \in ToSet(L) : \E i \in D : ln = L[i]
      BY <1>3 DEF ToSet
    <3> HIDE DEF L
    <3> QED BY <1>1, <1>3, <1>6, <3>1
  <2> HIDE DEF L
  <2> QED BY <1>4, <2>1, OnNone
<1>7. \A i \in D : L[i].n \in OfKind(bk, EquityKinds)
  <2> HIDE DEF L, D
  <2> QED BY <1>1, <1>3 DEF OfKind, OwnKinds
<1> HIDE DEF L
<1> QED BY <1>3, <1>4, <1>5, <1>6, <1>7 DEF L

LEMMA SharesOn ==
    ASSUME NEW bk, Base(bk), bk.partners # << >>, NEW f, \A i \in DOMAIN bk.partners : f[i] \in Int
    PROVE  /\ PaidOut(bk, f) \in Seq(Line) /\ Sum(f, DOMAIN bk.partners) \in Int
           /\ \A n : On(PaidOut(bk, f), n) = (IF n = ApprAccount THEN Sum(f, DOMAIN bk.partners) ELSE 0) + On(Given(bk, f), n)
<1> DEFINE F == Sum(f, DOMAIN bk.partners)
           L == Given(bk, f)
           l == Ln(ApprAccount, F)
<1>1. L \in Seq(Line)
  BY GivenOn
<1>2. F \in Int
  BY PartnersAre, SumInt
<1>3. l \in Line /\ l.n = ApprAccount /\ l.a = F
  <2>1. ApprAccount \in Titles
    BY DEF Titles
  <2> HIDE DEF F
  <2> QED BY <1>2, <2>1 DEF Ln, Line
<1>4. PaidOut(bk, f) = <<l>> \o L
  BY DEF PaidOut
<1> HIDE DEF L, l
<1>5. \A n : <<l>> \o L \in Seq(Line) /\ On(<<l>> \o L, n) = (IF l.n = n THEN l.a ELSE 0) + On(L, n)
  BY <1>1, <1>3, OnPrepend
<1> HIDE DEF F
<1> QED BY <1>2, <1>3, <1>4, <1>5 DEF L, F

\* An entry of two lines.
LEMMA OnTwo ==
    ASSUME NEW x \in Titles, NEW y \in Titles, NEW a \in Int, NEW n
    PROVE  /\ <<Ln(x, a), Ln(y, -a)>> \in Seq(Line)
           /\ On(<<Ln(x, a), Ln(y, -a)>>, n) = (IF n = x THEN a ELSE 0) - (IF n = y THEN a ELSE 0)
<1> DEFINE k == Ln(x, a)
           l == Ln(y, -a)
           K == <<k, l>>
           f == OnLine(K, n)
<1>1. k \in Line /\ l \in Line /\ k.n = x /\ k.a = a /\ l.n = y /\ l.a = -a
  BY DEF Ln, Line
<1>2. <<k, l>> \in Seq(Line) /\ DOMAIN <<k, l>> = {1, 2} /\ <<k, l>>[1] = k /\ <<k, l>>[2] = l
  <2> HIDE DEF k, l
  <2> QED BY <1>1
<1> HIDE DEF k, l, K
<1>3. /\ On(K, n) = Sum(f, DOMAIN K) /\ IsFiniteSet(DOMAIN K)
      /\ \A i \in DOMAIN K : f[i] = (IF K[i].n = n THEN K[i].a ELSE 0) /\ f[i] \in Int
  <2>1. K \in Seq(Line)
    BY <1>2 DEF K
  <2> QED BY <2>1, LinesAre, OnIs
<1>4. DOMAIN K = {1, 2} /\ K[1] = k /\ K[2] = l
  BY <1>2 DEF K
<1> HIDE DEF f
<1> DEFINE D == DOMAIN K
           E == D \ {2}
<1>5. 2 \in D /\ 1 \in E /\ E \ {1} = {}
  BY <1>4
<1>6. IsFiniteSet(E) /\ \A i \in E : f[i] \in Int
  BY <1>3, FS_RemoveElement
<1> HIDE DEF D, E
<1>7. Sum(f, D) = f[2] + Sum(f, D \ {2})
  BY <1>3, <1>5, SumTake DEF D
<1>8. Sum(f, E) = f[1] + Sum(f, E \ {1})
  BY <1>5, <1>6, SumTake
<1>9. Sum(f, {}) = 0
  BY SumEmpty
<1>10. f[1] = (IF x = n THEN a ELSE 0) /\ f[2] = (IF y = n THEN -a ELSE 0)
  BY <1>1, <1>3, <1>4
<1>11. On(K, n) = (IF n = x THEN a ELSE 0) - (IF n = y THEN a ELSE 0)
  <2>1. D \ {2} = E
    BY DEF E
  <2>2. On(K, n) = f[2] + f[1] + 0
    <3>1. On(K, n) = Sum(f, D)
      BY <1>3 DEF D
    <3>2. Sum(f, D) = f[2] + Sum(f, E)
      BY <1>7, <2>1
    <3>3. f[1] \in Int /\ f[2] \in Int
      BY <1>10
    <3>4. Sum(f, E \ {1}) = 0
      <4>1. E \ {1} = {}
        BY <1>5
      <4> QED BY <1>9, <4>1, Zenon
    <3> QED BY <1>8, <3>1, <3>2, <3>3, <3>4
  <2> QED BY <1>10, <2>2
<1> QED BY <1>2, <1>11 DEF k, l, K

-----------------------------------------------------------------------------
(* The five entries of the close *)

CloseEntry == [note : Notes, lines : Seq(Line)]

LEMMA FiveEntries ==
    ASSUME NEW a \in CloseEntry, NEW b \in CloseEntry, NEW c \in CloseEntry, NEW d \in CloseEntry, NEW e \in CloseEntry
    PROVE  /\ Lists(<<a, b>> \o <<c, d, e>>)
           /\ \A n : Sum(OnEach(<<a, b>> \o <<c, d, e>>, n), DOMAIN (<<a, b>> \o <<c, d, e>>))
                       = On(a.lines, n) + On(b.lines, n) + On(c.lines, n) + On(d.lines, n) + On(e.lines, n)
<1> DEFINE s == <<a, b>>
           t == <<c, d, e>>
           es == s \o t
<1>1. /\ s \in Seq(CloseEntry) /\ Len(s) = 2 /\ s[1] = a /\ s[2] = b
      /\ t \in Seq(CloseEntry) /\ Len(t) = 3 /\ t[1] = c /\ t[2] = d /\ t[3] = e
  <2> HIDE DEF CloseEntry
  <2> QED OBVIOUS
<1> HIDE DEF s, t
<1>2. /\ es \in Seq(CloseEntry) /\ Len(es) = Len(s) + Len(t)
      /\ \A i \in 1..(Len(s) + Len(t)) : es[i] = IF i <= Len(s) THEN s[i] ELSE t[i - Len(s)]
  <2> HIDE DEF CloseEntry
  <2> QED BY <1>1, ConcatProperties
<1> HIDE DEF es
<1>3. /\ es \in Seq(CloseEntry) /\ Len(es) = 5
      /\ \A i \in 1..5 : es[i] = IF i <= 2 THEN s[i] ELSE t[i - 2]
  <2> HIDE DEF CloseEntry
  <2> QED BY <1>1, <1>2
<1>4. DOMAIN es = 1..5 /\ es[1] = a /\ es[2] = b /\ es[3] = c /\ es[4] = d /\ es[5] = e
  <2>1. DOMAIN es = 1..5
    BY <1>3, LenProperties
  <2>2. es[1] = s[1] /\ es[2] = s[2] /\ es[3] = t[1] /\ es[4] = t[2] /\ es[5] = t[3]
    BY <1>3
  <2> QED BY <1>1, <2>1, <2>2
<1>5. Lists(es)
  <2>1. \A i \in 1..5 : es[i] \in CloseEntry
    BY <1>3, <1>4 DEF CloseEntry
  <2> QED BY <1>3, <1>4, <2>1 DEF Lists, CloseEntry
<1>6. ASSUME NEW n
      PROVE  Sum(OnEach(es, n), DOMAIN es)
               = On(a.lines, n) + On(b.lines, n) + On(c.lines, n) + On(d.lines, n) + On(e.lines, n)
  <2> DEFINE f == OnEach(es, n)
  <2>1. \A i \in DOMAIN es : f[i] = On(es[i].lines, n) /\ f[i] \in Int
    BY <1>5, OnEachIs
  <2> HIDE DEF f
  <2>2. /\ f[1] = On(a.lines, n) /\ f[2] = On(b.lines, n) /\ f[3] = On(c.lines, n)
        /\ f[4] = On(d.lines, n) /\ f[5] = On(e.lines, n)
    BY <1>4, <2>1
  <2>3. \A i \in 1..5 : f[i] \in Int
    BY <1>4, <2>1
  <2>4. Sum(f, 1..5) = f[1] + f[2] + f[3] + f[4] + f[5]
    BY <2>3, SumFive
  <2> QED BY <1>4, <2>2, <2>4 DEF f
<1>7. \A n : Sum(OnEach(es, n), DOMAIN es)
               = On(a.lines, n) + On(b.lines, n) + On(c.lines, n) + On(d.lines, n) + On(e.lines, n)
  BY <1>6
<1> QED BY <1>5, <1>7 DEF es, s, t

\* What the close puts on each account, and what is right of it.
Puts(bk, c) ==
    \A n \in Names(bk) \cup {ResultAccount, ApprAccount} : c[n] = SumOf(ClosePosts(CloseEntries(bk), n), LAMBDA p : p.a)
Clears(bk, c) ==
    /\ c[ResultAccount] = 0 /\ c[ApprAccount] = 0
    /\ \A n \in Names(bk) : c[n] \in Int
    /\ \A n \in OfKind(bk, Nominal \cup {"drawings", "shareout"}) : c[n] = -bk.closing[n]
    /\ \A n \in Other(bk) : c[n] = 0
    /\ Sum(c, OfKind(bk, EquityKinds)) = -Result(bk)

LEMMA ResultIs ==
    ASSUME NEW bk, Base(bk)
    PROVE  Result(bk) = -KindTotal(bk, "income") - KindTotal(bk, "expense") /\ Result(bk) \in Int
<1>1. Result(bk) = ResultTo(bk, FyEnd)[1] - ResultTo(bk, FyEnd)[2]
  BY DEF Result
<1>2. ResultTo(bk, FyEnd)[1] - ResultTo(bk, FyEnd)[2] = -KindTotal(bk, "income") - KindTotal(bk, "expense")
  BY OwnNowIs DEF KindTotal
<1>3. KindTotal(bk, "income") \in Int /\ KindTotal(bk, "expense") \in Int
  BY KindTotalIs
<1> QED BY <1>1, <1>2, <1>3

HeadEntry(bk, k, to) == [note |-> k, lines |-> HeadsClosed(bk, k, to)]

LEMMA HeadEntryIs ==
    ASSUME NEW bk, Base(bk), NEW k \in Notes, NEW to \in Titles
    PROVE  HeadEntry(bk, k, to) \in CloseEntry /\ HeadEntry(bk, k, to).lines = HeadsClosed(bk, k, to)
<1>1. HeadsClosed(bk, k, to) \in Seq(Line)
  BY HeadsClosedIs
<1> QED BY <1>1 DEF HeadEntry, CloseEntry

TwoLines(note, x, y, a) == [note |-> note, lines |-> <<Ln(x, a), Ln(y, -a)>>]

LEMMA TwoLinesIs ==
    ASSUME NEW note \in Notes, NEW x \in Titles, NEW y \in Titles, NEW a \in Int
    PROVE  TwoLines(note, x, y, a) \in CloseEntry /\ TwoLines(note, x, y, a).lines = <<Ln(x, a), Ln(y, -a)>>
<1>1. <<Ln(x, a), Ln(y, -a)>> \in Seq(Line)
  BY OnTwo
<1> QED BY <1>1 DEF TwoLines, CloseEntry

-----------------------------------------------------------------------------
(* A book of one owner *)

LEMMA OwnerIs ==
    ASSUME NEW bk, AccountsOk(bk), OwnerAccount(bk) # NoAccount
    PROVE  OwnerAccount(bk) \in Names(bk) /\ Kind(bk, OwnerAccount(bk)) \in OwnKinds
<1> DEFINE C == {n \in Names(bk) : Kind(bk, n) = "capital"}
           G == {n \in Names(bk) : bk.acct[n].group = "Owner"}
           I == {i \in DOMAIN bk.order : Kind(bk, bk.order[i]) = "capital"}
           J == {i \in DOMAIN bk.order : bk.acct[bk.order[i]].group = "Owner"}
           capital == Accounts(bk, LAMBDA n : Kind(bk, n) = "capital")
           owner == Accounts(bk, LAMBDA n : bk.acct[n].group = "Owner")
<1>1. \A i \in DOMAIN bk.order : bk.order[i] \in Names(bk)
  BY ElementsFinite DEF AccountsOk, Names
<1>2. capital = InBook(bk, C)
  <2>1. I = {i \in DOMAIN bk.order : bk.order[i] \in C}
    BY <1>1
  <2>2. capital = Taken(bk.order, I)
    BY Zenon DEF Accounts, Those, Taken
  <2> QED BY <2>1, <2>2 DEF InBook
<1>3. owner = InBook(bk, G)
  <2>1. J = {i \in DOMAIN bk.order : bk.order[i] \in G}
    BY <1>1
  <2>2. owner = Taken(bk.order, J)
    BY Zenon DEF Accounts, Those, Taken
  <2> QED BY <2>1, <2>2 DEF InBook
<1>4. OwnerAccount(bk) = IF capital # << >> THEN capital[1] ELSE IF owner # << >> THEN owner[1] ELSE NoAccount
  BY Zenon DEF OwnerAccount
<1> HIDE DEF capital, owner
<1>5. ASSUME NEW S \in SUBSET Names(bk), InBook(bk, S) # << >> PROVE InBook(bk, S)[1] \in S
  <2> DEFINE q == InBook(bk, S)
  <2>1. q \in Seq(S) /\ DOMAIN q = 1..Len(q) /\ Len(q) \in Nat /\ \A k \in DOMAIN q : q[k] \in S
    BY InBookLists
  <2>2. Len(q) # 0
    BY <1>5, <2>1, EmptySeq
  <2> HIDE DEF q
  <2>3. 1 \in DOMAIN q
    BY <2>1, <2>2
  <2> QED BY <2>1, <2>3 DEF q
<1>6. CASE capital # << >>
  <2>1. capital[1] \in C
    BY <1>2, <1>5, <1>6
  <2> QED BY <1>4, <1>6, <2>1 DEF OwnKinds, EquityKinds
<1>7. CASE capital = << >>
  <2>1. owner # << >> /\ OwnerAccount(bk) = owner[1]
    BY <1>4, <1>7
  <2>2. owner[1] \in G
    BY <1>3, <1>5, <2>1
  <2> QED BY <2>1, <2>2 DEF AccountsOk
<1> QED BY <1>6, <1>7

LEMMA HeadIs ==
    ASSUME NEW bk, Base(bk), NEW k
    PROVE  /\ \A n : HeadOn(bk, k, n) \in Int
           /\ \A n \in Names(bk) : HeadOn(bk, k, n) = IF Kind(bk, n) = k THEN -bk.closing[n] ELSE 0
           /\ \A n : n \notin Names(bk) => HeadOn(bk, k, n) = 0
<1>1. /\ OfKind(bk, {k}) \in SUBSET Names(bk)
      /\ \A n \in Names(bk) : (n \in OfKind(bk, {k}) <=> Kind(bk, n) = k) /\ bk.closing[n] \in Int
  BY KindTotalIs
<1> QED BY <1>1 DEF HeadOn

\* A kind of own money closed within the own money leaves it as it was.
LEMMA HeadsWithin ==
    ASSUME NEW bk, Base(bk), NEW k \in EquityKinds
    PROVE  Sum([n \in Names(bk) |-> HeadOn(bk, k, n)], OfKind(bk, EquityKinds)) = -KindTotal(bk, k)
<1> DEFINE h == [n \in Names(bk) |-> HeadOn(bk, k, n)]
           E == OfKind(bk, EquityKinds)
           K == OfKind(bk, {k})
           B == Balances(bk, FyEnd)
<1>1. /\ IsFiniteSet(K) /\ K \in SUBSET Names(bk)
      /\ \A n \in Names(bk) : (n \in K <=> Kind(bk, n) = k) /\ bk.closing[n] = B[n] /\ bk.closing[n] \in Int
  BY KindTotalIs
<1>2. IsFiniteSet(E) /\ E \in SUBSET Names(bk) /\ K \in SUBSET E
  BY NamesAre, FS_Subset DEF Base, OfKind
<1>3. \A n \in Names(bk) : h[n] = IF Kind(bk, n) = k THEN -bk.closing[n] ELSE 0
  <2>1. \A n \in Names(bk) : h[n] = HeadOn(bk, k, n)
    OBVIOUS
  <2> HIDE DEF h
  <2> QED BY <2>1, HeadIs
<1> HIDE DEF h, E, K, B
<1>4. (\A n \in K : B[n] \in Int /\ h[n] = -B[n] /\ h[n] \in Int) /\ \A n \in E \ K : h[n] = 0
  BY <1>1, <1>2, <1>3
<1>5. Sum(h, E) = Sum(h, K)
  BY <1>2, <1>4, SumSupport
<1>6. Sum(h, K) = -Sum(B, K)
  BY <1>1, <1>4, SumMinus
<1> QED BY <1>5, <1>6 DEF KindTotal, K, B, h, E

LEMMA OwnerCloses ==
    ASSUME NEW bk, Base(bk), bk.partners = << >>, OwnerAccount(bk) # NoAccount, NEW c, Puts(bk, c)
    PROVE  Lists(CloseEntries(bk)) /\ Clears(bk, c)
<1> DEFINE own == OwnerAccount(bk)
           R == Result(bk)
           a == HeadEntry(bk, "income", ResultAccount)
           b == HeadEntry(bk, "expense", ResultAccount)
           r == TwoLines("result", ResultAccount, own, R)
           d == HeadEntry(bk, "drawings", own)
           s == HeadEntry(bk, "shareout", own)
           es == <<a, b>> \o <<r, d, s>>
           N == Names(bk) \cup {ResultAccount, ApprAccount}
           E == OfKind(bk, EquityKinds)
           KI == KindTotal(bk, "income")
           KX == KindTotal(bk, "expense")
           KD == KindTotal(bk, "drawings")
           KS == KindTotal(bk, "shareout")
<1>1. /\ AccountsOk(bk) /\ own \in Names(bk) /\ Kind(bk, own) \in OwnKinds /\ own \in Titles
      /\ ResultAccount \in Titles /\ R \in Int
  <2>1. AccountsOk(bk)
    BY DEF Base
  <2> QED BY <2>1, OwnerIs, NamesAre, ResultIs DEF Titles
<1>2. CloseEntries(bk) = Made(es)
  BY DEF CloseEntries, OwnMoneyClosed, HeadEntry, TwoLines
<1>3. a \in CloseEntry /\ b \in CloseEntry /\ r \in CloseEntry /\ d \in CloseEntry /\ s \in CloseEntry
  <2>1. \A k \in {"income", "expense", "drawings", "shareout", "result"} : k \in Notes
    BY DEF Notes
  <2> QED BY <1>1, <2>1, HeadEntryIs, TwoLinesIs
<1>4. R = -KI - KX /\ KI \in Int /\ KX \in Int /\ KD \in Int /\ KS \in Int
  BY ResultIs, KindTotalIs
<1>5. ASSUME NEW n
      PROVE  /\ On(a.lines, n) = HeadOn(bk, "income", n) + (IF n = ResultAccount THEN KI ELSE 0)
             /\ On(b.lines, n) = HeadOn(bk, "expense", n) + (IF n = ResultAccount THEN KX ELSE 0)
             /\ On(r.lines, n) = (IF n = ResultAccount THEN R ELSE 0) - (IF n = own THEN R ELSE 0)
             /\ On(d.lines, n) = HeadOn(bk, "drawings", n) + (IF n = own THEN KD ELSE 0)
             /\ On(s.lines, n) = HeadOn(bk, "shareout", n) + (IF n = own THEN KS ELSE 0)
  <2>1. /\ a.lines = HeadsClosed(bk, "income", ResultAccount) /\ b.lines = HeadsClosed(bk, "expense", ResultAccount)
        /\ r.lines = <<Ln(ResultAccount, R), Ln(own, -R)>>
        /\ d.lines = HeadsClosed(bk, "drawings", own) /\ s.lines = HeadsClosed(bk, "shareout", own)
    BY DEF HeadEntry, TwoLines
  <2> HIDE DEF a, b, r, d, s, own, R
  <2>2. On(r.lines, n) = (IF n = ResultAccount THEN R ELSE 0) - (IF n = own THEN R ELSE 0)
    BY <1>1, <2>1, OnTwo
  <2>3. \A to \in Titles : \A k : On(HeadsClosed(bk, k, to), n) = HeadOn(bk, k, n) + (IF n = to THEN KindTotal(bk, k) ELSE 0)
    BY HeadPuts
  <2>4. own \in Titles /\ ResultAccount \in Titles
    BY <1>1
  <2> QED BY <2>1, <2>2, <2>3, <2>4
<1>6. Lists(es) /\ \A n : Sum(OnEach(es, n), DOMAIN es)
                            = On(a.lines, n) + On(b.lines, n) + On(r.lines, n) + On(d.lines, n) + On(s.lines, n)
  <2> HIDE DEF a, b, r, d, s
  <2> QED BY <1>3, FiveEntries
<1> HIDE DEF es, a, b, r, d, s
<1>7. Lists(CloseEntries(bk))
  BY <1>2, <1>6, MadeOn
<1>8. \A n \in N : c[n] = On(a.lines, n) + On(b.lines, n) + On(r.lines, n) + On(d.lines, n) + On(s.lines, n)
  <2>1. ASSUME NEW n \in N PROVE c[n] = On(a.lines, n) + On(b.lines, n) + On(r.lines, n) + On(d.lines, n) + On(s.lines, n)
    <3>1. c[n] = SumOf(ClosePosts(CloseEntries(bk), n), LAMBDA p : p.a)
      BY Zenon DEF Puts
    <3>2. SumOf(ClosePosts(Made(es), n), LAMBDA p : p.a) = Sum(OnEach(es, n), DOMAIN es)
      BY <1>6, MadeOn
    <3>3. c[n] = Sum(OnEach(es, n), DOMAIN es)
      BY <1>2, <3>1, <3>2, Zenon
    <3> QED BY <1>6, <3>3
  <2> QED BY <2>1
<1>9. /\ ResultAccount \notin Names(bk) /\ ApprAccount \notin Names(bk) /\ ResultAccount # ApprAccount
  BY <1>1 DEF AccountsOk, ResultAccount, ApprAccount
<1> HIDE DEF own, R, KI, KX, KD, KS
<1>10. c[ResultAccount] = 0 /\ c[ApprAccount] = 0
  <2>1. \A n \in {ResultAccount, ApprAccount} :
          HeadOn(bk, "income", n) = 0 /\ HeadOn(bk, "expense", n) = 0 /\ HeadOn(bk, "drawings", n) = 0 /\ HeadOn(bk, "shareout", n) = 0
    BY <1>9, HeadIs
  <2>2. ResultAccount # own /\ ApprAccount # own
    BY <1>1, <1>9
  <2>3. c[ResultAccount] = KI + KX + R
    <3>1. /\ On(a.lines, ResultAccount) = KI /\ On(b.lines, ResultAccount) = KX /\ On(r.lines, ResultAccount) = R
          /\ On(d.lines, ResultAccount) = 0 /\ On(s.lines, ResultAccount) = 0
      BY <1>1, <1>4, <1>5, <2>1, <2>2
    <3> QED BY <1>1, <1>4, <1>8, <3>1
  <2>4. c[ApprAccount] = 0
    <3>1. /\ On(a.lines, ApprAccount) = 0 /\ On(b.lines, ApprAccount) = 0 /\ On(r.lines, ApprAccount) = 0
          /\ On(d.lines, ApprAccount) = 0 /\ On(s.lines, ApprAccount) = 0
      BY <1>1, <1>4, <1>5, <1>9, <2>1, <2>2
    <3> QED BY <1>8, <3>1
  <2> QED BY <1>4, <2>3, <2>4
<1>11. ASSUME NEW n \in Names(bk)
       PROVE  c[n] = HeadOn(bk, "income", n) + HeadOn(bk, "expense", n) + HeadOn(bk, "drawings", n) + HeadOn(bk, "shareout", n)
                       + (IF n = own THEN KD + KS - R ELSE 0)
  <2>1. n # ResultAccount
    BY <1>9
  <2>2. /\ HeadOn(bk, "income", n) \in Int /\ HeadOn(bk, "expense", n) \in Int
        /\ HeadOn(bk, "drawings", n) \in Int /\ HeadOn(bk, "shareout", n) \in Int
    BY HeadIs
  <2>3. c[n] = On(a.lines, n) + On(b.lines, n) + On(r.lines, n) + On(d.lines, n) + On(s.lines, n)
    BY <1>8
  <2>4. /\ On(a.lines, n) = HeadOn(bk, "income", n) /\ On(b.lines, n) = HeadOn(bk, "expense", n)
        /\ On(r.lines, n) = 0 - (IF n = own THEN R ELSE 0)
        /\ On(d.lines, n) = HeadOn(bk, "drawings", n) + (IF n = own THEN KD ELSE 0)
        /\ On(s.lines, n) = HeadOn(bk, "shareout", n) + (IF n = own THEN KS ELSE 0)
    BY <1>5, <2>1, <2>2
  <2>5. CASE n = own
    BY <1>1, <1>4, <2>2, <2>3, <2>4, <2>5
  <2>6. CASE n # own
    BY <2>2, <2>3, <2>4, <2>6
  <2> QED BY <2>5, <2>6
<1>12. \A n \in Names(bk) : c[n] \in Int
  <2>1. \A n : /\ HeadOn(bk, "income", n) \in Int /\ HeadOn(bk, "expense", n) \in Int
               /\ HeadOn(bk, "drawings", n) \in Int /\ HeadOn(bk, "shareout", n) \in Int
    BY HeadIs
  <2>2. ASSUME NEW n \in Names(bk) PROVE c[n] \in Int
    <3>1. (IF n = own THEN KD + KS - R ELSE 0) \in Int
      BY <1>1, <1>4
    <3> QED BY <1>11, <2>1, <3>1
  <2> QED BY <2>2
<1>13. ASSUME NEW n \in Names(bk)
       PROVE  /\ Kind(bk, n) \in {"income", "expense", "drawings", "shareout"} => c[n] = -bk.closing[n]
              /\ Kind(bk, n) \notin {"income", "expense"} /\ Kind(bk, n) \notin EquityKinds => c[n] = 0
  <2>1. n = own => Kind(bk, n) \in EquityKinds /\ Kind(bk, n) \notin {"income", "expense", "drawings", "shareout"}
    BY <1>1 DEF OwnKinds, EquityKinds
  <2>2. bk.closing[n] \in Int
    BY KindTotalIs
  <2>3. \A k : HeadOn(bk, k, n) = IF Kind(bk, n) = k THEN -bk.closing[n] ELSE 0
    BY HeadIs
  <2>4. Kind(bk, n) \notin EquityKinds => Kind(bk, n) # "drawings" /\ Kind(bk, n) # "shareout"
    BY DEF EquityKinds
  <2> QED BY <1>11, <2>1, <2>2, <2>3, <2>4
<1>14. (\A n \in OfKind(bk, Nominal \cup {"drawings", "shareout"}) : c[n] = -bk.closing[n]) /\ \A n \in Other(bk) : c[n] = 0
  BY <1>13 DEF OfKind, Other, IsBs, IsEquity, Nominal
<1>15. Sum(c, E) = -R
  <2> DEFINE hd == [n \in Names(bk) |-> HeadOn(bk, "drawings", n)]
             hs == [n \in Names(bk) |-> HeadOn(bk, "shareout", n)]
             o == [n \in Names(bk) |-> IF n = own THEN KD + KS - R ELSE 0]
             x == [n \in Names(bk) |-> hd[n] + hs[n]]
  <2>1. IsFiniteSet(E) /\ E \in SUBSET Names(bk) /\ own \in E
    BY <1>1, NamesAre, FS_Subset DEF OfKind, OwnKinds
  <2>2. Sum(hd, E) = -KD /\ Sum(hs, E) = -KS
    BY HeadsWithin DEF EquityKinds, KD, KS
  <2>3. ASSUME NEW n \in E
        PROVE  /\ hd[n] \in Int /\ hs[n] \in Int /\ o[n] \in Int /\ x[n] = hd[n] + hs[n] /\ x[n] \in Int
               /\ c[n] = x[n] + o[n] /\ o[n] = (IF n = own THEN KD + KS - R ELSE 0)
    <3>1. n \in Names(bk) /\ Kind(bk, n) \notin {"income", "expense"}
      BY <2>1 DEF OfKind, EquityKinds
    <3>2. HeadOn(bk, "income", n) = 0 /\ HeadOn(bk, "expense", n) = 0
      BY <3>1, HeadIs
    <3>3. /\ hd[n] = HeadOn(bk, "drawings", n) /\ hs[n] = HeadOn(bk, "shareout", n) /\ x[n] = hd[n] + hs[n]
          /\ o[n] = (IF n = own THEN KD + KS - R ELSE 0)
      BY <3>1
    <3>4. HeadOn(bk, "drawings", n) \in Int /\ HeadOn(bk, "shareout", n) \in Int
      BY HeadIs
    <3> HIDE DEF hd, hs, x, o
    <3> QED BY <1>1, <1>4, <1>11, <3>1, <3>2, <3>3, <3>4
  <2> HIDE DEF E, hd, hs, o, x
  <2>4. Sum(c, E) = Sum(x, E) + Sum(o, E)
    BY <2>1, <2>3, SumPlus
  <2>5. Sum(x, E) = Sum(hd, E) + Sum(hs, E)
    BY <2>1, <2>3, SumPlus
  <2>6. Sum(o, E) = o[own]
    BY <2>1, <2>3, SumOne
  <2>7. o[own] = KD + KS - R
    BY <2>1, <2>3
  <2> QED BY <1>1, <1>4, <2>2, <2>4, <2>5, <2>6, <2>7
<1> QED BY <1>7, <1>10, <1>12, <1>14, <1>15 DEF Clears, E, R

-----------------------------------------------------------------------------
(* A book of partners *)

Interests(bk) == [i \in DOMAIN bk.partners |-> InterestOf(bk, bk.partners[i])]
Parts(bk) == SharesOf(bk.partners, Rest(bk))

LEMMA RestIs ==
    ASSUME NEW bk, Base(bk), bk.partners # << >>
    PROVE  /\ \A i \in DOMAIN bk.partners : Interests(bk)[i] \in Int /\ Parts(bk)[i] \in Int
           /\ Sum(Interests(bk), DOMAIN bk.partners) \in Int
           /\ Rest(bk) = Result(bk) - Sum(Interests(bk), DOMAIN bk.partners)
           /\ Sum(Parts(bk), DOMAIN bk.partners) = Rest(bk) /\ Rest(bk) \in Int
<1> DEFINE D == DOMAIN bk.partners
<1>1. Shared(bk.partners) /\ IsFiniteSet(D) /\ \A i \in D : InterestOf(bk, bk.partners[i]) \in Int
  BY PartnersAre
<1>2. \A i \in D : Interests(bk)[i] \in Int
  BY <1>1 DEF Interests
<1>3. Rest(bk) = Result(bk) - Sum(Interests(bk), D)
  BY Zenon DEF Rest, SumOf, SumFunction, Sum, Interests
<1>4. Sum(Interests(bk), D) \in Int
  <2> HIDE DEF D
  <2> QED BY <1>1, <1>2, SumInt
<1>5. Rest(bk) \in Int
  BY <1>3, <1>4, ResultIs
<1>6. (\A i \in D : Parts(bk)[i] \in Int) /\ Sum(Parts(bk), D) = Rest(bk)
  BY <1>1, <1>5, SharesAdd DEF Parts
<1> QED BY <1>2, <1>3, <1>4, <1>5, <1>6

\* What the appropriation gives adds up to the result.
LEMMA AppropriationIs ==
    ASSUME NEW bk, Base(bk), bk.partners # << >>
    PROVE  /\ SumOf(Appropriation(bk), LAMBDA x : x.interest + x.share) = Result(bk)
           /\ <<Ln(ApprAccount, SumOf(Appropriation(bk), LAMBDA x : x.interest))>>
                \o [i \in DOMAIN Appropriation(bk) |-> Ln(bk.partners[i].current, -Appropriation(bk)[i].interest)]
              = PaidOut(bk, Interests(bk))
           /\ <<Ln(ApprAccount, SumOf(Appropriation(bk), LAMBDA x : x.share))>>
                \o [i \in DOMAIN Appropriation(bk) |-> Ln(bk.partners[i].current, -Appropriation(bk)[i].share)]
              = PaidOut(bk, Parts(bk))
<1> DEFINE D == DOMAIN bk.partners
           ap == Appropriation(bk)
           fi == Interests(bk)
           fs == Parts(bk)
           both == [i \in D |-> ap[i].interest + ap[i].share]
           ai == [i \in D |-> ap[i].interest]
           as == [i \in D |-> ap[i].share]
<1>1. DOMAIN ap = D /\ \A i \in D : ap[i].interest = fi[i] /\ ap[i].share = fs[i]
  BY DEF Appropriation, Interests, Parts
<1>2. /\ \A i \in D : fi[i] \in Int /\ fs[i] \in Int
      /\ Sum(fi, D) \in Int /\ Rest(bk) = Result(bk) - Sum(fi, D) /\ Sum(fs, D) = Rest(bk)
      /\ Rest(bk) \in Int /\ Result(bk) \in Int /\ IsFiniteSet(D)
  BY RestIs, ResultIs, PartnersAre
<1>3. /\ SumOf(ap, LAMBDA x : x.interest + x.share) = Sum(both, D)
      /\ SumOf(ap, LAMBDA x : x.interest) = Sum(ai, D)
      /\ SumOf(ap, LAMBDA x : x.share) = Sum(as, D)
  <2> HIDE DEF ap
  <2>1. SumOf(ap, LAMBDA x : x.interest + x.share) = Sum([i \in DOMAIN ap |-> ap[i].interest + ap[i].share], DOMAIN ap)
    BY Zenon DEF SumOf, SumFunction, Sum
  <2>2. SumOf(ap, LAMBDA x : x.interest) = Sum([i \in DOMAIN ap |-> ap[i].interest], DOMAIN ap)
    BY Zenon DEF SumOf, SumFunction, Sum
  <2>3. SumOf(ap, LAMBDA x : x.share) = Sum([i \in DOMAIN ap |-> ap[i].share], DOMAIN ap)
    BY Zenon DEF SumOf, SumFunction, Sum
  <2>4. /\ [i \in DOMAIN ap |-> ap[i].interest + ap[i].share] = both
        /\ [i \in DOMAIN ap |-> ap[i].interest] = ai /\ [i \in DOMAIN ap |-> ap[i].share] = as
    BY <1>1
  <2> HIDE DEF both, ai, as
  <2>5. /\ Sum([i \in DOMAIN ap |-> ap[i].interest + ap[i].share], DOMAIN ap) = Sum(both, D)
        /\ Sum([i \in DOMAIN ap |-> ap[i].interest], DOMAIN ap) = Sum(ai, D)
        /\ Sum([i \in DOMAIN ap |-> ap[i].share], DOMAIN ap) = Sum(as, D)
    BY <1>1, <2>4
  <2> QED BY <2>1, <2>2, <2>3, <2>5, Zenon
<1>4. \A i \in D : both[i] = fi[i] + fs[i] /\ ai[i] = fi[i] /\ as[i] = fs[i]
  BY <1>1
<1> HIDE DEF D, ap, fi, fs, both, ai, as
<1>5. \A i \in D : both[i] \in Int
  <2>1. ASSUME NEW i \in D PROVE both[i] \in Int
    <3>1. fi[i] \in Int /\ fs[i] \in Int /\ both[i] = fi[i] + fs[i]
      BY <1>2, <1>4
    <3> QED BY <3>1
  <2> QED BY <2>1
<1>6. Sum(both, D) = Sum(fi, D) + Sum(fs, D)
  BY <1>2, <1>4, <1>5, SumPlus
<1>7. Sum(ai, D) = Sum(fi, D) /\ Sum(as, D) = Sum(fs, D)
  BY <1>2, <1>4, SumSame
<1>8. Sum(both, D) = Result(bk)
  BY <1>2, <1>6
<1>9. SumOf(ap, LAMBDA x : x.interest + x.share) = Result(bk)
  BY <1>3, <1>8, Zenon
<1>10. /\ [i \in DOMAIN ap |-> Ln(bk.partners[i].current, -ap[i].interest)] = Given(bk, fi)
       /\ [i \in DOMAIN ap |-> Ln(bk.partners[i].current, -ap[i].share)] = Given(bk, fs)
  BY <1>1 DEF Given, D
<1>11. <<Ln(ApprAccount, SumOf(ap, LAMBDA x : x.interest))>>
         \o [i \in DOMAIN ap |-> Ln(bk.partners[i].current, -ap[i].interest)] = PaidOut(bk, fi)
  BY <1>3, <1>7, <1>10, Zenon DEF PaidOut, D
<1>12. <<Ln(ApprAccount, SumOf(ap, LAMBDA x : x.share))>>
         \o [i \in DOMAIN ap |-> Ln(bk.partners[i].current, -ap[i].share)] = PaidOut(bk, fs)
  BY <1>3, <1>7, <1>10, Zenon DEF PaidOut, D
<1> QED BY <1>9, <1>11, <1>12, Zenon DEF ap, fi, fs

ToShares(note, bk, f) == [note |-> note, lines |-> PaidOut(bk, f)]

LEMMA PartnersClosedIs ==
    ASSUME NEW bk, Base(bk), bk.partners # << >>
    PROVE  PartnersClosed(bk, Appropriation(bk)) =
             <<TwoLines("appropriation", ResultAccount, ApprAccount, Result(bk)),
               ToShares("interest", bk, Interests(bk)), ToShares("share", bk, Parts(bk))>>
BY AppropriationIs, Zenon DEF PartnersClosed, TwoLines, ToShares

LEMMA ToSharesIs ==
    ASSUME NEW bk, Base(bk), bk.partners # << >>, NEW note \in Notes, NEW f, \A i \in DOMAIN bk.partners : f[i] \in Int
    PROVE  ToShares(note, bk, f) \in CloseEntry /\ ToShares(note, bk, f).lines = PaidOut(bk, f)
<1>1. PaidOut(bk, f) \in Seq(Line)
  BY SharesOn
<1> QED BY <1>1 DEF ToShares, CloseEntry

LEMMA PartnersClose ==
    ASSUME NEW bk, Base(bk), bk.partners # << >>, NEW c, Puts(bk, c)
    PROVE  Lists(CloseEntries(bk)) /\ Clears(bk, c)
<1> DEFINE D == DOMAIN bk.partners
           R == Result(bk)
           fi == Interests(bk)
           fs == Parts(bk)
           a == HeadEntry(bk, "income", ResultAccount)
           b == HeadEntry(bk, "expense", ResultAccount)
           r == TwoLines("appropriation", ResultAccount, ApprAccount, R)
           d == ToShares("interest", bk, fi)
           s == ToShares("share", bk, fs)
           es == <<a, b>> \o <<r, d, s>>
           N == Names(bk) \cup {ResultAccount, ApprAccount}
           E == OfKind(bk, EquityKinds)
           KI == KindTotal(bk, "income")
           KX == KindTotal(bk, "expense")
           gi == Given(bk, fi)
           gs == Given(bk, fs)
<1>1. AccountsOk(bk) /\ ResultAccount \in Titles /\ ApprAccount \in Titles /\ R \in Int
  BY ResultIs DEF Titles, Base
<1>2. CloseEntries(bk) = Made(es)
  BY PartnersClosedIs DEF CloseEntries, HeadEntry
<1>3. /\ \A i \in D : fi[i] \in Int /\ fs[i] \in Int
      /\ Sum(fi, D) \in Int /\ Sum(fs, D) \in Int /\ Sum(fi, D) + Sum(fs, D) = R
  BY <1>1, RestIs
<1>4. a \in CloseEntry /\ b \in CloseEntry /\ r \in CloseEntry /\ d \in CloseEntry /\ s \in CloseEntry
  <2>1. \A k \in {"income", "expense", "appropriation", "interest", "share"} : k \in Notes
    BY DEF Notes
  <2> HIDE DEF fi, fs
  <2> QED BY <1>1, <1>3, <2>1, HeadEntryIs, TwoLinesIs, ToSharesIs
<1>5. R = -KI - KX /\ KI \in Int /\ KX \in Int
  BY ResultIs, KindTotalIs
<1>6. /\ ResultAccount \notin Names(bk) /\ ApprAccount \notin Names(bk) /\ ResultAccount # ApprAccount
  BY <1>1 DEF AccountsOk, ResultAccount, ApprAccount
<1> HIDE DEF fi, fs, gi, gs
<1>7. /\ gi \in Seq(Line) /\ gs \in Seq(Line)
      /\ SumLines(gi) = -Sum(fi, D) /\ SumLines(gs) = -Sum(fs, D)
      /\ \A i \in DOMAIN gi : gi[i].n \in E
      /\ \A i \in DOMAIN gs : gs[i].n \in E
  BY <1>3, GivenOn DEF gi, gs
<1>8. ASSUME NEW n, n \in Names(bk) => Kind(bk, n) \notin OwnKinds
      PROVE  On(gi, n) = 0 /\ On(gs, n) = 0
  BY <1>3, <1>8, GivenOn DEF gi, gs
<1>9. ASSUME NEW n
      PROVE  /\ On(a.lines, n) = HeadOn(bk, "income", n) + (IF n = ResultAccount THEN KI ELSE 0)
             /\ On(b.lines, n) = HeadOn(bk, "expense", n) + (IF n = ResultAccount THEN KX ELSE 0)
             /\ On(r.lines, n) = (IF n = ResultAccount THEN R ELSE 0) - (IF n = ApprAccount THEN R ELSE 0)
             /\ On(d.lines, n) = (IF n = ApprAccount THEN Sum(fi, D) ELSE 0) + On(gi, n)
             /\ On(s.lines, n) = (IF n = ApprAccount THEN Sum(fs, D) ELSE 0) + On(gs, n)
             /\ On(gi, n) \in Int /\ On(gs, n) \in Int
  <2>1. /\ a.lines = HeadsClosed(bk, "income", ResultAccount) /\ b.lines = HeadsClosed(bk, "expense", ResultAccount)
        /\ r.lines = <<Ln(ResultAccount, R), Ln(ApprAccount, -R)>>
        /\ d.lines = PaidOut(bk, fi) /\ s.lines = PaidOut(bk, fs)
    BY DEF HeadEntry, TwoLines, ToShares
  <2>2. \A i \in D : fi[i] \in Int
    BY <1>3
  <2>3. \A i \in D : fs[i] \in Int
    BY <1>3
  <2>4. On(PaidOut(bk, fi), n) = (IF n = ApprAccount THEN Sum(fi, D) ELSE 0) + On(gi, n)
    <3>1. \A x : On(PaidOut(bk, fi), x) = (IF x = ApprAccount THEN Sum(fi, D) ELSE 0) + On(gi, x)
      BY <2>2, SharesOn DEF gi
    <3> QED BY <3>1
  <2>5. On(PaidOut(bk, fs), n) = (IF n = ApprAccount THEN Sum(fs, D) ELSE 0) + On(gs, n)
    <3>1. \A x : On(PaidOut(bk, fs), x) = (IF x = ApprAccount THEN Sum(fs, D) ELSE 0) + On(gs, x)
      BY <2>3, SharesOn DEF gs
    <3> QED BY <3>1
  <2>6. On(gi, n) \in Int /\ On(gs, n) \in Int
    BY <1>7, OnIs
  <2> HIDE DEF a, b, r, d, s, R, D
  <2>7. On(r.lines, n) = (IF n = ResultAccount THEN R ELSE 0) - (IF n = ApprAccount THEN R ELSE 0)
    BY <1>1, <2>1, OnTwo
  <2>8. /\ On(a.lines, n) = HeadOn(bk, "income", n) + (IF n = ResultAccount THEN KI ELSE 0)
        /\ On(b.lines, n) = HeadOn(bk, "expense", n) + (IF n = ResultAccount THEN KX ELSE 0)
    BY <1>1, <2>1, HeadPuts
  <2> QED BY <2>1, <2>4, <2>5, <2>6, <2>7, <2>8
<1>10. Lists(es) /\ \A n : Sum(OnEach(es, n), DOMAIN es)
                            = On(a.lines, n) + On(b.lines, n) + On(r.lines, n) + On(d.lines, n) + On(s.lines, n)
  <2> HIDE DEF a, b, r, d, s
  <2> QED BY <1>4, FiveEntries
<1> HIDE DEF es, a, b, r, d, s
<1>11. Lists(CloseEntries(bk))
  BY <1>2, <1>10, MadeOn
<1>12. ASSUME NEW n \in N
       PROVE  c[n] = On(a.lines, n) + On(b.lines, n) + On(r.lines, n) + On(d.lines, n) + On(s.lines, n)
  <2>1. c[n] = SumOf(ClosePosts(CloseEntries(bk), n), LAMBDA p : p.a)
    BY Zenon DEF Puts
  <2>2. SumOf(ClosePosts(Made(es), n), LAMBDA p : p.a) = Sum(OnEach(es, n), DOMAIN es)
    BY <1>10, MadeOn
  <2>3. c[n] = Sum(OnEach(es, n), DOMAIN es)
    BY <1>2, <2>1, <2>2, Zenon
  <2> QED BY <1>10, <2>3
<1> HIDE DEF R, KI, KX, D
<1>13. c[ResultAccount] = 0 /\ c[ApprAccount] = 0
  <2>1. \A n \in {ResultAccount, ApprAccount} : HeadOn(bk, "income", n) = 0 /\ HeadOn(bk, "expense", n) = 0
    BY <1>6, HeadIs
  <2>2. /\ On(gi, ResultAccount) = 0 /\ On(gs, ResultAccount) = 0
        /\ On(gi, ApprAccount) = 0 /\ On(gs, ApprAccount) = 0
    BY <1>6, <1>8
  <2>3. c[ResultAccount] = KI + KX + R
    <3>1. /\ On(a.lines, ResultAccount) = KI /\ On(b.lines, ResultAccount) = KX /\ On(r.lines, ResultAccount) = R
          /\ On(d.lines, ResultAccount) = 0 /\ On(s.lines, ResultAccount) = 0
      <4>1. On(a.lines, ResultAccount) = KI /\ On(b.lines, ResultAccount) = KX
        BY <1>5, <1>9, <2>1
      <4>2. On(r.lines, ResultAccount) = R
        BY <1>1, <1>6, <1>9
      <4>3. On(d.lines, ResultAccount) = 0 /\ On(s.lines, ResultAccount) = 0
        BY <1>6, <1>9, <2>2
      <4> QED BY <4>1, <4>2, <4>3
    <3> QED BY <1>1, <1>5, <1>12, <3>1
  <2>4. c[ApprAccount] = -R + Sum(fi, D) + Sum(fs, D)
    <3>1. /\ On(a.lines, ApprAccount) = 0 /\ On(b.lines, ApprAccount) = 0 /\ On(r.lines, ApprAccount) = -R
          /\ On(d.lines, ApprAccount) = Sum(fi, D) /\ On(s.lines, ApprAccount) = Sum(fs, D)
      BY <1>1, <1>3, <1>6, <1>9, <2>1, <2>2
    <3> QED BY <1>1, <1>3, <1>12, <3>1
  <2> QED BY <1>1, <1>3, <1>5, <2>3, <2>4
<1>14. ASSUME NEW n \in Names(bk)
       PROVE  /\ c[n] = HeadOn(bk, "income", n) + HeadOn(bk, "expense", n) + On(gi, n) + On(gs, n)
              /\ c[n] \in Int /\ On(gi, n) \in Int /\ On(gs, n) \in Int
  <2>1. n # ResultAccount /\ n # ApprAccount
    BY <1>6
  <2>2. HeadOn(bk, "income", n) \in Int /\ HeadOn(bk, "expense", n) \in Int
    BY HeadIs
  <2>3. c[n] = On(a.lines, n) + On(b.lines, n) + On(r.lines, n) + On(d.lines, n) + On(s.lines, n)
    BY <1>12
  <2> QED BY <1>9, <2>1, <2>2, <2>3
<1>15. ASSUME NEW n \in Names(bk)
       PROVE  /\ Kind(bk, n) \in {"income", "expense"} => c[n] = -bk.closing[n]
              /\ Kind(bk, n) # "drawings" /\ Kind(bk, n) # "shareout"
              /\ Kind(bk, n) \notin {"income", "expense"} /\ Kind(bk, n) \notin EquityKinds => c[n] = 0
  <2>1. bk.closing[n] \in Int
    BY KindTotalIs
  <2>2. \A k : HeadOn(bk, k, n) = IF Kind(bk, n) = k THEN -bk.closing[n] ELSE 0
    BY HeadIs
  <2>3. Kind(bk, n) # "drawings" /\ Kind(bk, n) # "shareout"
    BY <1>1 DEF AccountsOk, OfKind, OwnKinds, EquityKinds
  <2>4. Kind(bk, n) \in {"income", "expense"} \/ Kind(bk, n) \notin EquityKinds => Kind(bk, n) \notin OwnKinds
    BY DEF OwnKinds, EquityKinds
  <2>5. Kind(bk, n) \in {"income", "expense"} \/ Kind(bk, n) \notin EquityKinds => On(gi, n) = 0 /\ On(gs, n) = 0
    BY <1>8, <2>4
  <2> QED BY <1>14, <2>1, <2>2, <2>3, <2>5
<1>16. (\A n \in OfKind(bk, Nominal \cup {"drawings", "shareout"}) : c[n] = -bk.closing[n]) /\ \A n \in Other(bk) : c[n] = 0
  BY <1>15 DEF OfKind, Other, IsBs, IsEquity, Nominal
<1>17. Sum(c, E) = -R
  <2> DEFINE oi == [n \in E |-> On(gi, n)]
             os == [n \in E |-> On(gs, n)]
  <2>1. IsFiniteSet(E) /\ E \in SUBSET Names(bk)
    BY <1>1, NamesAre, FS_Subset DEF OfKind
  <2>2. ASSUME NEW n \in E
        PROVE  oi[n] = On(gi, n) /\ os[n] = On(gs, n) /\ oi[n] \in Int /\ os[n] \in Int /\ c[n] = oi[n] + os[n] /\ c[n] \in Int
    <3>1. n \in Names(bk) /\ Kind(bk, n) \notin {"income", "expense"}
      BY <2>1 DEF OfKind, EquityKinds
    <3>2. HeadOn(bk, "income", n) = 0 /\ HeadOn(bk, "expense", n) = 0
      BY <3>1, HeadIs
    <3>3. oi[n] = On(gi, n) /\ os[n] = On(gs, n)
      OBVIOUS
    <3> HIDE DEF oi, os
    <3> QED BY <1>14, <3>1, <3>2, <3>3
  <2> HIDE DEF E, oi, os
  <2>3. Sum(c, E) = Sum(oi, E) + Sum(os, E)
    BY <2>1, <2>2, SumPlus
  <2>4. Sum(oi, E) = SumLines(gi)
    BY <1>7, <2>1, <2>2, OnSpreads
  <2>5. Sum(os, E) = SumLines(gs)
    BY <1>7, <2>1, <2>2, OnSpreads
  <2> QED BY <1>1, <1>3, <1>7, <2>3, <2>4, <2>5, SMTT(30)
<1>18. \A n \in Names(bk) : c[n] \in Int
  BY <1>14
<1> QED BY <1>11, <1>13, <1>16, <1>17, <1>18 DEF Clears, E, R

-----------------------------------------------------------------------------
(* A book is judged by its chart, its entries and its rows alone *)

Charted(b, c) == c.order = b.order /\ c.acct = b.acct

LEMMA KindSame ==
    ASSUME NEW b, NEW c, Charted(b, c)
    PROVE  /\ Names(c) = Names(b) /\ \A n : Kind(c, n) = Kind(b, n)
           /\ \A n : (IsMoney(c, n) <=> IsMoney(b, n)) /\ (IsBs(c, n) <=> IsBs(b, n)) /\ (IsEquity(c, n) <=> IsEquity(b, n))
           /\ \A K : OfKind(c, K) = OfKind(b, K)
<1>1. Names(c) = Names(b) /\ \A n : Kind(c, n) = Kind(b, n)
  BY DEF Names, Kind, Charted
<1>2. \A K : OfKind(c, K) = OfKind(b, K)
  BY <1>1 DEF OfKind
<1> QED BY <1>1, <1>2 DEF IsMoney, IsBs, IsEquity

LEMMA FundPaymentSame ==
    ASSUME NEW b, NEW c, Charted(b, c), NEW v, FundPaymentOk(b, v)
    PROVE  FundPaymentOk(c, v)
<1>1. \A n : Kind(c, n) = Kind(b, n) /\ (IsMoney(c, n) <=> IsMoney(b, n))
  BY KindSame
<1> DEFINE fund(x, ln) == ln.a > 0 /\ Kind(x, ln.n) = "fund"
           back(x, ln) == ln.a < 0 /\ Kind(x, ln.n) = "income"
           paid(x, ln) == ln.a < 0 /\ IsMoney(x, ln.n)
<1>2. \A ln : (fund(c, ln) <=> fund(b, ln)) /\ (back(c, ln) <=> back(b, ln)) /\ (paid(c, ln) <=> paid(b, ln))
  BY <1>1
<1> DEFINE F(x) == {i \in DOMAIN v.lines : fund(x, v.lines[i])}
           B(x) == {i \in DOMAIN v.lines : back(x, v.lines[i])}
           sf(x) == [i \in DOMAIN v.lines |-> IF fund(x, v.lines[i]) THEN v.lines[i].a ELSE 0]
           sb(x) == [i \in DOMAIN v.lines |-> IF back(x, v.lines[i]) THEN v.lines[i].a ELSE 0]
           sp(x) == [i \in DOMAIN v.lines |-> IF paid(x, v.lines[i]) THEN v.lines[i].a ELSE 0]
           ok(x) == /\ Len(v.lines) = 4
                    /\ Cardinality(F(x)) = 1 /\ Cardinality(B(x)) = 1
                    /\ \A ln \in ToSet(v.lines) : /\ ln.a > 0 => Kind(x, ln.n) \in {"fund", "expense", "fixed"}
                                                  /\ ln.a < 0 => IsMoney(x, ln.n) \/ Kind(x, ln.n) = "income"
                    /\ SumFunction(sf(x)) = -SumFunction(sb(x)) /\ SumFunction(sb(x)) = SumFunction(sp(x))
<1>3. ASSUME NEW x PROVE FundPaymentOk(x, v) <=> ok(x)
  BY Zenon DEF FundPaymentOk, SumOf
<1>4. F(c) = F(b) /\ B(c) = B(b) /\ sf(c) = sf(b) /\ sb(c) = sb(b) /\ sp(c) = sp(b)
  <2> HIDE DEF fund, back, paid
  <2> QED BY <1>2
<1>5. ok(b)
  BY <1>3
<1> HIDE DEF F, B, sf, sb, sp
<1>6. ok(c)
  BY <1>1, <1>4, <1>5
<1> HIDE DEF ok
<1> QED BY <1>3, <1>6

LEMMA EntrySame ==
    ASSUME NEW b, NEW c, Charted(b, c), NEW v, EntryOk(b, v)
    PROVE  EntryOk(c, v)
<1>1. Names(c) = Names(b) /\ \A n : Kind(c, n) = Kind(b, n) /\ (IsMoney(c, n) <=> IsMoney(b, n))
  BY KindSame
<1>2. ContraOk(b, v) => ContraOk(c, v)
  BY <1>1 DEF ContraOk
<1>3. GollakOk(b, v) => GollakOk(c, v)
  BY <1>1 DEF GollakOk
<1>4. FundPaymentOk(b, v) => FundPaymentOk(c, v)
  BY FundPaymentSame
<1> QED BY <1>1, <1>2, <1>3, <1>4 DEF EntryOk

LEMMA AccountsSame ==
    ASSUME NEW b, NEW c, Charted(b, c), c.partners = b.partners, AccountsOk(b)
    PROVE  AccountsOk(c)
<1>1. Names(c) = Names(b) /\ \A n : Kind(c, n) = Kind(b, n)
  BY KindSame
<1>2. \A K : OfKind(c, K) = OfKind(b, K)
  BY KindSame
<1>3. Partner(c) = Partner(b)
  BY <1>1 DEF Partner
<1> QED BY <1>1, <1>2, <1>3 DEF AccountsOk, Charted

LEMMA PostsOnSame ==
    ASSUME NEW b, NEW c, Charted(b, c), NEW vs, NEW n
    PROVE  PostsOn(c, vs, n) = PostsOn(b, vs, n)
<1>1. c.acct[n].opening = b.acct[n].opening
  BY DEF Charted
<1> QED BY <1>1, Zenon DEF PostsOn

LEMMA AccountsPicked ==
    ASSUME NEW b, NEW c, Charted(b, c)
    PROVE  /\ Accounts(c, LAMBDA n : Kind(c, n) = "capital") = Accounts(b, LAMBDA n : Kind(b, n) = "capital")
           /\ Accounts(c, LAMBDA n : c.acct[n].group = "Owner") = Accounts(b, LAMBDA n : b.acct[n].group = "Owner")
           /\ OwnerAccount(c) = OwnerAccount(b)
<1> DEFINE I(x) == {i \in DOMAIN x.order : Kind(x, x.order[i]) = "capital"}
           J(x) == {i \in DOMAIN x.order : x.acct[x.order[i]].group = "Owner"}
<1>1. I(c) = I(b) /\ J(c) = J(b)
  BY DEF Charted, Kind
<1>2. ASSUME NEW x
      PROVE  /\ Accounts(x, LAMBDA n : Kind(x, n) = "capital") = Taken(x.order, I(x))
             /\ Accounts(x, LAMBDA n : x.acct[n].group = "Owner") = Taken(x.order, J(x))
  BY Zenon DEF Accounts, Those, Taken
<1> HIDE DEF I, J
<1>3. Taken(c.order, I(c)) = Taken(b.order, I(b)) /\ Taken(c.order, J(c)) = Taken(b.order, J(b))
  BY <1>1 DEF Charted
<1>4. /\ Accounts(c, LAMBDA n : Kind(c, n) = "capital") = Accounts(b, LAMBDA n : Kind(b, n) = "capital")
      /\ Accounts(c, LAMBDA n : c.acct[n].group = "Owner") = Accounts(b, LAMBDA n : b.acct[n].group = "Owner")
  BY <1>2, <1>3, Zenon
<1> QED BY <1>4, Zenon DEF OwnerAccount

\* c is the posted book b with more said of it.
Carries(b, c) ==
    /\ Charted(b, c) /\ c.partners = b.partners /\ c.vouchers = b.vouchers
    /\ c.posts = b.posts /\ c.closing = b.closing

LEMMA BaseSame ==
    ASSUME NEW b, NEW c, Carries(b, c), Base(b)
    PROVE  Base(c)
<1>1. Charted(b, c) /\ Names(c) = Names(b) /\ AccountsOk(c)
  BY KindSame, AccountsSame DEF Carries, Base
<1>2. VouchersOk(c)
  <2>1. \A i \in DOMAIN b.vouchers : EntryOk(c, b.vouchers[i])
    BY <1>1, EntrySame DEF Base, VouchersOk
  <2> QED BY <2>1 DEF Carries, Base, VouchersOk
<1>3. c.posts = [n \in Names(c) |-> PostsOn(c, c.vouchers, n)]
  <2>1. \A n : PostsOn(c, b.vouchers, n) = PostsOn(b, b.vouchers, n)
    BY <1>1, PostsOnSame
  <2>2. b.posts = [n \in Names(b) |-> PostsOn(b, b.vouchers, n)] /\ c.posts = b.posts /\ c.vouchers = b.vouchers
    BY DEF Carries, Base
  <2> QED BY <1>1, <2>1, <2>2
<1>4. c.closing = [n \in Names(c) |-> IF c.posts[n] = << >> THEN c.acct[n].opening ELSE Last(c.posts[n]).bal]
  <2>1. b.closing = [n \in Names(b) |-> IF b.posts[n] = << >> THEN b.acct[n].opening ELSE Last(b.posts[n]).bal]
    BY DEF Base
  <2>2. c.closing = b.closing /\ c.posts = b.posts /\ c.acct = b.acct
    BY DEF Carries, Charted
  <2> QED BY <1>1, <2>1, <2>2, Zenon
<1>5. SumOn(Names(c), LAMBDA n : c.acct[n].opening) = 0
  <2>1. SumOn(Names(b), LAMBDA n : b.acct[n].opening) = 0
    BY Zenon DEF Base
  <2>2. c.acct = b.acct
    BY DEF Carries, Charted
  <2>3. [n \in Names(b) |-> c.acct[n].opening] = [n \in Names(b) |-> b.acct[n].opening]
    BY <2>2
  <2> QED BY <1>1, <2>1, <2>3, Zenon DEF SumOn
<1> QED BY <1>1, <1>2, <1>3, <1>4, <1>5, Zenon DEF Base

LEMMA BalancesSame ==
    ASSUME NEW b, NEW c, Carries(b, c), Base(b), NEW d
    PROVE  Balances(c, d) = Balances(b, d) /\ Other(c) = Other(b)
<1>1. Names(c) = Names(b) /\ \A n : (IsBs(c, n) <=> IsBs(b, n)) /\ (IsEquity(c, n) <=> IsEquity(b, n))
  BY KindSame DEF Carries
<1>2. \A n : Went(c, n, d) = Went(b, n, d)
  BY DEF Went, Carries
<1>3. \A n : Bal(c, n, d) = Bal(b, n, d)
  BY <1>2 DEF Bal, Carries, Charted
<1> QED BY <1>1, <1>3 DEF Balances, Other

-----------------------------------------------------------------------------
(* The year close *)

\* c is b closed.
ClosedFrom(b, c) ==
    /\ Carries(b, c) /\ c.close = CloseEntries(b)
    /\ c.pcb = [n \in Names(b) |-> b.closing[n] + SumOf(ClosePosts(CloseEntries(b), n), LAMBDA p : p.a)]

CloseKept(bk) ==
    CloseAllowed(bk) =>
      /\ CloseAsserts(bk)
      /\ -SumOn(OfKind(bk, EquityKinds), LAMBDA n : bk.pcb[n]) = OwnNow(bk, FyEnd)
      /\ SumOn({n \in Names(bk) : IsBs(bk, n)}, LAMBDA n : bk.pcb[n]) = 0
      /\ bk.partners # << >> => SumOf(Appropriation(bk), LAMBDA x : x.interest + x.share) = Result(bk)

LEMMA CloseKeeps ==
    ASSUME NEW b, NEW k, Base(b), ClosedFrom(b, k), CloseAllowed(k)
    PROVE  CloseKept(k)
<1> DEFINE c == [n \in Names(b) \cup {ResultAccount, ApprAccount} |-> SumOf(ClosePosts(CloseEntries(b), n), LAMBDA p : p.a)]
           E == OfKind(b, EquityKinds)
           O == Other(b)
           B == Balances(b, FyEnd)
           P == k.pcb
           own == OwnNow(k, FyEnd)
           S == {n \in Names(k) : IsBs(k, n)}
<1>1. Base(k) /\ Carries(b, k) /\ Charted(b, k)
  BY BaseSame DEF ClosedFrom, Carries
<1>2. Puts(b, c)
  BY Zenon DEF Puts
<1> HIDE DEF c
<1>3. Clears(b, c)
  <2>1. CASE b.partners # << >>
    BY <1>2, <2>1, PartnersClose
  <2>2. CASE b.partners = << >>
    <3>1. OwnerAccount(k) # NoAccount
      BY <1>1, <2>2 DEF CloseAllowed, Carries
    <3>2. OwnerAccount(b) # NoAccount
      BY <1>1, <3>1, AccountsPicked
    <3> QED BY <1>2, <2>2, <3>2, OwnerCloses
  <2> QED BY <2>1, <2>2
<1>4. \A n \in Names(b) : /\ P[n] = B[n] + c[n] /\ B[n] = b.closing[n]
                         /\ B[n] \in Int /\ c[n] \in Int /\ P[n] \in Int
  <2>1. ASSUME NEW n \in Names(b) PROVE P[n] = b.closing[n] + c[n]
    BY Zenon DEF ClosedFrom, c
  <2>2. ASSUME NEW n \in Names(b) PROVE B[n] = b.closing[n] /\ B[n] \in Int /\ c[n] \in Int
    BY <1>3, KindTotalIs DEF Clears
  <2> QED BY <2>1, <2>2
<1>5. Names(k) = Names(b) /\ (\A K : OfKind(k, K) = OfKind(b, K)) /\ Balances(k, FyEnd) = B /\ Other(k) = O
  BY <1>1, KindSame, BalancesSame
<1>6. IsFiniteSet(E) /\ IsFiniteSet(O) /\ E \in SUBSET Names(b) /\ O \in SUBSET Names(b) /\ E \cap O = {} /\ S = E \cup O
  <2>1. IsFiniteSet(Names(b)) /\ E \in SUBSET Names(b) /\ O \in SUBSET Names(b)
    BY NamesAre DEF Base, OfKind, Other
  <2>2. E \cap O = {}
    BY DEF OfKind, Other, IsEquity
  <2>3. S = E \cup O
    <3>1. \A n : IsBs(k, n) <=> IsBs(b, n)
      BY <1>1, KindSame
    <3>2. \A n : IsEquity(b, n) => IsBs(b, n)
      BY DEF IsEquity, IsBs, EquityKinds, Nominal
    <3> QED BY <1>5, <3>1, <3>2 DEF OfKind, Other, IsEquity
  <2> QED BY <2>1, <2>2, <2>3, FS_Subset
<1>7. /\ own = -Sum(B, E) + Result(b) /\ Sum(B, E) \in Int /\ Result(b) \in Int
      /\ own = Sum(B, O) /\ Sum(B, O) \in Int
  <2>1. /\ own = -Sum(B, E) - Sum(B, OfKind(b, {"income"})) - Sum(B, OfKind(b, {"expense"}))
        /\ Sum(B, E) \in Int /\ Sum(B, OfKind(b, {"income"})) \in Int /\ Sum(B, OfKind(b, {"expense"})) \in Int
    BY <1>1, <1>5, OwnNowIs
  <2>2. Result(b) = -Sum(B, OfKind(b, {"income"})) - Sum(B, OfKind(b, {"expense"}))
    BY ResultIs DEF KindTotal
  <2>3. own = Sum(B, O) /\ Sum(B, O) \in Int
    BY <1>1, <1>5, OwnNowIsOthers
  <2> QED BY <2>1, <2>2, <2>3
<1>8. /\ c[ResultAccount] = 0 /\ c[ApprAccount] = 0
      /\ \A n \in OfKind(b, Nominal \cup {"drawings", "shareout"}) : c[n] = -b.closing[n]
      /\ \A n \in O : c[n] = 0
      /\ Sum(c, E) = -Result(b)
  BY <1>3 DEF Clears
<1>9. CloseAsserts(k)
  <2>1. \A n \in {ResultAccount, ApprAccount} : SumOf(ClosePosts(k.close, n), LAMBDA p : p.a) = c[n]
    BY Zenon DEF ClosedFrom, c
  <2>2. ASSUME NEW n \in OfKind(b, Nominal \cup {"drawings", "shareout"}) PROVE P[n] = 0
    <3>1. n \in Names(b)
      BY DEF OfKind
    <3>2. P[n] = B[n] + c[n] /\ B[n] = b.closing[n] /\ B[n] \in Int
      BY <1>4, <3>1
    <3>3. c[n] = -b.closing[n]
      BY <1>8
    <3> HIDE DEF P, B
    <3> QED BY <3>2, <3>3
  <2>3. \A n \in {ResultAccount, ApprAccount} : c[n] = 0
    BY <1>8
  <2>4. \A n \in OfKind(k, Nominal \cup {"drawings", "shareout"}) : k.pcb[n] = 0
    BY <1>5, <2>2
  <2>5. \A n \in {ResultAccount, ApprAccount} : SumOf(ClosePosts(k.close, n), LAMBDA p : p.a) = 0
    BY <2>1, <2>3, Zenon
  <2> QED BY <2>4, <2>5, Zenon DEF CloseAsserts
<1>10. /\ SumOn(OfKind(k, EquityKinds), LAMBDA n : k.pcb[n]) = Sum([n \in E |-> P[n]], E)
       /\ SumOn(S, LAMBDA n : k.pcb[n]) = Sum([n \in S |-> P[n]], S)
  <2>1. OfKind(k, EquityKinds) = E
    BY <1>5
  <2> HIDE DEF E, S
  <2>2. SumOn(E, LAMBDA n : k.pcb[n]) = Sum([n \in E |-> P[n]], E) /\ SumOn(S, LAMBDA n : k.pcb[n]) = Sum([n \in S |-> P[n]], S)
    BY Zenon DEF SumOn, SumFunction, Sum
  <2> QED BY <2>1, <2>2, Zenon
<1> DEFINE pe == [n \in E |-> P[n]]
           ps == [n \in S |-> P[n]]
<1>11. (\A n \in E : pe[n] = P[n]) /\ \A n \in S : ps[n] = P[n]
  OBVIOUS
<1> HIDE DEF E, O, B, P, S, own, pe, ps
<1>12. Sum(P, E) = Sum(B, E) + Sum(c, E)
  BY <1>4, <1>6, SumPlus
<1>13. Sum(P, O) = Sum(B, O)
  <2>1. \A n \in O : B[n] \in Int /\ P[n] = B[n]
    BY <1>4, <1>6, <1>8
  <2> QED BY <1>6, <2>1, SumSame
<1>14. Sum(P, S) = Sum(P, E) + Sum(P, O)
  BY <1>4, <1>6, SumUnion
<1>15. Sum(pe, E) = Sum(P, E)
  <2>1. \A n \in E : P[n] \in Int /\ pe[n] = P[n]
    BY <1>4, <1>6, <1>11
  <2> QED BY <1>6, <2>1, SumSame
<1>16. Sum(ps, S) = Sum(P, S)
  <2>1. IsFiniteSet(S) /\ \A n \in S : P[n] \in Int /\ ps[n] = P[n]
    BY <1>4, <1>6, <1>11, FS_Union
  <2> QED BY <2>1, SumSame
<1>17. -Sum(pe, E) = own /\ Sum(ps, S) = 0
  BY <1>7, <1>8, <1>12, <1>13, <1>14, <1>15, <1>16
<1>18. -SumOn(OfKind(k, EquityKinds), LAMBDA n : k.pcb[n]) = OwnNow(k, FyEnd)
  BY <1>10, <1>17, Zenon DEF pe, own
<1>19. SumOn({n \in Names(k) : IsBs(k, n)}, LAMBDA n : k.pcb[n]) = 0
  BY <1>10, <1>17, Zenon DEF ps, S
<1>20. k.partners # << >> => SumOf(Appropriation(k), LAMBDA x : x.interest + x.share) = Result(k)
  <2>1. ASSUME k.partners # << >> PROVE SumOf(Appropriation(k), LAMBDA x : x.interest + x.share) = Result(k)
    BY <1>1, <2>1, AppropriationIs, Zenon
  <2> QED BY <2>1, Zenon
<1> QED BY <1>9, <1>18, <1>19, <1>20, Zenon DEF CloseKept

-----------------------------------------------------------------------------
(* Numbering the entries *)

\* The entries before entry i of those of the dates d: the earlier ones, and those of the day ws before.
Before(d, i) == {j \in DOMAIN d : d[j] < d[i] \/ (d[j] = d[i] /\ j < i)}

\* Every place of the order is some entry's.
LEMMA PlaceExists ==
    ASSUME NEW n \in Nat, NEW d, DOMAIN d = 1..n, \A i \in 1..n : d[i] \in Int, NEW k \in 1..n
    PROVE  \E i \in 1..n : Cardinality(Before(d, i)) = k - 1
<1> DEFINE D == 1..n
           T == 0..(n - 1)
           r == [i \in D |-> Cardinality(Before(d, i))]
<1>1. IsFiniteSet(D) /\ Cardinality(D) = n /\ IsFiniteSet(T) /\ Cardinality(T) = n
  <2>1. IsFiniteSet(1..n) /\ Cardinality(1..n) = IF 1 > n THEN 0 ELSE n - 1 + 1
    BY FS_Interval
  <2>2. IsFiniteSet(0..(n - 1)) /\ Cardinality(0..(n - 1)) = IF 0 > n - 1 THEN 0 ELSE n - 1 - 0 + 1
    BY FS_Interval
  <2> QED BY <2>1, <2>2
<1>2. ASSUME NEW i \in D
      PROVE  Before(d, i) \in SUBSET (D \ {i}) /\ IsFiniteSet(Before(d, i)) /\ Cardinality(Before(d, i)) \in T
  <2>1. Before(d, i) \in SUBSET (D \ {i})
    BY DEF Before
  <2>2. IsFiniteSet(D \ {i}) /\ Cardinality(D \ {i}) = n - 1
    BY <1>1, FS_RemoveElement
  <2>3. IsFiniteSet(Before(d, i)) /\ Cardinality(Before(d, i)) <= n - 1
    BY <2>1, <2>2, FS_Subset
  <2>4. Cardinality(Before(d, i)) \in Nat
    BY <2>3, FS_CardinalityType
  <2> QED BY <2>1, <2>3, <2>4
<1>3. ASSUME NEW i \in D, NEW j \in D, d[i] < d[j] \/ (d[i] = d[j] /\ i < j)
      PROVE  Cardinality(Before(d, i)) # Cardinality(Before(d, j))
  <2>1. d[i] \in Int /\ d[j] \in Int
    OBVIOUS
  <2>2. i \in Before(d, j) /\ i \notin Before(d, i)
    BY <1>2, <1>3 DEF Before
  <2>3. Before(d, i) \in SUBSET Before(d, j)
    <3>1. ASSUME NEW x \in Before(d, i) PROVE x \in Before(d, j)
      <4>1. x \in D /\ d[x] \in Int /\ (d[x] < d[i] \/ (d[x] = d[i] /\ x < i))
        BY DEF Before
      <4>2. d[x] < d[j] \/ (d[x] = d[j] /\ x < j)
        BY <1>3, <2>1, <4>1
      <4> QED BY <4>1, <4>2 DEF Before
    <3> QED BY <3>1
  <2>4. IsFiniteSet(Before(d, j))
    BY <1>2
  <2> QED BY <2>2, <2>3, <2>4, FS_Subset
<1>4. \A i, j \in D : Cardinality(Before(d, i)) = Cardinality(Before(d, j)) => i = j
  <2>1. ASSUME NEW i \in D, NEW j \in D, i # j PROVE Cardinality(Before(d, i)) # Cardinality(Before(d, j))
    <3>1. \/ d[i] < d[j] \/ (d[i] = d[j] /\ i < j)
          \/ d[j] < d[i] \/ (d[j] = d[i] /\ j < i)
      BY <2>1
    <3> QED BY <1>3, <3>1
  <2> QED BY <2>1
<1>5. r \in Injection(D, T)
  BY <1>2, <1>4 DEF Injection, IsInjective
<1> HIDE DEF D, T
<1>6. r \in Surjection(D, T)
  BY <1>1, <1>5, FS_Injection
<1>7. k - 1 \in T
  BY DEF T
<1>8. PICK i \in D : r[i] = k - 1
  BY <1>6, <1>7, Zenon DEF Surjection
<1> QED BY <1>8 DEF D

LEMMA LinesLonger ==
    ASSUME NEW L \in Seq([n : STRING, a : Int])
    PROVE  L \in Seq(Line)
<1>1. DOMAIN L = 1..Len(L) /\ Len(L) \in Nat /\ L = [i \in 1..Len(L) |-> L[i]]
  BY LenProperties
<1>2. \A i \in 1..Len(L) : L[i] \in [n : STRING, a : Int]
  BY ElementOfSeq
<1>3. [n : STRING, a : Int] \in SUBSET Line
  BY DEF Line, Titles
<1>4. L \in [1..Len(L) -> Line]
  BY <1>1, <1>2, <1>3
<1> QED BY <1>1, <1>4, SeqDef

LEMMA NumberedIs ==
    ASSUME NEW ws \in Seq(Entry)
    PROVE  /\ DOMAIN Numbered(ws) = 1..Len(Numbered(ws)) /\ Len(Numbered(ws)) \in Nat
           /\ \A k \in DOMAIN Numbered(ws) :
                /\ Numbered(ws)[k].lines \in Seq(Line)
                /\ Numbered(ws)[k].date \in FyStart..FyEnd
<1> DEFINE n == Len(ws)
           q == [i \in DOMAIN ws |-> Extended(ws[i], [seq |-> i])]
           d == [i \in 1..n |-> ws[i].date]
           R == [k \in DOMAIN q |-> q[CHOOSE i \in DOMAIN q :
                   Cardinality({j \in DOMAIN q : q[j].date < q[i].date \/ (q[j].date = q[i].date /\ j < i)}) = k - 1]]
<1>1. DOMAIN ws = 1..n /\ n \in Nat /\ \A i \in 1..n : ws[i] \in Entry
  OBVIOUS
<1>2. Numbered(ws) = R
  BY Zenon DEF Numbered
<1>3. DOMAIN q = 1..n
  BY <1>1
<1>4. ASSUME NEW i \in 1..n
      PROVE  /\ q[i].date = ws[i].date /\ q[i].lines \in Seq(Line)
             /\ q[i].date \in FyStart..FyEnd /\ q[i].date \in Int /\ d[i] = ws[i].date
  <2>1. q[i] = Extended(ws[i], [seq |-> i])
    BY <1>1
  <2>2. ws[i] \in Entry
    BY <1>1
  <2>3. /\ ws[i].date \in FyStart..FyEnd /\ ws[i].lines \in Seq([n : STRING, a : Int])
        /\ DOMAIN ws[i] = {"date", "vtype", "lines", "dep", "ref"}
    BY <2>2 DEF Entry
  <2>4. DOMAIN [seq |-> i] = {"seq"}
    OBVIOUS
  <2>5. q[i].date = ws[i].date /\ q[i].lines = ws[i].lines
    BY <2>1, <2>3, <2>4 DEF Extended
  <2>6. ws[i].lines \in Seq(Line)
    BY <2>3, LinesLonger
  <2>7. FyStart..FyEnd \in SUBSET Int
    BY DEF FyStart, FyEnd
  <2>8. d[i] = ws[i].date
    OBVIOUS
  <2> HIDE DEF q, d
  <2> QED BY <2>3, <2>5, <2>6, <2>7, <2>8
<1>5. \A i \in DOMAIN q : {j \in DOMAIN q : q[j].date < q[i].date \/ (q[j].date = q[i].date /\ j < i)} = Before(d, i)
  <2>1. DOMAIN d = 1..n
    OBVIOUS
  <2>2. \A i \in 1..n : q[i].date = d[i]
    BY <1>4
  <2> HIDE DEF q, d
  <2> QED BY <1>3, <2>1, <2>2 DEF Before
<1>6. DOMAIN d = 1..n /\ \A i \in 1..n : d[i] \in Int
  <2>1. DOMAIN d = 1..n
    OBVIOUS
  <2>2. \A i \in 1..n : d[i] \in Int
    BY <1>4
  <2> QED BY <2>1, <2>2
<1> HIDE DEF q, d
<1>7. ASSUME NEW k \in 1..n PROVE \E i \in 1..n : R[k] = q[i]
  <2> DEFINE P(i) == Cardinality({j \in DOMAIN q : q[j].date < q[i].date \/ (q[j].date = q[i].date /\ j < i)}) = k - 1
             c == CHOOSE i \in DOMAIN q : P(i)
  <2>1. R[k] = q[c]
    BY <1>3, Zenon
  <2>2. \E i \in DOMAIN q : P(i)
    <3>1. PICK i \in 1..n : Cardinality(Before(d, i)) = k - 1
      BY <1>1, <1>6, PlaceExists
    <3> QED BY <1>3, <1>5, <3>1
  <2> HIDE DEF P, R
  <2>3. c \in DOMAIN q
    BY <2>2
  <2> QED BY <1>3, <2>1, <2>3
<1>8. DOMAIN R = 1..n
  BY <1>3
<1> HIDE DEF R
<1>9. \A k \in 1..n : R[k].lines \in Seq(Line) /\ R[k].date \in FyStart..FyEnd
  BY <1>4, <1>7
<1>10. Len(R) = n
  BY <1>1, <1>8
<1> QED BY <1>1, <1>2, <1>8, <1>9, <1>10

-----------------------------------------------------------------------------
(* Posting *)

Fields == {"order", "acct", "partners", "vouchers", "posts", "closing"}

LEMMA PostIs ==
    ASSUME NEW b, ChartOk(b), NEW vs
    PROVE  /\ Fields \in SUBSET DOMAIN Post(b, vs)
           /\ Post(b, vs).order = b.order /\ Post(b, vs).acct = b.acct /\ Post(b, vs).partners = b.partners
           /\ Post(b, vs).vouchers = vs
           /\ Post(b, vs).posts = [n \in Names(b) |-> PostsOn(b, vs, n)]
           /\ Post(b, vs).closing =
                [n \in Names(b) |-> IF Post(b, vs).posts[n] = << >> THEN b.acct[n].opening ELSE Last(Post(b, vs).posts[n]).bal]
<1> DEFINE p == [n \in Names(b) |-> PostsOn(b, vs, n)]
           c == [n \in Names(b) |-> IF p[n] = << >> THEN b.acct[n].opening ELSE Last(p[n]).bal]
           m == [vouchers |-> vs, posts |-> p, closing |-> c]
           e == Extended(b, m)
<1>1. Post(b, vs) = e
  BY Zenon DEF Post
<1> HIDE DEF p, c
<1>2. DOMAIN m = {"vouchers", "posts", "closing"} /\ m.vouchers = vs /\ m.posts = p /\ m.closing = c
  OBVIOUS
<1>3. DOMAIN b = {"style", "order", "acct", "partners", "counts", "custom", "extract"}
  BY DEF ChartOk
<1> HIDE DEF m
<1>4. DOMAIN e = DOMAIN b \cup DOMAIN m /\ \A x \in DOMAIN b \cup DOMAIN m : e[x] = IF x \in DOMAIN m THEN m[x] ELSE b[x]
  BY DEF Extended
<1>5. /\ Fields \in SUBSET DOMAIN e
      /\ e.order = b.order /\ e.acct = b.acct /\ e.partners = b.partners
      /\ e.vouchers = vs /\ e.posts = p /\ e.closing = c
  BY <1>2, <1>3, <1>4 DEF Fields
<1> HIDE DEF e
<1>6. /\ Fields \in SUBSET DOMAIN Post(b, vs)
      /\ Post(b, vs).order = b.order /\ Post(b, vs).acct = b.acct /\ Post(b, vs).partners = b.partners
      /\ Post(b, vs).vouchers = vs /\ Post(b, vs).posts = p /\ Post(b, vs).closing = c
  BY <1>1, <1>5
<1> QED BY <1>6 DEF p, c

\* What the checks of the generator leave of a chart and the entries ws in it.
LEMMA PostedIsBase ==
    ASSUME NEW b, ChartOk(b), NEW ws \in Seq(Entry),
           \A v \in ToSet(Numbered(ws)) : EntryOk(b, v),
           BalancesOk(Post(b, Numbered(ws)))
    PROVE  Base(Post(b, Numbered(ws))) /\ Fields \in SUBSET DOMAIN Post(b, Numbered(ws))
<1> DEFINE vs == Numbered(ws)
           k == Post(b, vs)
<1>1. /\ Fields \in SUBSET DOMAIN k
      /\ k.order = b.order /\ k.acct = b.acct /\ k.partners = b.partners /\ k.vouchers = vs
      /\ k.posts = [n \in Names(b) |-> PostsOn(b, vs, n)]
      /\ k.closing = [n \in Names(b) |-> IF k.posts[n] = << >> THEN b.acct[n].opening ELSE Last(k.posts[n]).bal]
  BY PostIs
<1>2. /\ DOMAIN vs = 1..Len(vs) /\ Len(vs) \in Nat
      /\ \A i \in DOMAIN vs : vs[i].lines \in Seq(Line) /\ vs[i].date \in FyStart..FyEnd
  BY NumberedIs
<1>3. \A i \in DOMAIN vs : EntryOk(b, vs[i])
  BY DEF ToSet
<1>4. SumOn(Names(k), LAMBDA n : k.acct[n].opening) = 0
  BY Zenon DEF BalancesOk
<1> HIDE DEF vs, k
<1>5. Charted(b, k) /\ AccountsOk(b) /\ Names(k) = Names(b)
  BY <1>1, KindSame DEF Charted, ChartOk
<1>6. AccountsOk(k)
  BY <1>1, <1>5, AccountsSame
<1>7. VouchersOk(k)
  <2>1. \A i \in DOMAIN vs : EntryOk(k, vs[i])
    BY <1>3, <1>5, EntrySame
  <2> QED BY <1>1, <1>2, <2>1 DEF VouchersOk
<1>8. k.posts = [n \in Names(k) |-> PostsOn(k, k.vouchers, n)]
  <2>1. \A n : PostsOn(k, vs, n) = PostsOn(b, vs, n)
    BY <1>5, PostsOnSame
  <2> QED BY <1>1, <1>5, <2>1
<1>9. k.closing = [n \in Names(k) |-> IF k.posts[n] = << >> THEN k.acct[n].opening ELSE Last(k.posts[n]).bal]
  BY <1>1, <1>5, Zenon
<1>10. Base(k)
  BY <1>4, <1>6, <1>7, <1>8, <1>9, Zenon DEF Base
<1> QED BY <1>1, <1>10 DEF k, vs

LEMMA ClosedIs ==
    ASSUME NEW b, Fields \in SUBSET DOMAIN b
    PROVE  ClosedFrom(b, Closed(b))
<1> DEFINE es == CloseEntries(b)
           a == AfterClose(b, es)
           m == [close |-> es, pcb |-> a]
           e == Extended(b, m)
<1>1. Closed(b) = e
  BY Zenon DEF Closed, WithClose
<1>2. a = [n \in Names(b) |-> b.closing[n] + SumOf(ClosePosts(es, n), LAMBDA p : p.a)]
  BY Zenon DEF AfterClose
<1> HIDE DEF es, a
<1>3. DOMAIN m = {"close", "pcb"} /\ m.close = es /\ m.pcb = a
  OBVIOUS
<1> HIDE DEF m
<1>4. \A x \in DOMAIN b \cup DOMAIN m : e[x] = IF x \in DOMAIN m THEN m[x] ELSE b[x]
  BY DEF Extended
<1>5. /\ e.order = b.order /\ e.acct = b.acct /\ e.partners = b.partners /\ e.vouchers = b.vouchers
      /\ e.posts = b.posts /\ e.closing = b.closing
      /\ e.close = es /\ e.pcb = a
  BY <1>3, <1>4 DEF Fields
<1> HIDE DEF e
<1>6. Carries(b, e)
  BY <1>5 DEF Carries, Charted
<1>7. e.close = CloseEntries(b)
  BY <1>5 DEF es
<1>8. e.pcb = [n \in Names(b) |-> b.closing[n] + SumOf(ClosePosts(CloseEntries(b), n), LAMBDA p : p.a)]
  BY <1>2, <1>5, Zenon DEF es
<1>9. ClosedFrom(b, e)
  BY <1>6, <1>7, <1>8, Zenon DEF ClosedFrom
<1> QED BY <1>1, <1>9, Zenon

-----------------------------------------------------------------------------
(* A run of the case *)

\* The books of a case are well made once it has passed its checks.
Kept(bk) == Base(bk) /\ CloseKept(bk)
Closes == phase \in {"final", "stopped", "printed", "accepted", "reported"}
CaseInv == TypeOK /\ (Closes => \A b \in BookNames : Kept(books[b]))

\* An entry a correction is of is still an entry.
LEMMA NamedIs ==
    ASSUME NEW b \in BookNames, NEW v \in Entry, written[b] \in Seq(Entry)
    PROVE  Named(b, v) \in Entry
<1>1. Len(written[b]) \in Int
  BY LenProperties
<1> QED BY <1>1 DEF Named, Entry

\* What one decision writes in a book is entries.
Put(es, b) == Those(es, LAMBDA e : e.book = b)

LEMMA PutIs ==
    ASSUME NEW B, NEW es \in Seq([book : B, v : Entry]), NEW b
    PROVE  DOMAIN Put(es, b) = 1..Len(Put(es, b)) /\ Len(Put(es, b)) \in Nat /\ \A k \in DOMAIN Put(es, b) : Put(es, b)[k].v \in Entry
<1> DEFINE X == [book : B, v : Entry]
           I == {i \in DOMAIN es : es[i].book = b}
           t == Taken(es, I)
           q == InOrder(I, Len(es))
<1>1. Put(es, b) = t
  BY Zenon DEF Put, Those, Taken
<1>2. I \in SUBSET DOMAIN es
  OBVIOUS
<1> HIDE DEF I
<1>3. TakenIs(es, I, t, q)
  BY <1>2, TakenLists
<1>4. DOMAIN t = DOMAIN q /\ q \in Seq(I) /\ \A k \in DOMAIN q : t[k] = es[q[k]]
  BY <1>3 DEF TakenIs, Taken
<1> HIDE DEF t, q
<1>5. DOMAIN q = 1..Len(q) /\ Len(q) \in Nat /\ \A k \in DOMAIN q : q[k] \in DOMAIN es
  <2>1. DOMAIN q = 1..Len(q) /\ Len(q) \in Nat
    BY <1>4, LenProperties
  <2>2. \A k \in 1..Len(q) : q[k] \in I
    BY <1>4, ElementOfSeq
  <2> QED BY <1>2, <2>1, <2>2
<1>6. \A i \in DOMAIN es : es[i].v \in Entry
  <2>1. DOMAIN es = 1..Len(es) /\ \A i \in 1..Len(es) : es[i] \in X
    BY LenProperties, ElementOfSeq
  <2> QED BY <2>1
<1>7. Len(t) = Len(q)
  BY <1>4, <1>5
<1> QED BY <1>1, <1>4, <1>5, <1>6, <1>7

\* Every list of entries is a list with more of them.
LEMMA WrittenMore ==
    ASSUME NEW s \in Seq(Entry), NEW t, DOMAIN t = 1..Len(t), Len(t) \in Nat, \A k \in DOMAIN t : t[k].v \in Entry,
           NEW b \in BookNames, written[b] \in Seq(Entry)
    PROVE  s \o [k \in DOMAIN t |-> Named(b, t[k].v)] \in Seq(Entry)
<1> DEFINE u == [k \in DOMAIN t |-> Named(b, t[k].v)]
<1>1. \A k \in DOMAIN t : Named(b, t[k].v) \in Entry
  BY NamedIs
<1>2. u \in [1..Len(t) -> Entry]
  BY <1>1
<1>3. u \in Seq(Entry)
  BY <1>2, SeqDef
<1> HIDE DEF u
<1>4. s \o u \in Seq(Entry)
  BY <1>3, ConcatProperties
<1> QED BY <1>4 DEF u

LEMMA FinalKept ==
    ASSUME NEW b, ChartOk(b), NEW ws \in Seq(Entry),
           \A v \in ToSet(Numbered(ws)) : EntryOk(b, v),
           BalancesOk(Post(b, Numbered(ws)))
    PROVE  Kept(Closed(Post(b, Numbered(ws))))
<1> DEFINE p == Post(b, Numbered(ws))
           k == Closed(p)
<1>1. Base(p) /\ Fields \in SUBSET DOMAIN p
  BY PostedIsBase
<1> HIDE DEF p
<1>2. ClosedFrom(p, k)
  BY <1>1, ClosedIs
<1>3. Base(k)
  BY <1>1, <1>2, BaseSame DEF ClosedFrom
<1>4. CloseKept(k)
  <2>1. CASE CloseAllowed(k)
    BY <1>1, <1>2, <2>1, CloseKeeps
  <2>2. CASE ~CloseAllowed(k)
    BY <2>2, Zenon DEF CloseKept
  <2> QED BY <2>1, <2>2
<1> QED BY <1>3, <1>4 DEF Kept, p

LEMMA CaseInvInit == Init => CaseInv
<1> SUFFICES ASSUME Init PROVE CaseInv
  OBVIOUS
<1>1. case \in Cases /\ MaxEntries[case] \in Nat
  BY BoundsAssumption DEF Init
<1>2. written \in [ToSet(BookOrder) -> Seq(Entry)]
  BY <1>1, EntriesAssumption DEF Init, BookOrder
<1> QED BY <1>1, <1>2 DEF Init, CaseInv, TypeOK, Closes

LEMMA CaseInvWrite == CaseInv /\ Write => CaseInv'
<1> SUFFICES ASSUME CaseInv, Write PROVE CaseInv'
  OBVIOUS
<1>1. /\ case \in Cases /\ size \in Nat /\ last \in Nat /\ written \in [ToSet(BookOrder) -> Seq(Entry)]
      /\ EntriesOf[case] \in Seq(Seq([book : ToSet(BooksOf[case]), v : Entry])) /\ MaxEntries[case] \in Nat
      /\ size \in 0..MaxEntries[case]
  BY EntriesAssumption, BoundsAssumption DEF CaseInv, TypeOK
<1>2. /\ phase = "writing" /\ phase' = phase /\ case' = case /\ size' = size + 1 /\ size < MaxEntries[case]
      /\ BookOrder' = BookOrder
  BY DEF Write, BookOrder
<1>3. PICK i \in (last + 1)..Len(EntriesOf[case]) : WriteIn(EntriesOf[case][i]) /\ last' = i
  BY DEF Write
<1> DEFINE es == EntriesOf[case][i]
           B == ToSet(BooksOf[case])
<1>4. DOMAIN written = BookNames /\ BookNames = B
  BY <1>1 DEF BookNames, BookOrder
<1>5. Len(EntriesOf[case]) \in Nat /\ i \in Nat /\ i \in 1..Len(EntriesOf[case]) /\ es \in Seq([book : B, v : Entry])
  <2>1. Len(EntriesOf[case]) \in Nat
    BY <1>1, LenProperties
  <2>2. i \in 1..Len(EntriesOf[case])
    BY <1>1, <2>1
  <2> QED BY <1>1, <2>1, <2>2, ElementOfSeq
<1>6. written' = [b \in BookNames |-> written[b] \o [k \in DOMAIN Put(es, b) |-> Named(b, Put(es, b)[k].v)]]
  BY <1>3, Zenon DEF WriteIn, Put
<1> HIDE DEF es
<1>7. ASSUME NEW b \in BookNames
      PROVE  written[b] \o [k \in DOMAIN Put(es, b) |-> Named(b, Put(es, b)[k].v)] \in Seq(Entry)
  <2>1. written[b] \in Seq(Entry)
    BY <1>1, <1>4 DEF BookOrder
  <2>2. /\ DOMAIN Put(es, b) = 1..Len(Put(es, b)) /\ Len(Put(es, b)) \in Nat
        /\ \A k \in DOMAIN Put(es, b) : Put(es, b)[k].v \in Entry
    BY <1>5, PutIs
  <2> QED BY <2>1, <2>2, WrittenMore
<1>8. written' \in [ToSet(BookOrder)' -> Seq(Entry)]
  <2>1. written' \in [BookNames -> Seq(Entry)]
    BY <1>6, <1>7
  <2> QED BY <1>2, <1>4, <2>1 DEF BookOrder
<1>9. last' \in 0..Len(EntriesOf[case]) /\ size' \in 0..MaxEntries[case]
  BY <1>1, <1>2, <1>3, <1>5
<1> QED BY <1>1, <1>2, <1>8, <1>9 DEF CaseInv, TypeOK, Closes

LEMMA CaseInvFinalize == CaseInv /\ Finalize => CaseInv'
<1> SUFFICES ASSUME CaseInv, Finalize PROVE CaseInv'
  OBVIOUS
<1>1. /\ case \in Cases /\ written \in [ToSet(BookOrder) -> Seq(Entry)]
      /\ DOMAIN written = BookNames /\ BookNames = ToSet(BooksOf[case])
  BY DEF CaseInv, TypeOK, BookNames, BookOrder
<1>2. UNCHANGED <<case, written, last, size, pages>> /\ BookNames' = BookNames /\ BookOrder' = BookOrder
  BY DEF Finalize, BookNames, BookOrder
<1> DEFINE vs == [b \in BookNames |-> Numbered(written[b])]
<1>3. FinalizeAs(ChartOf[case], vs)
  BY Zenon DEF Finalize
<1>4. TypeOK /\ case' = case /\ written' = written /\ last' = last /\ size' = size
  BY <1>2 DEF CaseInv
<1>5. CASE phase' = "refused"
  BY <1>2, <1>4, <1>5 DEF CaseInv, TypeOK, Closes
<1>6. CASE phase' # "refused"
  <2>1. /\ \A b \in BookNames : (\A v \in ToSet(vs[b]) : EntryOk(ChartOf[case][b], v))
                                /\ BalancesOk(Post(ChartOf[case][b], vs[b]))
        /\ phase' = "final" /\ books' = [b \in BookNames |-> Closed(Post(ChartOf[case][b], vs[b]))]
    BY <1>3, <1>6, Zenon DEF FinalizeAs
  <2>2. \A b \in BookNames : vs[b] = Numbered(written[b])
    OBVIOUS
  <2> HIDE DEF vs
  <2>3. ASSUME NEW b \in BookNames PROVE Kept(books'[b])
    <3>1. ChartOk(ChartOf[case][b]) /\ written[b] \in Seq(Entry)
      BY <1>1, ChartsAssumption DEF BookOrder
    <3>2. /\ \A v \in ToSet(Numbered(written[b])) : EntryOk(ChartOf[case][b], v)
          /\ BalancesOk(Post(ChartOf[case][b], Numbered(written[b])))
      BY <2>1, <2>2
    <3>3. Kept(Closed(Post(ChartOf[case][b], Numbered(written[b]))))
      BY <3>1, <3>2, FinalKept
    <3> QED BY <2>1, <2>2, <3>3
  <2>4. DOMAIN books' = BookNames'
    BY <1>2, <2>1
  <2>5. \A b \in BookNames' : Kept(books'[b])
    BY <1>2, <2>3
  <2> QED BY <1>2, <1>4, <2>1, <2>4, <2>5 DEF CaseInv, TypeOK
<1> QED BY <1>5, <1>6

\* What comes after does not touch the books.
LEMMA CaseInvRest == CaseInv /\ (PrintCase \/ Misprint \/ ReadBack \/ UNCHANGED vars) => CaseInv'
<1>1. ASSUME CaseInv, PrintCase PROVE CaseInv'
  BY <1>1 DEF PrintCase, CaseInv, TypeOK, Closes, BookNames, BookOrder
<1>2. ASSUME CaseInv, Misprint PROVE CaseInv'
  <2>1. UNCHANGED <<case, written, last, size, phase, books>> /\ DOMAIN pages' = DOMAIN pages /\ phase = "printed"
    BY <1>2 DEF Misprint
  <2> QED BY <1>2, <2>1 DEF CaseInv, TypeOK, Closes, BookNames, BookOrder
<1>3. ASSUME CaseInv, ReadBack PROVE CaseInv'
  BY <1>3 DEF ReadBack, CaseInv, TypeOK, Closes, BookNames, BookOrder
<1>4. ASSUME CaseInv, UNCHANGED vars PROVE CaseInv'
  BY <1>4 DEF vars, CaseInv, TypeOK, Closes, BookNames, BookOrder
<1> QED BY <1>1, <1>2, <1>3, <1>4

LEMMA CaseInvHolds == Spec => []CaseInv
<1>1. CaseInv /\ [Next]_vars => CaseInv'
  BY CaseInvWrite, CaseInvFinalize, CaseInvRest DEF Next
<1> QED BY CaseInvInit, <1>1, PTL DEF Spec

\* Whatever is written, every variable of the run has its type, the books are
\* those of the case, and every entry of a book has a day of the year and lines.
THEOREM CaseTypeOK == Spec => []TypeOK
<1>1. CaseInv => TypeOK
  BY DEF CaseInv
<1> QED BY <1>1, CaseInvHolds, PTL

\* Of every posted book of every case, whatever its chart and its entries: the
\* own money and the position differ by twice what funds are overspent.
THEOREM MakeUpMissesByOverspendHolds == Spec => []MakeUpMissesByOverspend
<1>1. CaseInv => MakeUpMissesByOverspend
  <2> SUFFICES ASSUME CaseInv, phase = "final", NEW b \in BookNames, NEW d \in {MidYear, FyEnd}
               PROVE  OwnNow(books[b], d) - NetPosition(books[b], d) = 2 * Overspent(books[b], d)
    BY DEF MakeUpMissesByOverspend, Posted
  <2>1. Base(books[b])
    BY DEF CaseInv, Closes, Kept
  <2> QED BY <2>1, MakeUpMisses
<1> QED BY <1>1, CaseInvHolds, PTL

\* Of every posted book of a trust: its receipts exceed its payments by what
\* transfers put into deposits, less what they took back.
THEOREM ReceiptsMeetPaymentsHolds == Spec => []ReceiptsMeetPayments
<1>1. CaseInv => ReceiptsMeetPayments
  <2> SUFFICES ASSUME CaseInv, phase = "final" PROVE ReceiptsMeetPayments
    BY DEF ReceiptsMeetPayments, Posted
  <2>1. ASSUME NEW b \in BookNames PROVE RpTotals(books[b])[1] - RpTotals(books[b])[2] = KeptBack(books[b])
    <3>1. Base(books[b])
      BY DEF CaseInv, Closes, Kept
    <3> QED BY <3>1, RpMeets
  <2> QED BY <2>1, Zenon DEF ReceiptsMeetPayments, KeptBack
<1> QED BY <1>1, CaseInvHolds, PTL

\* Of every posted book the close may be made of: it takes every head, the
\* drawings and the share-outs to nil, carries the own money forward level with
\* the other balances, and appropriates to the partners the whole result.
THEOREM CloseKeepsOwnMoneyHolds == Spec => []CloseKeepsOwnMoney
<1>1. CaseInv => CloseKeepsOwnMoney
  <2> SUFFICES ASSUME CaseInv, phase = "final" PROVE CloseKeepsOwnMoney
    BY DEF CloseKeepsOwnMoney, Posted
  <2>1. \A b \in BookNames : CloseKept(books[b])
    BY DEF CaseInv, Closes, Kept
  <2> QED BY <2>1, Zenon DEF CloseKeepsOwnMoney, CloseKept
<1> QED BY <1>1, CaseInvHolds, PTL
=============================================================================
