------------------------ MODULE LedgerRebuildProofs ------------------------
(***************************************************************************)
(* Proofs that compare two folds of one book.  A rebuild without what the  *)
(* last one refused finds the same books (RecomputeIsStable): leaving out  *)
(* the refused events leaves every other step of the fold as it was.       *)
(*                                                                         *)
(* Then what an arriving envelope changes in a device's books: first what  *)
(* the rows of a finished fold say of the events it was made of, then that *)
(* a device's rows only grow at the end, so that two rebuilds can be       *)
(* compared by what they were made of.                                     *)
(***************************************************************************)
EXTENDS LedgerProofs

-----------------------------------------------------------------------------
(* A sequence without the members of a set. *)

Thins(s, t, R) ==
    /\ IsInjective(t) /\ Range(t) = Range(s) \ R
    /\ \A i, j \in DOMAIN t : \A a, b \in DOMAIN s :
        s[a] = t[i] /\ s[b] = t[j] /\ i < j => a < b

LEMMA AppendRange ==
    ASSUME NEW S, NEW s \in Seq(S), NEW e \in S
    PROVE  Range(Append(s, e)) = Range(s) \cup {e}
<1>1. <<e>> \in Seq(S) /\ Range(<<e>>) = {e} /\ Append(s, e) = s \o <<e>>
  BY DEF Range
<1>2. Range(s \o <<e>>) = Range(s) \cup Range(<<e>>)
  BY ZenonT(30), <1>1, RangeOfConcat
<1> QED BY <1>1, <1>2

LEMMA ThinsNothing ==
    ASSUME NEW S, NEW s \in Seq(S), NEW t \in Seq(S), NEW R, Thins(s, t, R), Range(s) \subseteq R
    PROVE  t = <<>>
<1>1. Range(t) = {}
  BY DEF Thins
<1>2. Len(t) = 0
  <2>1. Len(t) \in Nat /\ (Len(t) # 0 => t[1] \in Range(t))
    BY DEF Range
  <2> QED BY <1>1, <2>1
<1> QED BY <1>2

LEMMA ThinsEmpty ==
    ASSUME NEW R
    PROVE  Thins(<<>>, <<>>, R)
<1>1. DOMAIN <<>> = {} /\ Range(<<>>) = {}
  BY DEF Range
<1> QED BY <1>1 DEF Thins, IsInjective

LEMMA ThinsConcat ==
    ASSUME NEW S, NEW R, NEW s \in Seq(S), NEW u \in Seq(S), NEW t \in Seq(S), NEW v \in Seq(S),
           Thins(s, t, R), Thins(u, v, R), Range(s) \cap Range(u) = {}
    PROVE  Thins(s \o u, t \o v, R)
<1> DEFINE su == s \o u
           tv == t \o v
<1>1. /\ su \in Seq(S) /\ Range(su) = Range(s) \cup Range(u)
      /\ tv \in Seq(S) /\ Range(tv) = Range(t) \cup Range(v)
  BY RangeOfConcat
<1>2. /\ Range(t) = Range(s) \ R /\ Range(v) = Range(u) \ R
      /\ IsInjective(t) /\ IsInjective(v)
  BY DEF Thins
<1>3. IsInjective(tv) /\ Range(tv) = Range(su) \ R
  <2>1. Range(t) \cap Range(v) = {}
    BY <1>2
  <2> QED BY <1>1, <1>2, <2>1, ConcatDistinct
<1>4. /\ Len(s) \in Nat /\ Len(t) \in Nat /\ Len(u) \in Nat /\ Len(v) \in Nat
      /\ DOMAIN su = 1..(Len(s) + Len(u)) /\ DOMAIN tv = 1..(Len(t) + Len(v))
      /\ DOMAIN s = 1..Len(s) /\ DOMAIN u = 1..Len(u)
      /\ DOMAIN t = 1..Len(t) /\ DOMAIN v = 1..Len(v)
  OBVIOUS
<1>5. /\ \A a \in DOMAIN su : a <= Len(s) => a \in DOMAIN s /\ su[a] = s[a] /\ su[a] \in Range(s)
      /\ \A a \in DOMAIN su : a > Len(s) =>
            a - Len(s) \in DOMAIN u /\ su[a] = u[a - Len(s)] /\ su[a] \in Range(u)
  BY <1>4 DEF Range
<1>6. /\ \A i \in DOMAIN tv : i <= Len(t) => i \in DOMAIN t /\ tv[i] = t[i] /\ tv[i] \in Range(t)
      /\ \A i \in DOMAIN tv : i > Len(t) =>
            i - Len(t) \in DOMAIN v /\ tv[i] = v[i - Len(t)] /\ tv[i] \in Range(v)
  BY <1>4 DEF Range
<1>7. ASSUME NEW i \in DOMAIN tv, NEW j \in DOMAIN tv, NEW a \in DOMAIN su, NEW b \in DOMAIN su,
             su[a] = tv[i], su[b] = tv[j], i < j
      PROVE  a < b
  <2>1. a \in Nat /\ b \in Nat /\ i \in Nat /\ j \in Nat
    BY <1>4
  <2>2. ASSUME NEW k \in DOMAIN tv, NEW c \in DOMAIN su, su[c] = tv[k]
        PROVE  k <= Len(t) <=> c <= Len(s)
    <3>1. k \in Nat /\ c \in Nat
      BY <1>4
    <3>2. k <= Len(t) => tv[k] \in Range(s)
      BY <1>2, <1>6
    <3>3. k > Len(t) => tv[k] \in Range(u)
      BY <1>2, <1>6
    <3>4. c <= Len(s) => tv[k] \in Range(s)
      BY <1>5, <2>2
    <3>5. c > Len(s) => tv[k] \in Range(u)
      BY <1>5, <2>2
    <3>6. ~(tv[k] \in Range(s) /\ tv[k] \in Range(u))
      OBVIOUS
    <3> HIDE DEF tv, su
    <3> QED BY <1>4, <3>1, <3>2, <3>3, <3>4, <3>5, <3>6
  <2>3. /\ i <= Len(t) <=> a <= Len(s)
        /\ j <= Len(t) <=> b <= Len(s)
    BY <1>7, <2>2
  <2>4. /\ i > Len(t) <=> a > Len(s)
        /\ j > Len(t) <=> b > Len(s)
    BY <1>4, <2>1, <2>3
  <2> HIDE DEF tv, su
  <2>5. CASE j <= Len(t)
    <3>1. i <= Len(t) /\ a <= Len(s) /\ b <= Len(s)
      BY <1>4, <1>7, <2>1, <2>3, <2>5
    <3>2. i \in DOMAIN t /\ j \in DOMAIN t /\ tv[i] = t[i] /\ tv[j] = t[j]
      BY <1>6, <2>5, <3>1
    <3>3. a \in DOMAIN s /\ b \in DOMAIN s /\ su[a] = s[a] /\ su[b] = s[b]
      BY <1>5, <3>1
    <3> QED BY <1>7, <3>2, <3>3 DEF Thins
  <2>6. CASE i > Len(t)
    <3>1. j > Len(t) /\ a > Len(s) /\ b > Len(s)
      BY <1>4, <1>7, <2>1, <2>4, <2>6
    <3>2. /\ i - Len(t) \in DOMAIN v /\ tv[i] = v[i - Len(t)]
          /\ j - Len(t) \in DOMAIN v /\ tv[j] = v[j - Len(t)]
      BY <1>6, <2>6, <3>1
    <3>3. /\ a - Len(s) \in DOMAIN u /\ su[a] = u[a - Len(s)]
          /\ b - Len(s) \in DOMAIN u /\ su[b] = u[b - Len(s)]
      BY <1>5, <3>1
    <3>4. i - Len(t) < j - Len(t)
      BY <1>4, <1>7, <2>1
    <3>5. a - Len(s) < b - Len(s)
      BY <1>7, <3>2, <3>3, <3>4 DEF Thins
    <3> QED BY <1>4, <2>1, <3>5
  <2>7. CASE i <= Len(t) /\ j > Len(t)
    <3>1. a <= Len(s) /\ b > Len(s)
      BY <2>3, <2>4, <2>7
    <3> QED BY <1>4, <2>1, <3>1
  <2> QED BY <1>4, <2>1, <2>5, <2>6, <2>7
<1> HIDE DEF su, tv
<1>8. Thins(su, tv, R)
  BY <1>3, <1>7 DEF Thins
<1> QED BY <1>8 DEF su, tv

LEMMA ThinsAppend ==
    ASSUME NEW S, NEW R, NEW s \in Seq(S), NEW t \in Seq(S), NEW e \in S,
           Thins(s, t, R), e \notin Range(s)
    PROVE  Thins(Append(s, e), IF e \in R THEN t ELSE Append(t, e), R)
<1> DEFINE u == <<e>>
           v == IF e \in R THEN <<>> ELSE <<e>>
<1>1. u \in Seq(S) /\ v \in Seq(S) /\ Range(u) = {e} /\ Range(v) = {e} \ R
  BY DEF Range
<1>2. DOMAIN u = {1} /\ DOMAIN v \subseteq {1}
  OBVIOUS
<1> HIDE DEF u, v
<1>3. Thins(u, v, R)
  BY <1>1, <1>2 DEF Thins, IsInjective
<1>4. Range(s) \cap Range(u) = {}
  BY <1>1
<1>5. Thins(s \o u, t \o v, R)
  BY <1>1, <1>3, <1>4, ThinsConcat
<1>6. s \o u = Append(s, e) /\ t \o v = IF e \in R THEN t ELSE Append(t, e)
  BY DEF u, v
<1> QED BY <1>5, <1>6

LEMMA ThinsTail ==
    ASSUME NEW S, NEW R, NEW s \in Seq(S), NEW t \in Seq(S), s # <<>>, IsInjective(s),
           Thins(s, t, R)
    PROVE  /\ Head(s) \in R => Thins(Tail(s), t, R)
           /\ Head(s) \notin R => t # <<>> /\ Head(t) = Head(s) /\ Thins(Tail(s), Tail(t), R)
<1>1. /\ Head(s) \in Range(s) /\ Tail(s) \in Seq(S) /\ IsInjective(Tail(s))
      /\ Range(Tail(s)) = Range(s) \ {Head(s)}
  BY TailDistinct
<1>2. /\ Len(s) \in Nat \ {0} /\ DOMAIN s = 1..Len(s) /\ Head(s) = s[1]
      /\ DOMAIN Tail(s) = 1..(Len(s) - 1)
      /\ \A i \in 1..(Len(s) - 1) : Tail(s)[i] = s[i + 1]
  OBVIOUS
<1>3. IsInjective(t) /\ Range(t) = Range(s) \ R /\ Len(t) \in Nat /\ DOMAIN t = 1..Len(t)
  BY DEF Thins
<1>4. \A i, j \in DOMAIN t : \A a, b \in DOMAIN s :
        s[a] = t[i] /\ s[b] = t[j] /\ i < j => a < b
  BY DEF Thins
<1>5. CASE Head(s) \in R
  <2>1. Range(t) = Range(Tail(s)) \ R
    BY <1>1, <1>3, <1>5
  <2>2. ASSUME NEW i \in DOMAIN t, NEW j \in DOMAIN t,
               NEW a \in DOMAIN Tail(s), NEW b \in DOMAIN Tail(s),
               Tail(s)[a] = t[i], Tail(s)[b] = t[j], i < j
        PROVE  a < b
    <3>1. a + 1 \in DOMAIN s /\ b + 1 \in DOMAIN s /\ s[a + 1] = t[i] /\ s[b + 1] = t[j]
      BY <1>2, <2>2
    <3>2. a + 1 < b + 1
      BY <1>4, <2>2, <3>1
    <3> QED BY <1>2, <3>2
  <2> QED BY <1>3, <1>5, <2>1, <2>2 DEF Thins
<1>6. CASE Head(s) \notin R
  <2>1. PICK k \in DOMAIN t : t[k] = s[1]
    BY <1>1, <1>2, <1>3, <1>6 DEF Range
  <2>2. 1 \in DOMAIN t /\ 1 \in DOMAIN s
    BY <1>2, <1>3, <2>1
  <2>3. PICK b \in DOMAIN s : s[b] = t[1]
    BY <1>3, <2>2 DEF Range
  <2>4. k = 1
    <3>1. SUFFICES ASSUME 1 < k PROVE FALSE
      BY <1>3, <2>1
    <3>2. b < 1
      BY <1>4, <2>1, <2>2, <2>3, <3>1
    <3> QED BY <1>2, <2>3, <3>2
  <2>5. t # <<>> /\ Head(t) = Head(s)
    BY <1>2, <1>3, <2>1, <2>2, <2>4
  <2>6. /\ Tail(t) \in Seq(S) /\ IsInjective(Tail(t)) /\ Range(Tail(t)) = Range(t) \ {Head(t)}
    BY <1>3, <2>5, TailDistinct
  <2>7. /\ DOMAIN Tail(t) = 1..(Len(t) - 1)
        /\ \A i \in 1..(Len(t) - 1) : Tail(t)[i] = t[i + 1]
    BY <2>5
  <2>8. Range(Tail(t)) = Range(Tail(s)) \ R
    BY <1>1, <1>3, <2>5, <2>6
  <2>9. ASSUME NEW i \in DOMAIN Tail(t), NEW j \in DOMAIN Tail(t),
               NEW a \in DOMAIN Tail(s), NEW c \in DOMAIN Tail(s),
               Tail(s)[a] = Tail(t)[i], Tail(s)[c] = Tail(t)[j], i < j
        PROVE  a < c
    <3>1. /\ a + 1 \in DOMAIN s /\ c + 1 \in DOMAIN s
          /\ s[a + 1] = Tail(s)[a] /\ s[c + 1] = Tail(s)[c]
      <4>1. a \in 1..(Len(s) - 1) /\ c \in 1..(Len(s) - 1)
        BY <1>2
      <4>2. a + 1 \in 1..Len(s) /\ c + 1 \in 1..Len(s)
        BY <1>2, <4>1
      <4> QED BY <1>2, <4>1, <4>2
    <3>2. /\ i + 1 \in DOMAIN t /\ j + 1 \in DOMAIN t /\ i + 1 < j + 1
          /\ t[i + 1] = Tail(t)[i] /\ t[j + 1] = Tail(t)[j]
      <4>1. i \in 1..(Len(t) - 1) /\ j \in 1..(Len(t) - 1)
        BY <2>7
      <4>2. Len(t) \in Nat /\ DOMAIN t = 1..Len(t)
        BY <1>3
      <4>3. i + 1 \in 1..Len(t) /\ j + 1 \in 1..Len(t)
        BY <4>1, <4>2
      <4>4. i < j
        BY <2>9
      <4>5. i + 1 < j + 1
        BY <4>1, <4>2, <4>4
      <4> QED BY <2>7, <4>1, <4>2, <4>3, <4>5
    <3>3. a + 1 < c + 1
      BY <1>4, <2>9, <3>1, <3>2
    <3> QED BY <1>2, <3>3
  <2> QED BY <1>6, <2>5, <2>6, <2>8, <2>9 DEF Thins
<1> QED BY <1>5, <1>6

-----------------------------------------------------------------------------
(* The rows and lines that an entry or a decision leaves, as operators of the *)
(* rows and lines it found.                                                    *)

Replaced(E, ev) ==
    [E EXCEPT ![ev.amends] =
        [E[ev.amends] EXCEPT !.status = "superseded", !.supersededBy = ev.id]]

Voided(E, ev) ==
    [E EXCEPT ![ev.reverses] = [E[ev.reverses] EXCEPT !.status = "voided", !.reversedBy = ev.id]]

Added(A, id, n) == With(A, id, n + (IF id \in DOMAIN A THEN A[id] ELSE 0))

EntriesWith(E, tray, ev) ==
    LET added == With(E, ev.id, NewRow(tray, ev))
        replaced == IF ev.amends = NoEntry THEN added ELSE Replaced(added, ev)
    IN  IF ev.reverses = NoEntry THEN replaced ELSE Voided(replaced, ev)

LinesWith(E, A, tray, ev) ==
    LET added == With(A, ev.id, IF StatusOf(ev, tray) = "posted" THEN 1 ELSE 0)
        was == With(E, ev.id, NewRow(tray, ev))[ev.amends]
    IN  IF ev.amends = NoEntry THEN added
        ELSE Added(added, ev.amends, IF IsCounted(was) THEN -1 ELSE 0)

LEMMA SupersedeRows ==
    ASSUME NEW events, Lawful(events), NEW st \in FoldState(events),
           NEW ev \in events, ev.type = "entry", ev.amends # NoEntry,
           ev.amends \in DOMAIN st.entries
    PROVE  LET new == Supersede(st, ev) IN
           /\ new.entries = Replaced(st.entries, ev)
           /\ new.applied = Added(st.applied, ev.amends,
                                  IF IsCounted(st.entries[ev.amends]) THEN -1 ELSE 0)
<1> DEFINE target == ev.amends
           changed == [st.entries[target] EXCEPT !.status = "superseded", !.supersededBy = ev.id]
           rows == [st.entries EXCEPT ![target] = changed]
           mid == [st EXCEPT !.entries = rows]
           n == IF IsCounted(st.entries[target]) THEN -1 ELSE 0
<1>1. /\ st.entries \in Partial(Ids, Row(events)) /\ st.applied \in Partial(Ids, Int)
      /\ ev.id \in Ids
  BY EventIds DEF FoldState
<1>2. target \in Ids /\ st.entries[target] \in Row(events)
  BY <1>1, PartialTypes
<1>3. changed \in Row(events)
  <2>1. "superseded" \in Statuses /\ ev.id \in 0..MaxHlc
    BY <1>1 DEF Ids, Statuses
  <2>2. PICK r \in Row(events) : r = st.entries[target]
    BY <1>2
  <2>3. [r EXCEPT !.status = "superseded", !.supersededBy = ev.id] \in Row(events)
    BY <2>1 DEF Row
  <2> QED BY <2>2, <2>3
<1>4. n \in Int
  OBVIOUS
<1>5. Supersede(st, ev) = Apply(mid, target, n)
  <2>1. [st EXCEPT !.entries[target].status = "superseded", !.entries[target].supersededBy = ev.id]
            = mid
    BY <1>1, <1>2 DEF FoldState
  <2> QED BY <2>1 DEF Supersede
<1>6. rows = Replaced(st.entries, ev)
  BY DEF Replaced
<1> HIDE DEF changed, n
<1>7. rows \in Partial(Ids, Row(events))
  BY <1>1, <1>3, ExceptIsPartial
<1> HIDE DEF rows
<1>8. mid \in FoldState(events) /\ mid.entries = rows /\ mid.applied = st.applied
  BY <1>7, EntriesIs
<1> HIDE DEF mid
<1>9. /\ Apply(mid, target, n).entries = mid.entries
      /\ Apply(mid, target, n).applied = Added(mid.applied, target, n)
  BY <1>2, <1>4, <1>8, ApplyIs DEF Added
<1> QED BY <1>5, <1>6, <1>8, <1>9 DEF n

LEMMA VoidRows ==
    ASSUME NEW events, Lawful(events), NEW st \in FoldState(events),
           NEW ev \in events, ev.type = "entry", ev.reverses # NoEntry,
           ev.reverses \in DOMAIN st.entries
    PROVE  LET new == Void(st, ev) IN
           new.entries = Voided(st.entries, ev) /\ new.applied = st.applied
<1> DEFINE target == ev.reverses
           changed == [st.entries[target] EXCEPT !.status = "voided", !.reversedBy = ev.id]
           rows == [st.entries EXCEPT ![target] = changed]
           mid == [st EXCEPT !.entries = rows]
<1>1. st.entries \in Partial(Ids, Row(events)) /\ ev.id \in Ids
  BY EventIds DEF FoldState
<1>2. target \in Ids /\ st.entries[target] \in Row(events)
  BY <1>1, PartialTypes
<1>3. changed \in Row(events)
  <2>1. "voided" \in Statuses /\ ev.id \in 0..MaxHlc
    BY <1>1 DEF Ids, Statuses
  <2>2. PICK r \in Row(events) : r = st.entries[target]
    BY <1>2
  <2>3. [r EXCEPT !.status = "voided", !.reversedBy = ev.id] \in Row(events)
    BY <2>1 DEF Row
  <2> QED BY <2>2, <2>3
<1>4. Void(st, ev) = mid
  <2>1. [st EXCEPT !.entries[target].status = "voided", !.entries[target].reversedBy = ev.id] = mid
    BY <1>1, <1>2 DEF FoldState
  <2> QED BY <2>1 DEF Void
<1>5. rows = Voided(st.entries, ev)
  BY DEF Voided
<1> HIDE DEF changed
<1>6. rows \in Partial(Ids, Row(events))
  BY <1>1, <1>3, ExceptIsPartial
<1> HIDE DEF rows
<1>7. mid.entries = rows /\ mid.applied = st.applied
  BY <1>6, EntriesIs
<1> QED BY <1>4, <1>5, <1>7

LEMMA JoinedRows ==
    ASSUME NEW events, Lawful(events), NEW tray, NEW st \in FoldState(events),
           BooksInv(tray, st.entries, st.applied),
           NEW ev \in events, ev.type = "entry", ev.id \notin DOMAIN st.entries,
           Dangling(st, ev) = NoEntry
    PROVE  LET new == Joined(tray, st, ev) IN
           /\ new.entries = EntriesWith(st.entries, tray, ev)
           /\ new.applied = LinesWith(st.entries, st.applied, tray, ev)
<1> DEFINE one == Accept(st, tray, ev)
           two == Supersede(one, ev)
           added == With(st.entries, ev.id, NewRow(tray, ev))
           lines == With(st.applied, ev.id, IF StatusOf(ev, tray) = "posted" THEN 1 ELSE 0)
<1>1. /\ DOMAIN st.applied = DOMAIN st.entries
      /\ ev.amends \in 0..MaxHlc /\ ev.reverses \in 0..MaxHlc
  BY EventIds DEF BooksInv, LinesOnce
<1>2. /\ ev.amends # NoEntry => ev.amends \in DOMAIN st.entries
      /\ ev.reverses # NoEntry => ev.reverses \in DOMAIN st.entries
  BY <1>1 DEF Dangling, Accepted, NoEntry
<1>3. one \in FoldState(events) /\ one.entries = added /\ one.applied = lines
  BY <1>1, AcceptIs
<1>4. DOMAIN one.entries = DOMAIN st.entries \cup {ev.id} /\ DOMAIN one.applied = DOMAIN one.entries
  BY <1>1, <1>3 DEF With
<1> HIDE DEF one
<1>5. /\ two \in FoldState(events) /\ DOMAIN two.entries = DOMAIN one.entries
      /\ two.entries = IF ev.amends = NoEntry THEN added ELSE Replaced(added, ev)
      /\ two.applied = IF ev.amends = NoEntry THEN lines
                       ELSE Added(lines, ev.amends, IF IsCounted(added[ev.amends]) THEN -1 ELSE 0)
  <2>1. CASE ev.amends = NoEntry
    <3>1. two = one
      BY <2>1 DEF Supersede
    <3> QED BY <1>3, <2>1, <3>1
  <2>2. CASE ev.amends # NoEntry
    <3>1. ev.amends \in DOMAIN one.entries
      BY <1>2, <1>4, <2>2
    <3>2. two \in FoldState(events) /\ DOMAIN two.entries = DOMAIN one.entries
      BY <1>3, <1>4, <2>2, <3>1, SupersedeIs
    <3>3. /\ two.entries = Replaced(one.entries, ev)
          /\ two.applied = Added(one.applied, ev.amends,
                                 IF IsCounted(one.entries[ev.amends]) THEN -1 ELSE 0)
      BY <1>3, <2>2, <3>1, SupersedeRows
    <3> QED BY <1>3, <2>2, <3>2, <3>3
  <2> QED BY <2>1, <2>2
<1> HIDE DEF two
<1>6. Joined(tray, st, ev) = Void(two, ev)
  BY DEF Joined, one, two
<1>7. /\ Void(two, ev).entries = IF ev.reverses = NoEntry THEN two.entries ELSE Voided(two.entries, ev)
      /\ Void(two, ev).applied = two.applied
  <2>1. CASE ev.reverses = NoEntry
    BY <2>1 DEF Void
  <2>2. CASE ev.reverses # NoEntry
    <3>1. ev.reverses \in DOMAIN two.entries
      BY <1>2, <1>4, <1>5, <2>2
    <3> QED BY <1>5, <2>2, <3>1, VoidRows
  <2> QED BY <2>1, <2>2
<1>8. Void(two, ev).entries = EntriesWith(st.entries, tray, ev)
  BY <1>5, <1>7 DEF EntriesWith
<1>9. Void(two, ev).applied = LinesWith(st.entries, st.applied, tray, ev)
  BY <1>5, <1>7 DEF LinesWith
<1> QED BY <1>6, <1>8, <1>9

DecidedStatus(tray, ev) ==
    IF ev.decision = "reject" THEN "rejected" ELSE IF ev.entry \in tray THEN "inTray" ELSE "posted"

DecidedReview(ev) == IF ev.decision = "approve" THEN "approved" ELSE "rejected"

EntriesDecided(E, tray, ev) ==
    [E EXCEPT ![ev.entry] =
        IF E[ev.entry].event.pending THEN [E[ev.entry] EXCEPT !.status = DecidedStatus(tray, ev)]
        ELSE [E[ev.entry] EXCEPT !.review = DecidedReview(ev)]]

LinesDecided(E, A, tray, ev) ==
    IF E[ev.entry].event.pending
    THEN Added(A, ev.entry,
               (IF ev.decision = "approve" /\ ev.entry \notin tray THEN 1 ELSE 0)
                   - (IF IsCounted(E[ev.entry]) THEN 1 ELSE 0))
    ELSE A

LEMMA DecideRows ==
    ASSUME NEW events, Lawful(events), NEW tray, NEW st \in FoldState(events),
           NEW ev \in events, ev.type = "decision", ev.entry \in DOMAIN st.entries,
           ev.by # st.entries[ev.entry].event.by
    PROVE  LET new == Decide(st, tray, ev) IN
           /\ new.entries = EntriesDecided(st.entries, tray, ev)
           /\ new.applied = LinesDecided(st.entries, st.applied, tray, ev)
           /\ new.refused = st.refused
<1> DEFINE id == ev.entry
           E == st.entries
           change == (IF ev.decision = "approve" /\ id \notin tray THEN 1 ELSE 0)
                         - (IF IsCounted(E[id]) THEN 1 ELSE 0)
           changed == IF E[id].event.pending THEN [E[id] EXCEPT !.status = DecidedStatus(tray, ev)]
                      ELSE [E[id] EXCEPT !.review = DecidedReview(ev)]
           rows == [E EXCEPT ![id] = changed]
           mid == [st EXCEPT !.entries = rows]
<1>1. id \in Ids /\ ev.decision \in Decisions
  BY EventIds
<1>2. E \in Partial(Ids, Row(events)) /\ E[id] \in Row(events)
  BY PartialTypes DEF FoldState
<1>3. DecidedStatus(tray, ev) \in Statuses /\ DecidedReview(ev) \in {"approved", "rejected"}
  BY DEF DecidedStatus, DecidedReview, Statuses
<1>4. changed \in Row(events)
  <2>1. PICK r \in Row(events) : r = E[id]
    BY <1>2
  <2>2. /\ [r EXCEPT !.status = DecidedStatus(tray, ev)] \in Row(events)
        /\ [r EXCEPT !.review = DecidedReview(ev)] \in Row(events)
    BY <1>3 DEF Row
  <2> QED BY <2>1, <2>2
<1>5. rows = EntriesDecided(E, tray, ev)
  BY DEF EntriesDecided
<1>6. change \in Int
  OBVIOUS
<1>7. CASE E[id].event.pending
  <2>1. Decide(st, tray, ev) = Apply(mid, id, change)
    <3>1. [st EXCEPT !.entries[id].status = DecidedStatus(tray, ev)] = mid
      BY <1>2, <1>7 DEF FoldState
    <3> QED BY <1>7, <3>1 DEF Decide, DecidedStatus
  <2> HIDE DEF changed
  <2>2. rows \in Partial(Ids, Row(events))
    BY <1>2, <1>4, ExceptIsPartial
  <2> HIDE DEF rows
  <2>3. /\ mid \in FoldState(events) /\ mid.entries = rows /\ mid.refused = st.refused
        /\ mid.applied = st.applied
    BY <2>2, EntriesIs
  <2> HIDE DEF mid
  <2>4. LinesDecided(E, st.applied, tray, ev) = Added(st.applied, id, change)
    BY <1>7 DEF LinesDecided
  <2> HIDE DEF change
  <2>5. /\ Apply(mid, id, change).entries = mid.entries
        /\ Apply(mid, id, change).refused = mid.refused
        /\ Apply(mid, id, change).applied = Added(mid.applied, id, change)
    BY <1>1, <1>6, <2>3, ApplyIs DEF Added
  <2> QED BY <1>5, <2>1, <2>3, <2>4, <2>5
<1>8. CASE ~E[id].event.pending
  <2>1. Decide(st, tray, ev) = mid
    <3>1. [st EXCEPT !.entries[id].review = DecidedReview(ev)] = mid
      BY <1>2, <1>8 DEF FoldState
    <3> QED BY <1>8, <3>1 DEF Decide, DecidedReview
  <2> HIDE DEF changed
  <2>2. rows \in Partial(Ids, Row(events))
    BY <1>2, <1>4, ExceptIsPartial
  <2> HIDE DEF rows
  <2>3. mid.entries = rows /\ mid.refused = st.refused /\ mid.applied = st.applied
    BY <2>2, EntriesIs
  <2> HIDE DEF mid
  <2>4. LinesDecided(E, st.applied, tray, ev) = st.applied
    BY <1>8 DEF LinesDecided
  <2> QED BY <1>5, <2>1, <2>3, <2>4
<1> QED BY <1>7, <1>8

-----------------------------------------------------------------------------
(* What becomes of the event whose turn it is. *)

Barred(events, st, ev) ==
    \/ ev.type = "entry" /\ LockedAt(events, ev.month, ev.hlc)
    \/ /\ Dangling(st, ev) = NoEntry
       /\ \/ ev.type = "entry" /\ Faulty(events, st, ev)
          \/ ev.type = "decision" /\ ev.by = st.entries[ev.entry].event.by

Waits(events, st, ev) == ~Barred(events, st, ev) /\ Dangling(st, ev) # NoEntry

Settles(events, st, ev) == ~Barred(events, st, ev) /\ Dangling(st, ev) = NoEntry

SameBooks(st, new) == new.entries = st.entries /\ new.applied = st.applied

LEMMA BarredIs ==
    ASSUME NEW events, Lawful(events), NEW tray, NEW st, FoldInv(events, tray, st),
           NEW ev \in events, Barred(events, st, ev)
    PROVE  LET new == Process(events, tray, st, ev) IN
           SamePlaces(st, new) /\ SameBooks(st, new) /\ new.refused = st.refused \cup {ev.id}
<1>1. ev.id \in Ids
  BY EventIds
<1>2. Process(events, tray, st, ev) = Refuse(st, ev)
  BY DEF Process, Barred, Decide, NoEntry
<1>3. LET new == Refuse(st, ev) IN
      SamePlaces(st, new) /\ SameBooks(st, new) /\ new.refused = st.refused \cup {ev.id}
  BY <1>1 DEF FoldInv, FoldState, SamePlaces, SameBooks, Refuse
<1> QED BY <1>2, <1>3

LEMMA WaitsIs ==
    ASSUME NEW events, Lawful(events), NEW tray, NEW st, FoldInv(events, tray, st),
           NEW ev \in events, Waits(events, st, ev)
    PROVE  LET new == Process(events, tray, st, ev)
               target == Dangling(st, ev) IN
           /\ target \in Ids
           /\ SameBooks(st, new) /\ new.refused = st.refused
           /\ new.left = st.left /\ new.todo = st.todo
           /\ new.waiting \in [Ids -> Seq(events)]
           /\ new.waiting[target] = Append(st.waiting[target], ev)
           /\ \A t \in Ids : t # target => new.waiting[t] = st.waiting[t]
<1> DEFINE target == Dangling(st, ev)
           line == Append(st.waiting[target], ev)
           rows == [st.waiting EXCEPT ![target] = line]
           new == [st EXCEPT !.waiting = rows]
<1>1. st \in FoldState(events) /\ st.waiting \in [Ids -> Seq(events)]
  BY DEF FoldInv, FoldState
<1>2. target \in Ids
  BY <1>1, DanglingIs DEF Waits
<1>3. line \in Seq(events)
  BY <1>1, <1>2
<1>4. Process(events, tray, st, ev) = Defer(st, ev, target)
  BY DEF Process, Waits, Barred
<1>5. Defer(st, ev, target) = new
  BY <1>1, <1>2 DEF Defer, FoldState
<1> HIDE DEF line
<1>6. /\ rows \in [Ids -> Seq(events)] /\ rows[target] = line
      /\ \A t \in Ids : t # target => rows[t] = st.waiting[t]
  BY <1>1, <1>2, <1>3
<1> HIDE DEF rows
<1>7. /\ new.waiting = rows /\ new.left = st.left
      /\ new.todo = st.todo /\ SameBooks(st, new) /\ new.refused = st.refused
  BY <1>1, <1>6 DEF FoldState, SameBooks
<1> HIDE DEF new, target
<1> QED BY <1>2, <1>4, <1>5, <1>6, <1>7 DEF line, target

\* What folds next when entry id has just been accepted.
Queue(st, id) == st.waiting[id] \o st.todo

LEMMA EntrySettles ==
    ASSUME NEW events, Lawful(events), NEW tray, NEW st, FoldInv(events, tray, st),
           NEW ev \in events, Taken(st, ev), Settles(events, st, ev), ev.type = "entry"
    PROVE  LET new == Process(events, tray, st, ev) IN
           /\ SameBooks(Joined(tray, st, ev), new)
           /\ DOMAIN new.entries = DOMAIN st.entries \cup {ev.id}
           /\ new.refused = st.refused /\ new.left = st.left
           /\ new.todo = Queue(st, ev.id)
           /\ new.waiting \in [Ids -> Seq(events)] /\ new.waiting[ev.id] = <<>>
           /\ \A t \in Ids : t # ev.id => new.waiting[t] = st.waiting[t]
<1> DEFINE id == ev.id
           mid == Joined(tray, st, ev)
           queue == Queue(mid, id)
           rows == [mid.waiting EXCEPT ![id] = <<>>]
           new == [mid EXCEPT !.todo = queue, !.waiting = rows]
<1>1. st \in FoldState(events) /\ BooksInv(tray, st.entries, st.applied) /\ id \in Ids
  BY EventIds DEF FoldInv
<1>2. Dangling(st, ev) = NoEntry /\ ~Faulty(events, st, ev)
  BY DEF Settles, Barred
<1>3. /\ mid \in FoldState(events) /\ SamePlaces(st, mid) /\ mid.refused = st.refused
      /\ DOMAIN mid.entries = DOMAIN st.entries \cup {ev.id}
  BY <1>1, <1>2, EntryJoins DEF Taken
<1>4. Process(events, tray, st, ev) = Release(mid, id)
  BY <1>2 DEF Process, Settles, Barred, Joined
<1> HIDE DEF mid
<1>5. /\ mid.waiting = st.waiting /\ mid.todo = st.todo /\ mid.left = st.left
      /\ st.waiting \in [Ids -> Seq(events)]
  BY <1>1, <1>3 DEF FoldState, SamePlaces
<1>6. Release(mid, id) = new
  BY <1>1, <1>3, <1>5 DEF Release, FoldState, Queue
<1>7. /\ rows \in [Ids -> Seq(events)] /\ rows[id] = <<>>
      /\ \A t \in Ids : t # id => rows[t] = st.waiting[t]
  BY <1>1, <1>5
<1>8. queue = Queue(st, id)
  BY <1>5 DEF Queue
<1> HIDE DEF queue, rows
<1>9. /\ SameBooks(mid, new) /\ new.refused = mid.refused /\ new.left = mid.left
      /\ new.todo = queue /\ new.waiting = rows
  BY <1>3 DEF FoldState, SameBooks
<1> HIDE DEF new, id
<1>10. DOMAIN new.entries = DOMAIN st.entries \cup {ev.id}
  BY <1>3, <1>9 DEF SameBooks
<1> QED BY <1>3, <1>4, <1>5, <1>6, <1>7, <1>8, <1>9, <1>10 DEF id, mid

LEMMA OtherSettles ==
    ASSUME NEW events, Lawful(events), NEW tray, NEW st, FoldInv(events, tray, st),
           NEW ev \in events, Settles(events, st, ev), ev.type # "entry"
    PROVE  LET new == Process(events, tray, st, ev) IN
           /\ SamePlaces(st, new) /\ DOMAIN new.entries = DOMAIN st.entries
           /\ new.refused = st.refused
           /\ new = IF ev.type = "decision" THEN Decide(st, tray, ev) ELSE st
<1>1. Process(events, tray, st, ev) = IF ev.type = "decision" THEN Decide(st, tray, ev) ELSE st
  BY DEF Process, Settles, Barred
<1>2. CASE ev.type = "decision"
  <2> DEFINE new == Decide(st, tray, ev)
             target == st.entries[ev.entry]
  <2>1. ev.entry \in DOMAIN st.entries
    BY <1>2, DanglingIs DEF Settles, FoldInv
  <2>2. ev.by # target.event.by
    BY <1>2 DEF Settles, Barred
  <2>3. SamePlaces(st, new) /\ DOMAIN new.entries = DOMAIN st.entries
    BY <1>2, <2>1, DecisionFolds DEF FoldInv
  <2>4. new.refused = st.refused
    BY <1>2, <2>1, <2>2, DecideRows DEF FoldInv
  <2> QED BY <1>1, <1>2, <2>3, <2>4
<1>3. CASE ev.type # "decision"
  BY <1>1, <1>3 DEF SamePlaces
<1> QED BY <1>2, <1>3

-----------------------------------------------------------------------------
(* A project() of 3 steps for each event comes to its end: an event folds at  *)
(* its turn, and once more for each of the targets it waited for.             *)

\* How often the event may still have to wait.
Debts(st, ev) ==
    IF ev.type = "entry" /\ ev.amends # NoEntry /\ ~Accepted(st, ev.amends) THEN 2
    ELSE IF Dangling(st, ev) # NoEntry THEN 1 ELSE 0

Waiting(st, ev) == \E t \in Ids : ev \in Range(st.waiting[t])

Turns(st, ev) ==
    IF ev \in st.left THEN 3
    ELSE IF ev \in Range(st.todo) THEN Debts(st, ev) + 1
    ELSE IF Waiting(st, ev) THEN Debts(st, ev) ELSE 0

LEMMA DebtsFall ==
    ASSUME NEW events, Lawful(events), NEW st \in FoldState(events), NEW new \in FoldState(events),
           NEW ev \in events, DOMAIN st.entries \subseteq DOMAIN new.entries
    PROVE  /\ Debts(st, ev) \in 0..2 /\ Debts(new, ev) <= Debts(st, ev)
           /\ Dangling(st, ev) \in DOMAIN new.entries => Debts(new, ev) < Debts(st, ev)
<1>1. Debts(st, ev) \in 0..2 /\ Debts(new, ev) \in 0..2
  BY DEF Debts
<1>2. new.entries \in Partial(Ids, Row(events))
  BY DEF FoldState
<1>3. NoEntry \notin DOMAIN new.entries
  <2>1. DOMAIN new.entries \subseteq Ids
    BY <1>2, PartialTypes
  <2> QED BY <2>1 DEF NoEntry, Ids
<1>4. Debts(new, ev) <= Debts(st, ev)
  BY DEF Debts, Dangling, Accepted, NoEntry
<1>5. ASSUME Dangling(st, ev) \in DOMAIN new.entries, Dangling(st, ev) # NoEntry
      PROVE  Debts(new, ev) < Debts(st, ev)
  BY <1>5 DEF Debts, Dangling, Accepted, NoEntry
<1> QED BY <1>1, <1>3, <1>4, <1>5

LEMMA EventTurns ==
    ASSUME NEW events, Lawful(events), NEW tray, NEW st, FoldInv(events, tray, st),
           NEW ev \in events, Taken(st, ev)
    PROVE  LET new == Process(events, tray, st, ev) IN
           /\ \A e \in events : e # ev => Turns(new, e) <= Turns(st, e)
           /\ Turns(new, ev) <= Debts(st, ev)
<1> DEFINE new == Process(events, tray, st, ev)
<1>1. /\ st \in FoldState(events) /\ PlacesInv(st) /\ FoldInv(events, tray, new)
      /\ new \in FoldState(events)
  BY EventFolds DEF FoldInv
<1>2. \A e \in events : Debts(st, e) \in 0..2 /\ Debts(new, e) \in 0..2
  BY <1>1, DebtsFall
<1>3. CASE Barred(events, st, ev)
  <2>1. SamePlaces(st, new) /\ DOMAIN new.entries = DOMAIN st.entries
    BY <1>3, BarredIs DEF SameBooks
  <2> HIDE DEF new
  <2>2. \A e : Dangling(new, e) = Dangling(st, e)
    BY <2>1, DanglingByDomain
  <2>3. \A e \in events : Turns(new, e) = Turns(st, e)
    BY <2>1, <2>2 DEF Turns, Debts, Waiting, SamePlaces, Accepted
  <2>4. Turns(st, ev) = 0
    BY DEF Turns, Taken, Waiting
  <2> QED BY <1>2, <2>3, <2>4 DEF new, Turns
<1>4. CASE Waits(events, st, ev)
  <2> DEFINE target == Dangling(st, ev)
  <2>1. /\ target \in Ids /\ SameBooks(st, new) /\ new.left = st.left /\ new.todo = st.todo
        /\ new.waiting[target] = Append(st.waiting[target], ev)
        /\ \A t \in Ids : t # target => new.waiting[t] = st.waiting[t]
    BY <1>4, WaitsIs
  <2>2. st.waiting[target] \in Seq(events)
    BY <1>1, <2>1 DEF FoldState
  <2>3. Range(new.waiting[target]) = Range(st.waiting[target]) \cup {ev}
    BY <2>1, <2>2, AppendRange
  <2> HIDE DEF new
  <2>4. \A e : Dangling(new, e) = Dangling(st, e)
    BY <2>1, DanglingByDomain DEF SameBooks
  <2>5. \A e : Debts(new, e) = Debts(st, e)
    BY <2>1, <2>4 DEF Debts, Accepted, SameBooks
  <2>6. \A e \in events : e # ev => (Waiting(new, e) <=> Waiting(st, e))
    BY <2>1, <2>3 DEF Waiting
  <2>7. \A e \in events : e # ev => Turns(new, e) = Turns(st, e)
    BY <2>1, <2>5, <2>6 DEF Turns
  <2>8. Turns(new, ev) <= Debts(st, ev)
    BY <1>2, <2>1, <2>5 DEF Turns, Taken
  <2>9. \A e \in events : Turns(new, e) <= Turns(st, e) \/ e = ev
    BY <1>2, <2>7 DEF Turns
  <2> QED BY <2>8, <2>9 DEF new
<1>5. CASE Settles(events, st, ev) /\ ev.type = "entry"
  <2> DEFINE id == ev.id
  <2>1. /\ DOMAIN new.entries = DOMAIN st.entries \cup {id} /\ new.left = st.left
        /\ new.todo = Queue(st, id) /\ new.waiting[id] = <<>>
        /\ \A t \in Ids : t # id => new.waiting[t] = st.waiting[t]
    BY <1>5, EntrySettles
  <2>2. /\ id \in Ids /\ st.waiting[id] \in Seq(events) /\ st.todo \in Seq(events)
    BY <1>1, EventIds DEF FoldState
  <2>3. Range(new.todo) = Range(st.waiting[id]) \cup Range(st.todo)
    BY <2>1, <2>2, RangeOfConcat DEF Queue
  <2>4. Range(new.waiting[id]) = {}
    BY <2>1 DEF Range
  <2> HIDE DEF new, id
  <2>5. \A e \in events : Debts(new, e) <= Debts(st, e)
    BY <1>1, <2>1, DebtsFall
  <2>6. \A e \in events : e \in Range(st.waiting[id]) => Debts(new, e) < Debts(st, e)
    BY <1>1, <2>1, <2>2, DebtsFall DEF PlacesInv
  <2>7. \A e \in events : Waiting(new, e) => Waiting(st, e)
    BY <2>1, <2>2, <2>4 DEF Waiting
  <2>8. \A e \in events : e \in Range(st.waiting[id]) =>
            e \notin st.left /\ e \notin Range(st.todo) /\ Waiting(st, e)
    BY <1>1, <2>2 DEF PlacesInv, Waiting
  <2>9. ASSUME NEW e \in events PROVE Turns(new, e) <= Turns(st, e)
    <3>1. CASE e \in st.left
      BY <2>1, <3>1 DEF Turns
    <3>2. CASE e \notin st.left /\ e \in Range(st.waiting[id])
      <4>1. Turns(st, e) = Debts(st, e) /\ Turns(new, e) = Debts(new, e) + 1
        BY <2>1, <2>3, <2>8, <3>2 DEF Turns
      <4> QED BY <1>2, <2>6, <3>2, <4>1
    <3>3. CASE e \notin st.left /\ e \notin Range(st.waiting[id]) /\ e \in Range(st.todo)
      BY <1>2, <2>1, <2>3, <2>5, <3>3 DEF Turns
    <3>4. CASE e \notin st.left /\ e \notin Range(st.waiting[id]) /\ e \notin Range(st.todo)
      <4>1. e \notin new.left /\ e \notin Range(new.todo)
        BY <2>1, <2>3, <3>4
      <4>2. Turns(new, e) = IF Waiting(new, e) THEN Debts(new, e) ELSE 0
        BY <4>1 DEF Turns
      <4>3. Turns(st, e) = IF Waiting(st, e) THEN Debts(st, e) ELSE 0
        BY <3>4 DEF Turns
      <4> QED BY <1>2, <2>5, <2>7, <4>2, <4>3
    <3> QED BY <3>1, <3>2, <3>3, <3>4
  <2>10. Turns(st, ev) = 0
    BY DEF Turns, Taken, Waiting
  <2>11. Turns(new, ev) <= Debts(st, ev)
    <3>1. Turns(new, ev) <= 0 /\ Turns(new, ev) \in Int
      BY <1>2, <2>9, <2>10 DEF Turns
    <3> QED BY <1>2, <3>1
  <2> QED BY <2>9, <2>11 DEF new
<1>6. CASE Settles(events, st, ev) /\ ev.type # "entry"
  <2>1. SamePlaces(st, new) /\ DOMAIN new.entries = DOMAIN st.entries
    BY <1>6, OtherSettles
  <2> HIDE DEF new
  <2>2. \A e : Dangling(new, e) = Dangling(st, e)
    BY <2>1, DanglingByDomain
  <2>3. \A e \in events : Turns(new, e) = Turns(st, e)
    BY <2>1, <2>2 DEF Turns, Debts, Waiting, SamePlaces, Accepted
  <2>4. Turns(st, ev) = 0
    BY DEF Turns, Taken, Waiting
  <2> QED BY <1>2, <2>3, <2>4 DEF new, Turns
<1> QED BY <1>3, <1>4, <1>5, <1>6 DEF Waits, Settles

LEMMA StepTurns ==
    ASSUME NEW events, Lawful(events), NEW tray, NEW st, FoldInv(events, tray, st), ~Ended(st)
    PROVE  LET new == Step(events, tray, st) IN
           /\ \A e \in events : Turns(new, e) <= Turns(st, e)
           /\ Turn(st) \in events /\ Turns(new, Turn(st)) < Turns(st, Turn(st))
<1> DEFINE ev == Turn(st)
           rest == Rest(st)
           new == Step(events, tray, st)
<1>1. /\ ev \in events /\ Taken(rest, ev) /\ FoldInv(events, tray, rest)
      /\ new = Process(events, tray, rest, ev)
      /\ rest.entries = st.entries /\ rest.waiting = st.waiting
      /\ st.todo # <<>> =>
            /\ ev \in Range(st.todo) /\ rest.left = st.left
            /\ Range(rest.todo) = Range(st.todo) \ {ev}
      /\ st.todo = <<>> =>
            /\ ev \in st.left /\ rest.todo = <<>> /\ rest.left = st.left \ {ev}
  <2>1. ev \in events /\ Taken(rest, ev) /\ FoldInv(events, tray, rest)
    BY TurnIs
  <2>2. new = Process(events, tray, rest, ev) /\ LeavesOnly(st, ev, rest)
    BY TurnIs
  <2> HIDE DEF new, rest, ev
  <2> QED BY <2>1, <2>2 DEF LeavesOnly
<1>2. st \in FoldState(events) /\ new \in FoldState(events) /\ PlacesInv(st)
  BY StepFolds DEF FoldInv
<1> HIDE DEF new, rest, ev
<1>3. \A e : Debts(rest, e) = Debts(st, e) /\ (Waiting(rest, e) <=> Waiting(st, e))
  <2>1. \A e : Dangling(rest, e) = Dangling(st, e)
    BY <1>1, DanglingByDomain
  <2> QED BY <1>1, <2>1 DEF Debts, Waiting, Accepted
<1>4. \A e \in events : e # ev => Turns(rest, e) = Turns(st, e)
  <2>1. \A e \in events : e # ev =>
            (e \in rest.left <=> e \in st.left) /\ (e \in Range(rest.todo) <=> e \in Range(st.todo))
    <3>1. CASE st.todo # <<>>
      BY <1>1, <3>1
    <3>2. CASE st.todo = <<>>
      BY <1>1, <3>2
    <3> QED BY <3>1, <3>2
  <2> QED BY <1>3, <2>1 DEF Turns
<1>5. /\ \A e \in events : e # ev => Turns(new, e) <= Turns(rest, e)
      /\ Turns(new, ev) <= Debts(rest, ev)
  BY <1>1, EventTurns
<1>6. \A e \in events : Debts(st, e) \in 0..2 /\ Debts(new, e) \in 0..2
  BY <1>2, DebtsFall
<1>7. \A e \in events : Turns(st, e) \in 0..3 /\ Turns(new, e) \in 0..3
  BY <1>6 DEF Turns
<1>8. Turns(st, ev) > Debts(st, ev)
  <2>1. CASE st.todo # <<>>
    <3>1. ev \in Range(st.todo) /\ ev \notin st.left
      BY <1>1, <1>2, <2>1 DEF PlacesInv
    <3> QED BY <1>1, <1>6, <3>1 DEF Turns
  <2>2. CASE st.todo = <<>>
    BY <1>1, <1>6, <2>2 DEF Turns
  <2> QED BY <2>1, <2>2
<1>9. Turns(new, ev) < Turns(st, ev)
  BY <1>1, <1>3, <1>5, <1>6, <1>7, <1>8
<1>10. ASSUME NEW e \in events PROVE Turns(new, e) <= Turns(st, e)
  BY <1>1, <1>4, <1>5, <1>7, <1>9
<1> QED BY <1>1, <1>9, <1>10 DEF new, ev

\* What is left to do, as a finite set that shrinks at every step.
Tokens(events, st) == {x \in events \X (1..3) : x[2] <= Turns(st, x[1])}

LEMMA TokensAtFirst ==
    ASSUME NEW events, Lawful(events), NEW st
    PROVE  /\ IsFiniteSet(Tokens(events, st)) /\ Cardinality(Tokens(events, st)) \in Nat
           /\ Cardinality(Tokens(events, st)) <= Steps(events)
<1>1. IsFiniteSet(events) /\ Cardinality(events) \in Nat
  BY EventsFinite, FS_CardinalityType
<1>2. IsFiniteSet(1..3) /\ Cardinality(1..3) = 3
  <2>1. ASSUME NEW n \in Nat PROVE IsFiniteSet(1..n) /\ Cardinality(1..n) = n
    <3>1. /\ IsFiniteSet(1..n)
          /\ Cardinality(1..n) = IF 1 > n THEN 0 ELSE n - 1 + 1
      BY FS_Interval
    <3> QED BY <3>1
  <2> QED BY <2>1
<1>3. /\ IsFiniteSet(events \X (1..3))
      /\ Cardinality(events \X (1..3)) = Cardinality(events) * Cardinality(1..3)
  BY <1>1, <1>2, FS_Product
<1>4. Cardinality(events \X (1..3)) = Steps(events)
  BY <1>1, <1>2, <1>3 DEF Steps
<1>5. Tokens(events, st) \subseteq events \X (1..3)
  BY DEF Tokens
<1>6. IsFiniteSet(Tokens(events, st)) /\ Cardinality(Tokens(events, st)) <= Steps(events)
  BY <1>3, <1>4, <1>5, FS_Subset
<1> QED BY <1>6, FS_CardinalityType

LEMMA TokensShrink ==
    ASSUME NEW events, Lawful(events), NEW tray, NEW st, FoldInv(events, tray, st), ~Ended(st)
    PROVE  LET new == Step(events, tray, st) IN
           Cardinality(Tokens(events, new)) < Cardinality(Tokens(events, st))
<1> DEFINE new == Step(events, tray, st)
           x == <<Turn(st), Turns(st, Turn(st))>>
<1>1. /\ \A e \in events : Turns(new, e) <= Turns(st, e)
      /\ Turn(st) \in events /\ Turns(new, Turn(st)) < Turns(st, Turn(st))
  BY StepTurns
<1>2. st \in FoldState(events) /\ new \in FoldState(events)
  BY StepFolds DEF FoldInv
<1> HIDE DEF new
<1>3. \A e \in events : Turns(st, e) \in 0..3 /\ Turns(new, e) \in 0..3
  <2>1. \A e \in events : Debts(st, e) \in 0..2 /\ Debts(new, e) \in 0..2
    BY <1>2, DebtsFall
  <2> QED BY <2>1 DEF Turns
<1>4. Turns(st, Turn(st)) \in 1..3
  BY <1>1, <1>3
<1>5. x \in Tokens(events, st) /\ x \notin Tokens(events, new)
  <2>1. x \in events \X (1..3) /\ x[1] = Turn(st) /\ x[2] = Turns(st, Turn(st))
    BY <1>1, <1>4
  <2> HIDE DEF x
  <2>2. x[2] <= Turns(st, x[1]) /\ ~(x[2] <= Turns(new, x[1]))
    BY <1>1, <1>3, <2>1
  <2> QED BY <2>1, <2>2 DEF Tokens
<1>6. Tokens(events, new) \subseteq Tokens(events, st)
  <2>1. ASSUME NEW y \in events \X (1..3), y[2] <= Turns(new, y[1])
        PROVE  y[2] <= Turns(st, y[1])
    <3>1. y[1] \in events /\ y[2] \in 1..3
      OBVIOUS
    <3> QED BY <1>1, <1>3, <2>1, <3>1
  <2> QED BY <2>1 DEF Tokens
<1>7. /\ IsFiniteSet(Tokens(events, st)) /\ Cardinality(Tokens(events, st)) \in Nat
      /\ Cardinality(Tokens(events, new)) \in Nat
  BY TokensAtFirst
<1>8. /\ Cardinality(Tokens(events, new)) <= Cardinality(Tokens(events, st))
      /\ Cardinality(Tokens(events, st)) = Cardinality(Tokens(events, new))
            => Tokens(events, st) = Tokens(events, new)
  BY <1>6, <1>7, FS_Subset
<1>9. Tokens(events, st) # Tokens(events, new)
  BY <1>5
<1>10. Cardinality(Tokens(events, new)) < Cardinality(Tokens(events, st))
  BY <1>7, <1>8, <1>9
<1> QED BY <1>10 DEF new

LEMMA EndedStays ==
    ASSUME NEW events, NEW tray, NEW K \in Nat, NEW f, RunOf(f, events, tray, K),
           NEW m \in 0..K, Ended(f[m])
    PROVE  \A n \in 0..K : n >= m => f[n] = f[m]
<1> DEFINE S == {n \in 0..K : n >= m => f[n] = f[m]}
<1>1. 0 \in S
  <2>1. 0 \in 0..K /\ (0 >= m => m = 0)
    OBVIOUS
  <2> QED BY <2>1
<1>2. ASSUME NEW n \in 1..K, n - 1 \in S PROVE n \in S
  <2>1. CASE n > m
    <3>1. n - 1 \in 0..K /\ n - 1 >= m
      BY <2>1
    <3>2. f[n - 1] = f[m] /\ f[n] = Step(events, tray, f[n - 1])
      BY <1>2, <3>1 DEF RunOf
    <3>3. f[n] = f[m]
      BY <3>2 DEF Step, Ended
    <3> QED BY <3>3
  <2>2. CASE ~(n > m)
    <3>1. n >= m => n = m
      BY <2>2
    <3> QED BY <3>1
  <2> QED BY <2>1, <2>2
<1> HIDE DEF S
<1>3. \A n \in 0..K : n \in S
  BY <1>1, <1>2, UpTo
<1> QED BY <1>3 DEF S

LEMMA RunEnds ==
    ASSUME NEW events, Lawful(events), NEW tray, NEW K \in Nat, Steps(events) <= K, NEW f,
           RunOf(f, events, tray, K)
    PROVE  Ended(f[Steps(events)])
<1> DEFINE N == Steps(events)
           card(n) == Cardinality(Tokens(events, f[n]))
           S == {n \in 0..K : Ended(f[n]) \/ card(n) <= N - n}
<1>1. N \in Nat
  BY EventsFinite
<1>2. \A n \in 0..K : card(n) \in Nat /\ card(n) <= N
  BY TokensAtFirst
<1> HIDE DEF N
<1>3. 0 \in S
  BY <1>1, <1>2
<1>4. ASSUME NEW n \in 1..K, n - 1 \in S PROVE n \in S
  <2>1. n - 1 \in 0..K /\ f[n] = Step(events, tray, f[n - 1])
    BY DEF RunOf
  <2>2. CASE Ended(f[n - 1])
    <3>1. f[n] = f[n - 1]
      BY <2>1, <2>2 DEF Step, Ended
    <3> QED BY <2>2, <3>1
  <2>3. CASE ~Ended(f[n - 1])
    <3>1. FoldInv(events, tray, f[n - 1])
      BY <2>1, RunFolds
    <3>2. card(n) < card(n - 1)
      BY <2>1, <2>3, <3>1, TokensShrink
    <3>3. card(n - 1) <= N - (n - 1)
      BY <1>4, <2>3
    <3> HIDE DEF card
    <3>4. card(n) <= N - n
      BY <1>1, <1>2, <2>1, <3>2, <3>3
    <3> QED BY <3>4
  <2> QED BY <2>2, <2>3
<1> HIDE DEF S
<1>5. \A n \in 0..K : n \in S
  BY <1>3, <1>4, UpTo
<1>6. N \in 0..K
  BY <1>1 DEF N
<1>7. SUFFICES ASSUME ~Ended(f[N]) PROVE FALSE
  BY DEF N
<1>8. card(N) <= 0
  <2> HIDE DEF card
  <2>1. card(N) <= N - N
    BY <1>5, <1>6, <1>7 DEF S
  <2> QED BY <1>1, <2>1
<1>9. FoldInv(events, tray, f[N])
  BY <1>6, RunFolds
<1>10. card(N) > Cardinality(Tokens(events, Step(events, tray, f[N])))
  BY <1>7, <1>9, TokensShrink
<1>11. Cardinality(Tokens(events, Step(events, tray, f[N]))) \in Nat
  BY TokensAtFirst
<1> HIDE DEF card
<1>12. card(N) \in Nat
  BY <1>2, <1>6
<1> QED BY <1>8, <1>10, <1>11, <1>12

-----------------------------------------------------------------------------
(* What becomes of an event for good: refused or left waiting for a target    *)
(* that never comes, or settled.                                              *)

InPlay(st, ev) == ev \in st.left \/ ev \in Range(st.todo) \/ Waiting(st, ev)

LEMMA EventFate ==
    ASSUME NEW events, Lawful(events), NEW tray, NEW st, FoldInv(events, tray, st),
           NEW ev \in events, Taken(st, ev)
    PROVE  LET new == Process(events, tray, st, ev) IN
           /\ \A e \in events : e # ev => (InPlay(new, e) <=> InPlay(st, e))
           /\ InPlay(new, ev) <=> Waits(events, st, ev)
           /\ Barred(events, st, ev) => new.refused = st.refused \cup {ev.id}
           /\ ~Barred(events, st, ev) => new.refused = st.refused
<1> DEFINE new == Process(events, tray, st, ev)
<1>1. st \in FoldState(events) /\ PlacesInv(st)
  BY DEF FoldInv
<1>2. ~InPlay(st, ev)
  BY DEF InPlay, Taken, Waiting
<1>3. CASE Barred(events, st, ev)
  <2>1. SamePlaces(st, new) /\ new.refused = st.refused \cup {ev.id}
    BY <1>3, BarredIs
  <2> HIDE DEF new
  <2>2. \A e : InPlay(new, e) <=> InPlay(st, e)
    BY <2>1 DEF InPlay, Waiting, SamePlaces
  <2> QED BY <1>2, <1>3, <2>1, <2>2 DEF new, Waits
<1>4. CASE Waits(events, st, ev)
  <2> DEFINE target == Dangling(st, ev)
  <2>1. /\ target \in Ids /\ new.left = st.left /\ new.todo = st.todo /\ new.refused = st.refused
        /\ new.waiting[target] = Append(st.waiting[target], ev)
        /\ \A t \in Ids : t # target => new.waiting[t] = st.waiting[t]
    BY <1>4, WaitsIs
  <2>2. st.waiting[target] \in Seq(events)
    BY <1>1, <2>1 DEF FoldState
  <2>3. Range(new.waiting[target]) = Range(st.waiting[target]) \cup {ev}
    BY <2>1, <2>2, AppendRange
  <2> HIDE DEF new, target
  <2>4. \A e \in events : e # ev => (Waiting(new, e) <=> Waiting(st, e))
    BY <2>1, <2>3 DEF Waiting
  <2>5. Waiting(new, ev)
    BY <2>1, <2>3 DEF Waiting
  <2>6. \A e \in events : e # ev => (InPlay(new, e) <=> InPlay(st, e))
    BY <2>1, <2>4 DEF InPlay
  <2> QED BY <1>4, <2>1, <2>5, <2>6 DEF new, InPlay, Waits
<1>5. CASE Settles(events, st, ev) /\ ev.type = "entry"
  <2> DEFINE id == ev.id
  <2>1. /\ new.left = st.left /\ new.refused = st.refused
        /\ new.todo = Queue(st, id) /\ new.waiting[id] = <<>>
        /\ \A t \in Ids : t # id => new.waiting[t] = st.waiting[t]
    BY <1>5, EntrySettles
  <2>2. /\ id \in Ids /\ st.waiting[id] \in Seq(events) /\ st.todo \in Seq(events)
    BY <1>1, EventIds DEF FoldState
  <2>3. Range(new.todo) = Range(st.waiting[id]) \cup Range(st.todo)
    BY <2>1, <2>2, RangeOfConcat DEF Queue
  <2>4. Range(new.waiting[id]) = {}
    BY <2>1 DEF Range
  <2> HIDE DEF new, id
  <2>5. ASSUME NEW e PROVE InPlay(new, e) <=> InPlay(st, e)
    <3>1. Waiting(new, e) \/ e \in Range(st.waiting[id]) <=> Waiting(st, e)
      BY <2>1, <2>2, <2>4 DEF Waiting
    <3> QED BY <2>1, <2>3, <3>1 DEF InPlay
  <2> QED BY <1>2, <1>5, <2>1, <2>5 DEF new, Waits, Settles
<1>6. CASE Settles(events, st, ev) /\ ev.type # "entry"
  <2>1. SamePlaces(st, new) /\ new.refused = st.refused
    BY <1>6, OtherSettles
  <2> HIDE DEF new
  <2>2. \A e : InPlay(new, e) <=> InPlay(st, e)
    BY <2>1 DEF InPlay, Waiting, SamePlaces
  <2> QED BY <1>2, <1>6, <2>1, <2>2 DEF new, Waits, Settles
<1> QED BY <1>3, <1>4, <1>5, <1>6 DEF Waits, Settles

LEMMA StepFate ==
    ASSUME NEW events, Lawful(events), NEW tray, NEW st, FoldInv(events, tray, st), ~Ended(st)
    PROVE  LET new == Step(events, tray, st)
               ev == Turn(st) IN
           /\ ev \in events /\ InPlay(st, ev)
           /\ \A e \in events : e # ev => (InPlay(new, e) <=> InPlay(st, e))
           /\ InPlay(new, ev) <=> Waits(events, Rest(st), ev)
           /\ Barred(events, Rest(st), ev) => new.refused = st.refused \cup {ev.id}
           /\ ~Barred(events, Rest(st), ev) => new.refused = st.refused
<1> DEFINE ev == Turn(st)
           rest == Rest(st)
           new == Step(events, tray, st)
<1>1. ev \in events /\ Taken(rest, ev) /\ FoldInv(events, tray, rest)
  BY TurnIs
<1>2. new = Process(events, tray, rest, ev) /\ LeavesOnly(st, ev, rest)
  BY TurnIs
<1> HIDE DEF ev, rest, new
<1>3. rest.waiting = st.waiting /\ rest.refused = st.refused
  BY <1>2 DEF LeavesOnly
<1>4. st.todo # <<>> =>
          /\ ev \in Range(st.todo) /\ rest.left = st.left
          /\ Range(rest.todo) = Range(st.todo) \ {ev}
  BY <1>2 DEF LeavesOnly
<1>5. st.todo = <<>> => ev \in st.left /\ rest.todo = <<>> /\ rest.left = st.left \ {ev}
  BY <1>2 DEF LeavesOnly
<1>6. /\ \A e \in events : e # ev => (InPlay(new, e) <=> InPlay(rest, e))
      /\ InPlay(new, ev) <=> Waits(events, rest, ev)
      /\ Barred(events, rest, ev) => new.refused = rest.refused \cup {ev.id}
      /\ ~Barred(events, rest, ev) => new.refused = rest.refused
  BY <1>1, <1>2, EventFate
<1>7. InPlay(st, ev) /\ \A e : e # ev => (InPlay(rest, e) <=> InPlay(st, e))
  <2>1. CASE st.todo # <<>>
    BY <1>3, <1>4, <2>1 DEF InPlay, Waiting
  <2>2. CASE st.todo = <<>>
    BY <1>3, <1>5, <2>2 DEF InPlay, Waiting
  <2> QED BY <2>1, <2>2
<1>8. /\ ev \in events /\ InPlay(st, ev)
      /\ \A e \in events : e # ev => (InPlay(new, e) <=> InPlay(st, e))
      /\ InPlay(new, ev) <=> Waits(events, rest, ev)
      /\ Barred(events, rest, ev) => new.refused = st.refused \cup {ev.id}
      /\ ~Barred(events, rest, ev) => new.refused = st.refused
  BY <1>1, <1>3, <1>6, <1>7
<1> QED BY <1>8 DEF ev, rest, new

\* What is in play has not been refused.
FateInv(events, st) == \A e \in events : InPlay(st, e) => e.id \notin st.refused

LEMMA StepKeepsFate ==
    ASSUME NEW events, Lawful(events), NEW tray, NEW st, FoldInv(events, tray, st),
           FateInv(events, st)
    PROVE  LET new == Step(events, tray, st) IN
           /\ FateInv(events, new) /\ st.refused \subseteq new.refused
           /\ \A e \in events : ~InPlay(st, e) =>
                ~InPlay(new, e) /\ (e.id \in new.refused => e.id \in st.refused)
<1> DEFINE new == Step(events, tray, st)
           ev == Turn(st)
<1>1. CASE Ended(st)
  BY <1>1 DEF Step, Ended
<1>2. CASE ~Ended(st)
  <2>1. /\ ev \in events /\ InPlay(st, ev)
        /\ \A e \in events : e # ev => (InPlay(new, e) <=> InPlay(st, e))
        /\ InPlay(new, ev) <=> Waits(events, Rest(st), ev)
        /\ Barred(events, Rest(st), ev) => new.refused = st.refused \cup {ev.id}
        /\ ~Barred(events, Rest(st), ev) => new.refused = st.refused
    BY <1>2, StepFate
  <2>2. \A e, f \in events : e.id = f.id => e = f
    BY DEF Lawful
  <2> HIDE DEF new, ev
  <2>3. FateInv(events, new)
    BY <2>1, <2>2 DEF FateInv, Waits
  <2>4. st.refused \subseteq new.refused
    BY <2>1
  <2>5. \A e \in events : ~InPlay(st, e) =>
            ~InPlay(new, e) /\ (e.id \in new.refused => e.id \in st.refused)
    BY <2>1, <2>2
  <2> QED BY <2>3, <2>4, <2>5 DEF new
<1> QED BY <1>1, <1>2

LEMMA EmptyFate ==
    ASSUME NEW events
    PROVE  FateInv(events, Empty(events))
BY DEF FateInv, Empty

\* The events that never fold: refused, or waiting still at the end.
Fallen(events, st) == {e \in events : e.id \in st.refused \/ InPlay(st, e)}

LEMMA FateIsFinal ==
    ASSUME NEW events, Lawful(events), NEW tray, NEW K \in Nat, NEW f,
           RunOf(f, events, tray, K), NEW n \in 1..K, ~Ended(f[n - 1])
    PROVE  LET ev == Turn(f[n - 1])
               rest == Rest(f[n - 1]) IN
           /\ Settles(events, rest, ev) => ev \notin Fallen(events, f[K])
           /\ Barred(events, rest, ev) => ev \in Fallen(events, f[K])
<1> DEFINE ev == Turn(f[n - 1])
           rest == Rest(f[n - 1])
           S == {m \in 0..K : FateInv(events, f[m])}
           T == {m \in 0..K : m >= n =>
                    /\ f[n].refused \subseteq f[m].refused
                    /\ \A e \in events : ~InPlay(f[n], e) =>
                        ~InPlay(f[m], e) /\ (e.id \in f[m].refused => e.id \in f[n].refused)}
<1>1. \A m \in 0..K : FoldInv(events, tray, f[m])
  BY RunFolds
<1>2. \A m \in 1..K : m - 1 \in 0..K /\ m \in 0..K /\ f[m] = Step(events, tray, f[m - 1])
  BY DEF RunOf
<1>3. \A m \in 0..K : m \in S
  <2>1. 0 \in S
    BY EmptyFate DEF RunOf
  <2>2. ASSUME NEW m \in 1..K, m - 1 \in S PROVE m \in S
    <3>1. FateInv(events, f[m - 1]) /\ FoldInv(events, tray, f[m - 1])
      BY <1>1, <1>2, <2>2
    <3>2. FateInv(events, f[m])
      BY <1>2, <3>1, StepKeepsFate
    <3> QED BY <1>2, <3>2
  <2> HIDE DEF S
  <2> QED BY <2>1, <2>2, UpTo
<1>4. \A m \in 0..K : m \in T
  <2>1. 0 \in T
    BY DEF T
  <2>2. ASSUME NEW m \in 1..K, m - 1 \in T PROVE m \in T
    <3>1. CASE m > n
      <4>1. /\ f[n].refused \subseteq f[m - 1].refused
            /\ \A e \in events : ~InPlay(f[n], e) =>
                ~InPlay(f[m - 1], e) /\ (e.id \in f[m - 1].refused => e.id \in f[n].refused)
        BY <1>2, <2>2, <3>1
      <4>2. FateInv(events, f[m - 1]) /\ FoldInv(events, tray, f[m - 1])
        BY <1>1, <1>2, <1>3
      <4>3. /\ f[m - 1].refused \subseteq f[m].refused
            /\ \A e \in events : ~InPlay(f[m - 1], e) =>
                ~InPlay(f[m], e) /\ (e.id \in f[m].refused => e.id \in f[m - 1].refused)
        BY <1>2, <4>2, StepKeepsFate
      <4> QED BY <1>2, <4>1, <4>3
    <3>2. CASE ~(m > n)
      <4>1. m >= n => m = n
        BY <3>2
      <4> QED BY <1>2, <4>1
    <3> QED BY <3>1, <3>2
  <2> HIDE DEF T
  <2> QED BY <2>1, <2>2, UpTo
<1>5. K \in 0..K /\ K >= n
  OBVIOUS
<1>6. /\ f[n].refused \subseteq f[K].refused
      /\ \A e \in events : ~InPlay(f[n], e) =>
            ~InPlay(f[K], e) /\ (e.id \in f[K].refused => e.id \in f[n].refused)
  BY <1>4, <1>5
<1>7. FateInv(events, f[n - 1]) /\ FoldInv(events, tray, f[n - 1])
  BY <1>1, <1>2, <1>3
<1> HIDE DEF S, T
<1>8. /\ ev \in events /\ InPlay(f[n - 1], ev)
      /\ InPlay(f[n], ev) <=> Waits(events, rest, ev)
      /\ Barred(events, rest, ev) => f[n].refused = f[n - 1].refused \cup {ev.id}
      /\ ~Barred(events, rest, ev) => f[n].refused = f[n - 1].refused
  BY <1>2, <1>7, StepFate
<1> HIDE DEF ev, rest
<1>9. Settles(events, rest, ev) => ev \notin Fallen(events, f[K])
  BY <1>6, <1>7, <1>8 DEF Settles, Waits, FateInv, Fallen
<1>10. Barred(events, rest, ev) => ev \in Fallen(events, f[K])
  BY <1>6, <1>8 DEF Fallen
<1> QED BY <1>9, <1>10 DEF ev, rest

-----------------------------------------------------------------------------
(* The fold of a book and the fold of the same book without some events that  *)
(* never took part in it: where the first takes its turn with an event that   *)
(* was left out the second stands still, and else they do the same.           *)

\* What is left out is no lock or unlock, and the two trays agree on the rest.
LeftOut(events, gone, tray, tray2) ==
    /\ gone \subseteq events
    /\ \A e \in gone : e.type \in {"entry", "decision"}
    /\ \A e \in events \ gone : e.id \in tray <=> e.id \in tray2

Matches(st, st2, gone) ==
    /\ SameBooks(st, st2)
    /\ st2.left = st.left \ gone
    /\ Thins(st.todo, st2.todo, gone)
    /\ \A t \in Ids : Thins(st.waiting[t], st2.waiting[t], gone)

LEMMA SameLocks ==
    ASSUME NEW events, NEW gone, \A e \in gone : e.type \in {"entry", "decision"}
    PROVE  /\ \A m, h : LockedAt(events \ gone, m, h) = LockedAt(events, m, h)
           /\ \A m : LockedNow(events \ gone, m) = LockedNow(events, m)
           /\ \A m : OfMonth(events \ gone, m) = OfMonth(events, m)
<1>1. \A m : OfMonth(events \ gone, m) = OfMonth(events, m)
  BY DEF OfMonth
<1>2. ASSUME NEW m, NEW h PROVE LockedAt(events \ gone, m, h) = LockedAt(events, m, h)
  BY <1>1 DEF LockedAt
<1>3. ASSUME NEW m PROVE LockedNow(events \ gone, m) = LockedNow(events, m)
  BY <1>1 DEF LockedNow
<1> QED BY <1>1, <1>2, <1>3

LEMMA SameFate ==
    ASSUME NEW events, NEW gone, \A e \in gone : e.type \in {"entry", "decision"},
           NEW st, NEW st2, SameBooks(st, st2), NEW ev
    PROVE  /\ Dangling(st2, ev) = Dangling(st, ev)
           /\ Barred(events \ gone, st2, ev) <=> Barred(events, st, ev)
           /\ Waits(events \ gone, st2, ev) <=> Waits(events, st, ev)
           /\ Settles(events \ gone, st2, ev) <=> Settles(events, st, ev)
<1>1. Dangling(st2, ev) = Dangling(st, ev)
  BY DanglingByDomain DEF SameBooks
<1>2. \A m, h : LockedAt(events \ gone, m, h) = LockedAt(events, m, h)
  BY SameLocks
<1>3. BadAmendment(events \ gone, st2, ev) <=> BadAmendment(events, st, ev)
  BY <1>2 DEF BadAmendment, IsRedate, SameBooks
<1>4. BadReversal(st2, ev) <=> BadReversal(st, ev)
  BY DEF BadReversal, SameBooks
<1>5. Faulty(events \ gone, st2, ev) <=> Faulty(events, st, ev)
  BY <1>3, <1>4 DEF Faulty
<1>6. Barred(events \ gone, st2, ev) <=> Barred(events, st, ev)
  BY <1>1, <1>2, <1>5 DEF Barred, SameBooks
<1> QED BY <1>1, <1>6 DEF Waits, Settles

\* An event that was left out folds only in the first fold.
LEMMA GoneMatches ==
    ASSUME NEW events, Lawful(events), NEW gone, NEW tray, NEW tray2,
           LeftOut(events, gone, tray, tray2),
           NEW st, FoldInv(events, tray, st), NEW st2, FoldInv(events \ gone, tray2, st2),
           Matches(st, st2, gone),
           NEW ev \in events, Taken(st, ev), ev \in gone, ~Settles(events, st, ev)
    PROVE  Matches(Process(events, tray, st, ev), st2, gone)
<1> DEFINE new == Process(events, tray, st, ev)
<1>1. CASE Barred(events, st, ev)
  <2>1. SamePlaces(st, new) /\ SameBooks(st, new)
    BY <1>1, BarredIs
  <2> HIDE DEF new
  <2>2. Matches(new, st2, gone)
    BY <2>1 DEF Matches, SamePlaces, SameBooks
  <2> QED BY <2>2 DEF new
<1>2. CASE Waits(events, st, ev)
  <2> DEFINE target == Dangling(st, ev)
  <2>1. /\ target \in Ids /\ SameBooks(st, new) /\ new.left = st.left /\ new.todo = st.todo
        /\ new.waiting[target] = Append(st.waiting[target], ev)
        /\ \A t \in Ids : t # target => new.waiting[t] = st.waiting[t]
    BY <1>2, WaitsIs
  <2> HIDE DEF new, target
  <2>2. st.waiting[target] \in Seq(events) /\ st2.waiting[target] \in Seq(events)
    <3>1. st.waiting[target] \in Seq(events) /\ st2.waiting[target] \in Seq(events \ gone)
      BY <2>1 DEF FoldInv, FoldState
    <3> QED BY <3>1
  <2>3. ev \notin Range(st.waiting[target]) /\ Thins(st.waiting[target], st2.waiting[target], gone)
    BY <2>1 DEF Taken, Matches
  <2>4. Thins(new.waiting[target], st2.waiting[target], gone)
    BY <2>1, <2>2, <2>3, ThinsAppend
  <2>5. Matches(new, st2, gone)
    BY <2>1, <2>4 DEF Matches, SameBooks
  <2> QED BY <2>5 DEF new
<1> QED BY <1>1, <1>2 DEF Waits, Settles

\* Any other event folds in both, and leaves them as alike as they were.
LEMMA SameBooksJoin ==
    ASSUME NEW events, Lawful(events), NEW gone, NEW tray, NEW tray2,
           LeftOut(events, gone, tray, tray2),
           NEW st, FoldInv(events, tray, st), NEW st2, FoldInv(events \ gone, tray2, st2),
           SameBooks(st, st2),
           NEW ev \in events \ gone, Taken(st, ev), Taken(st2, ev), Settles(events, st, ev)
    PROVE  SameBooks(Process(events, tray, st, ev), Process(events \ gone, tray2, st2, ev))
<1> DEFINE less == events \ gone
           new == Process(events, tray, st, ev)
           new2 == Process(less, tray2, st2, ev)
<1>1. Lawful(less) /\ ev \in less
  <2>1. less \in SUBSET events
    OBVIOUS
  <2> QED BY <2>1, LawfulPart
<1>2. Settles(less, st2, ev)
  BY SameFate DEF LeftOut
<1>3. st.entries = st2.entries /\ st.applied = st2.applied
  BY DEF SameBooks
<1>4. /\ st \in FoldState(events) /\ BooksInv(tray, st.entries, st.applied)
      /\ st2 \in FoldState(less) /\ BooksInv(tray2, st2.entries, st2.applied)
  BY DEF FoldInv
<1>5. Dangling(st, ev) = NoEntry /\ Dangling(st2, ev) = NoEntry
  BY <1>2 DEF Settles
<1>6. ev.id \in tray <=> ev.id \in tray2
  BY DEF LeftOut
<1>7. CASE ev.type = "entry"
  <2>1. SameBooks(Joined(tray, st, ev), new)
    BY <1>7, EntrySettles
  <2>2. SameBooks(Joined(tray2, st2, ev), new2)
    BY <1>1, <1>2, <1>7, EntrySettles
  <2>3. /\ Joined(tray, st, ev).entries = EntriesWith(st.entries, tray, ev)
        /\ Joined(tray, st, ev).applied = LinesWith(st.entries, st.applied, tray, ev)
    BY <1>4, <1>5, <1>7, JoinedRows DEF Taken
  <2>4. /\ Joined(tray2, st2, ev).entries = EntriesWith(st2.entries, tray2, ev)
        /\ Joined(tray2, st2, ev).applied = LinesWith(st2.entries, st2.applied, tray2, ev)
    BY <1>1, <1>4, <1>5, <1>7, JoinedRows DEF Taken
  <2>5. StatusOf(ev, tray) = StatusOf(ev, tray2) /\ NewRow(tray, ev) = NewRow(tray2, ev)
    BY <1>6 DEF StatusOf, NewRow
  <2>6. /\ EntriesWith(st.entries, tray, ev) = EntriesWith(st2.entries, tray2, ev)
        /\ LinesWith(st.entries, st.applied, tray, ev)
              = LinesWith(st2.entries, st2.applied, tray2, ev)
    BY <1>3, <2>5 DEF EntriesWith, LinesWith
  <2> HIDE DEF new, new2
  <2>7. SameBooks(new, new2)
    BY <2>1, <2>2, <2>3, <2>4, <2>6 DEF SameBooks
  <2> QED BY <2>7 DEF new, new2
<1>8. CASE ev.type = "decision"
  <2>1. new = Decide(st, tray, ev)
    BY <1>8, OtherSettles
  <2>2. new2 = Decide(st2, tray2, ev)
    BY <1>1, <1>2, <1>8, OtherSettles
  <2>3. ev.entry \in DOMAIN st.entries
    BY <1>4, <1>5, <1>8, DanglingIs
  <2>4. ev.entry \in DOMAIN st2.entries
    BY <1>3, <2>3
  <2>5. ev.by # st.entries[ev.entry].event.by /\ ev.by # st2.entries[ev.entry].event.by
    BY <1>2, <1>8 DEF Settles, Barred
  <2>6. /\ new.entries = EntriesDecided(st.entries, tray, ev)
        /\ new.applied = LinesDecided(st.entries, st.applied, tray, ev)
    BY <1>4, <1>8, <2>1, <2>3, <2>5, DecideRows
  <2>7. /\ new2.entries = EntriesDecided(st2.entries, tray2, ev)
        /\ new2.applied = LinesDecided(st2.entries, st2.applied, tray2, ev)
    BY <1>1, <1>4, <1>8, <2>2, <2>4, <2>5, DecideRows
  <2>8. ev.entry \in tray <=> ev.entry \in tray2
    <3>1. st2.entries \in Partial(Ids, Row(less))
      BY <1>4 DEF FoldState
    <3>2. st2.entries[ev.entry] \in Row(less)
      BY <2>4, <3>1, PartialTypes
    <3>3. st2.entries[ev.entry].event \in less /\ st2.entries[ev.entry].event.id = ev.entry
      BY <1>4, <2>4, <3>2 DEF BooksInv, RowsNamed, Row
    <3> QED BY <3>3 DEF LeftOut
  <2>9. /\ EntriesDecided(st.entries, tray, ev) = EntriesDecided(st2.entries, tray2, ev)
        /\ LinesDecided(st.entries, st.applied, tray, ev)
              = LinesDecided(st2.entries, st2.applied, tray2, ev)
    BY <1>3, <2>8 DEF EntriesDecided, LinesDecided, DecidedStatus
  <2> QED BY <2>6, <2>7, <2>9 DEF SameBooks
<1>9. CASE ev.type \notin {"entry", "decision"}
  <2>1. new = st
    BY <1>9, OtherSettles
  <2>2. new2 = st2
    BY <1>1, <1>2, <1>9, OtherSettles
  <2> QED BY <1>3, <2>1, <2>2 DEF SameBooks
<1> QED BY <1>7, <1>8, <1>9

LEMMA FoldsAlike ==
    ASSUME NEW events, Lawful(events), NEW gone, NEW tray, NEW tray2,
           LeftOut(events, gone, tray, tray2),
           NEW st, FoldInv(events, tray, st), NEW st2, FoldInv(events \ gone, tray2, st2),
           Matches(st, st2, gone),
           NEW ev \in events \ gone, Taken(st, ev), Taken(st2, ev), ~Barred(events, st, ev)
    PROVE  LET new == Process(events, tray, st, ev)
               new2 == Process(events \ gone, tray2, st2, ev) IN
           Matches(new, new2, gone) /\ new2.refused = st2.refused
<1> DEFINE less == events \ gone
           new == Process(events, tray, st, ev)
           new2 == Process(less, tray2, st2, ev)
<1>1. Lawful(less) /\ ev \in less
  <2>1. less \in SUBSET events
    OBVIOUS
  <2> QED BY <2>1, LawfulPart
<1>2. SameBooks(st, st2)
  BY DEF Matches
<1>3. /\ Dangling(st2, ev) = Dangling(st, ev)
      /\ Waits(less, st2, ev) <=> Waits(events, st, ev)
      /\ Settles(less, st2, ev) <=> Settles(events, st, ev)
  BY <1>2, SameFate DEF LeftOut
<1>4. /\ st \in FoldState(events) /\ PlacesInv(st)
      /\ st2 \in FoldState(less) /\ PlacesInv(st2)
  BY DEF FoldInv
<1>5. /\ st.todo \in Seq(events) /\ st2.todo \in Seq(events)
      /\ \A t \in Ids : st.waiting[t] \in Seq(events) /\ st2.waiting[t] \in Seq(events)
  <2>1. /\ st.todo \in Seq(events) /\ st2.todo \in Seq(less)
        /\ st.waiting \in [Ids -> Seq(events)] /\ st2.waiting \in [Ids -> Seq(less)]
    BY <1>4 DEF FoldState
  <2>2. \A s : s \in Seq(less) => s \in Seq(events)
    OBVIOUS
  <2> QED BY <2>1, <2>2
<1>6. CASE Waits(events, st, ev)
  <2> DEFINE target == Dangling(st, ev)
  <2>1. /\ target \in Ids /\ SameBooks(st, new) /\ new.left = st.left /\ new.todo = st.todo
        /\ new.waiting[target] = Append(st.waiting[target], ev)
        /\ \A t \in Ids : t # target => new.waiting[t] = st.waiting[t]
    BY <1>6, WaitsIs
  <2>2. /\ SameBooks(st2, new2) /\ new2.left = st2.left /\ new2.todo = st2.todo
        /\ new2.refused = st2.refused
        /\ new2.waiting[target] = Append(st2.waiting[target], ev)
        /\ \A t \in Ids : t # target => new2.waiting[t] = st2.waiting[t]
    <3>1. /\ Waits(less, st2, ev) /\ FoldInv(less, tray2, st2) /\ Lawful(less) /\ ev \in less
          /\ Dangling(st2, ev) = target
      BY <1>1, <1>3, <1>6
    <3> HIDE DEF less, target
    <3> QED BY <3>1, WaitsIs
  <2> HIDE DEF new, new2, target
  <2>3. ev \notin Range(st.waiting[target]) /\ Thins(st.waiting[target], st2.waiting[target], gone)
    BY <2>1 DEF Taken, Matches
  <2>4. Thins(new.waiting[target], new2.waiting[target], gone)
    BY <1>5, <2>1, <2>2, <2>3, ThinsAppend
  <2>5. Matches(new, new2, gone)
    BY <2>1, <2>2, <2>4 DEF Matches, SameBooks
  <2> QED BY <2>2, <2>5 DEF new, new2
<1>7. CASE Settles(events, st, ev)
  <2>1. SameBooks(new, new2)
    BY <1>2, <1>7, SameBooksJoin
  <2>2. CASE ev.type = "entry"
    <3> DEFINE id == ev.id
    <3>1. /\ new.left = st.left /\ new.todo = Queue(st, id) /\ new.waiting[id] = <<>>
          /\ \A t \in Ids : t # id => new.waiting[t] = st.waiting[t]
      BY <1>7, <2>2, EntrySettles
    <3>2. /\ new2.left = st2.left /\ new2.todo = Queue(st2, id) /\ new2.waiting[id] = <<>>
          /\ \A t \in Ids : t # id => new2.waiting[t] = st2.waiting[t]
          /\ new2.refused = st2.refused
      <4>1. Settles(less, st2, ev) /\ FoldInv(less, tray2, st2) /\ Lawful(less) /\ ev \in less
        BY <1>1, <1>3, <1>7
      <4> HIDE DEF less
      <4> QED BY <2>2, <4>1, EntrySettles
    <3>3. id \in Ids
      BY EventIds
    <3> HIDE DEF new, new2, id
    <3>4. Range(st.waiting[id]) \cap Range(st.todo) = {}
      BY <1>4, <3>3 DEF PlacesInv
    <3>5. Thins(st.waiting[id], st2.waiting[id], gone) /\ Thins(st.todo, st2.todo, gone)
      BY <3>3 DEF Matches
    <3>6. Thins(Queue(st, id), Queue(st2, id), gone)
      BY <1>5, <3>3, <3>4, <3>5, ThinsConcat DEF Queue
    <3>7. Thins(new.waiting[id], new2.waiting[id], gone)
      BY <3>1, <3>2, ThinsEmpty
    <3>8. \A t \in Ids : Thins(new.waiting[t], new2.waiting[t], gone)
      BY <3>1, <3>2, <3>7 DEF Matches
    <3>9. new2.left = new.left \ gone
      BY <3>1, <3>2 DEF Matches
    <3>10. Matches(new, new2, gone)
      BY <2>1, <3>1, <3>2, <3>6, <3>8, <3>9 DEF Matches
    <3> QED BY <3>2, <3>10 DEF new, new2
  <2>3. CASE ev.type # "entry"
    <3>1. SamePlaces(st, new)
      BY <1>7, <2>3, OtherSettles
    <3>2. SamePlaces(st2, new2) /\ new2.refused = st2.refused
      BY <1>1, <1>3, <1>7, <2>3, OtherSettles
    <3> HIDE DEF new, new2
    <3>3. Matches(new, new2, gone)
      BY <2>1, <3>1, <3>2 DEF Matches, SamePlaces
    <3> QED BY <3>2, <3>3 DEF new, new2
  <2> QED BY <2>2, <2>3
<1> QED BY <1>6, <1>7 DEF Waits, Settles

LEMMA SameFirst ==
    ASSUME NEW events, Lawful(events), Stamped(events), NEW S \in SUBSET events, NEW gone,
           S # {}, First(S) \notin gone
    PROVE  S \ gone # {} /\ First(S \ gone) = First(S)
<1> DEFINE T == S \ gone
<1>1. First(S) \in S /\ \A f \in S : First(S).hlc <= f.hlc
  BY FirstIsMember
<1>2. T \in SUBSET events /\ T # {} /\ First(S) \in T
  BY <1>1
<1>3. First(T) \in T /\ \A f \in T : First(T).hlc <= f.hlc
  BY <1>2, FirstIsMember
<1> HIDE DEF T
<1>4. First(S) \in events /\ First(T) \in events /\ First(T) \in S
  BY <1>1, <1>2, <1>3 DEF T
<1>5. First(S).hlc \in Nat /\ First(T).hlc \in Nat
  BY <1>4, EventIds DEF Ids
<1>6. First(S).hlc = First(T).hlc
  BY <1>1, <1>2, <1>3, <1>4, <1>5
<1>7. First(S) = First(T)
  BY <1>4, <1>6 DEF Stamped, Lawful
<1> QED BY <1>2, <1>7 DEF T

LEMMA TurnMatches ==
    ASSUME NEW events, Lawful(events), Stamped(events), NEW gone, NEW tray, NEW tray2,
           LeftOut(events, gone, tray, tray2),
           NEW st, FoldInv(events, tray, st), NEW st2, FoldInv(events \ gone, tray2, st2),
           Matches(st, st2, gone), ~Ended(st)
    PROVE  /\ Turn(st) \in gone => Matches(Rest(st), st2, gone)
           /\ Turn(st) \notin gone =>
                /\ ~Ended(st2) /\ Turn(st2) = Turn(st) /\ Matches(Rest(st), Rest(st2), gone)
<1> DEFINE less == events \ gone
<1>1. Lawful(less)
  <2>1. less \in SUBSET events
    OBVIOUS
  <2> QED BY <2>1, LawfulPart
<1>2. Turn(st) \in events /\ LeavesOnly(st, Turn(st), Rest(st))
  BY TurnIs
<1>3. ~Ended(st2) => LeavesOnly(st2, Turn(st2), Rest(st2))
  BY <1>1, TurnIs
<1>4. /\ st.todo \in Seq(events) /\ st2.todo \in Seq(events) /\ IsInjective(st.todo)
      /\ st.left \subseteq events
  <2>1. st.todo \in Seq(events) /\ st2.todo \in Seq(less) /\ st.left \subseteq events
    BY DEF FoldInv, FoldState
  <2>2. \A s : s \in Seq(less) => s \in Seq(events)
    OBVIOUS
  <2> QED BY <2>1, <2>2 DEF FoldInv, PlacesInv
<1>5. SameBooks(Rest(st), st)
  BY <1>2 DEF LeavesOnly, SameBooks
<1>6. CASE st.todo # <<>>
  <2>1. /\ Turn(st) = Head(st.todo) /\ Rest(st).todo = Tail(st.todo)
        /\ Rest(st).left = st.left /\ Rest(st).waiting = st.waiting
    BY <1>2, <1>6 DEF LeavesOnly
  <2>2. Thins(st.todo, st2.todo, gone)
    BY DEF Matches
  <2>3. CASE Turn(st) \in gone
    <3>1. Thins(Tail(st.todo), st2.todo, gone)
      BY <1>4, <1>6, <2>1, <2>2, <2>3, ThinsTail
    <3>2. Matches(Rest(st), st2, gone)
      BY <1>5, <2>1, <3>1 DEF Matches, SameBooks
    <3> QED BY <2>3, <3>2
  <2>4. CASE Turn(st) \notin gone
    <3>1. /\ st2.todo # <<>> /\ Head(st2.todo) = Head(st.todo)
          /\ Thins(Tail(st.todo), Tail(st2.todo), gone)
      BY <1>4, <1>6, <2>1, <2>2, <2>4, ThinsTail
    <3>2. ~Ended(st2)
      BY <3>1 DEF Ended
    <3>3. /\ Turn(st2) = Head(st2.todo) /\ Rest(st2).todo = Tail(st2.todo)
          /\ Rest(st2).left = st2.left /\ Rest(st2).waiting = st2.waiting
          /\ SameBooks(Rest(st2), st2)
      BY <1>3, <3>1, <3>2 DEF LeavesOnly, SameBooks
    <3>4. Matches(Rest(st), Rest(st2), gone)
      BY <1>5, <2>1, <3>1, <3>3 DEF Matches, SameBooks
    <3> QED BY <2>1, <2>4, <3>1, <3>2, <3>3, <3>4
  <2> QED BY <2>3, <2>4
<1>7. CASE st.todo = <<>>
  <2>1. /\ Turn(st) = First(st.left) /\ Turn(st) \in st.left /\ Rest(st).todo = <<>>
        /\ Rest(st).left = st.left \ {Turn(st)} /\ Rest(st).waiting = st.waiting
    BY <1>2, <1>7 DEF LeavesOnly
  <2>2. st2.todo = <<>>
    <3>1. Thins(st.todo, st2.todo, gone) /\ Range(st.todo) \subseteq gone
      BY <1>7 DEF Matches, Range
    <3> QED BY <1>4, <3>1, ThinsNothing
  <2>3. CASE Turn(st) \in gone
    <3>1. Matches(Rest(st), st2, gone)
      BY <1>5, <1>7, <2>1, <2>3 DEF Matches, SameBooks
    <3> QED BY <2>3, <3>1
  <2>4. CASE Turn(st) \notin gone
    <3>1. st2.left = st.left \ gone
      BY DEF Matches
    <3>2. st2.left # {} /\ First(st2.left) = First(st.left)
      BY <1>4, <2>1, <2>4, <3>1, SameFirst
    <3>3. ~Ended(st2)
      BY <3>2 DEF Ended
    <3>4. /\ Turn(st2) = First(st2.left) /\ Rest(st2).todo = <<>>
          /\ Rest(st2).left = st2.left \ {Turn(st2)} /\ Rest(st2).waiting = st2.waiting
          /\ SameBooks(Rest(st2), st2)
      BY <1>3, <2>2, <3>3 DEF LeavesOnly, SameBooks
    <3>5. Turn(st2) = Turn(st)
      BY <2>1, <3>2, <3>4
    <3>6. Rest(st2).left = Rest(st).left \ gone
      BY <2>1, <3>1, <3>4, <3>5
    <3>7. Thins(Rest(st).todo, Rest(st2).todo, gone)
      BY <2>1, <3>4, ThinsEmpty
    <3>8. Matches(Rest(st), Rest(st2), gone)
      BY <1>5, <2>1, <3>4, <3>6, <3>7 DEF Matches, SameBooks
    <3> QED BY <2>4, <3>3, <3>5, <3>8
  <2> QED BY <2>3, <2>4
<1> QED BY <1>6, <1>7

LEMMA StepMatches ==
    ASSUME NEW events, Lawful(events), Stamped(events), NEW gone, NEW tray, NEW tray2,
           LeftOut(events, gone, tray, tray2),
           NEW st, FoldInv(events, tray, st), NEW st2, FoldInv(events \ gone, tray2, st2),
           Matches(st, st2, gone), ~Ended(st),
           Settles(events, Rest(st), Turn(st)) => Turn(st) \notin gone,
           Barred(events, Rest(st), Turn(st)) => Turn(st) \in gone
    PROVE  LET new == Step(events, tray, st)
               new2 == Step(events \ gone, tray2, st2) IN
           \/ Matches(new, st2, gone)
           \/ Matches(new, new2, gone) /\ new2.refused = st2.refused
<1> DEFINE less == events \ gone
           ev == Turn(st)
           rest == Rest(st)
           new == Step(events, tray, st)
           new2 == Step(less, tray2, st2)
<1>1. ev \in events /\ Taken(rest, ev) /\ FoldInv(events, tray, rest)
  BY TurnIs
<1>2. new = Process(events, tray, rest, ev)
  BY TurnIs
<1>3. CASE ev \in gone
  <2>1. Matches(rest, st2, gone)
    BY <1>3, TurnMatches
  <2>2. ~Settles(events, rest, ev)
    BY <1>3
  <2> HIDE DEF ev, rest, new
  <2>3. Matches(new, st2, gone)
    BY <1>1, <1>2, <1>3, <2>1, <2>2, GoneMatches
  <2> QED BY <2>3 DEF new
<1>4. CASE ev \notin gone
  <2>1. ~Ended(st2) /\ Turn(st2) = ev /\ Matches(rest, Rest(st2), gone)
    BY <1>4, TurnMatches
  <2>2. Lawful(less)
    <3>1. less \in SUBSET events
      OBVIOUS
    <3> QED BY <3>1, LawfulPart
  <2>3. Taken(Rest(st2), ev) /\ FoldInv(less, tray2, Rest(st2))
    BY <2>1, <2>2, TurnIs
  <2>4. new2 = Process(less, tray2, Rest(st2), ev) /\ LeavesOnly(st2, ev, Rest(st2))
    BY <2>1, <2>2, TurnIs
  <2>5. Rest(st2).refused = st2.refused
    BY <2>4 DEF LeavesOnly
  <2>6. ~Barred(events, rest, ev)
    BY <1>4
  <2> HIDE DEF ev, rest, new, new2
  <2>7. Matches(new, new2, gone) /\ new2.refused = Rest(st2).refused
    BY <1>1, <1>2, <1>4, <2>1, <2>3, <2>4, <2>6, FoldsAlike
  <2> QED BY <2>5, <2>7 DEF new, new2
<1> QED BY <1>3, <1>4

LEMMA EmptyMatches ==
    ASSUME NEW events, NEW gone
    PROVE  Matches(Empty(events), Empty(events \ gone), gone) /\ Empty(events \ gone).refused = {}
BY ThinsEmpty DEF Empty, Matches, SameBooks, Ids

LEMMA RunsMatch ==
    ASSUME NEW events, Lawful(events), Stamped(events), NEW gone, NEW tray, NEW tray2,
           LeftOut(events, gone, tray, tray2), NEW K \in Nat,
           NEW f, RunOf(f, events, tray, K), gone = Fallen(events, f[K]),
           NEW g, RunOf(g, events \ gone, tray2, K)
    PROVE  \A n \in 0..K : \E m \in 0..n : Matches(f[n], g[m], gone) /\ g[m].refused = {}
<1> DEFINE less == events \ gone
           S == {n \in 0..K : \E m \in 0..n : Matches(f[n], g[m], gone) /\ g[m].refused = {}}
<1>1. Lawful(less)
  <2>1. less \in SUBSET events
    OBVIOUS
  <2> QED BY <2>1, LawfulPart
<1>2. \A n \in 0..K : FoldInv(events, tray, f[n]) /\ FoldInv(less, tray2, g[n])
  BY <1>1, RunFolds
<1>3. \A n \in 1..K : /\ n - 1 \in 0..K /\ n \in 0..K
                      /\ f[n] = Step(events, tray, f[n - 1])
                      /\ g[n] = Step(less, tray2, g[n - 1])
  BY DEF RunOf
<1>4. 0 \in S
  <2>1. f[0] = Empty(events) /\ g[0] = Empty(less)
    BY DEF RunOf
  <2>2. Matches(f[0], g[0], gone) /\ g[0].refused = {}
    BY <2>1, EmptyMatches
  <2>3. 0 \in 0..K /\ 0 \in 0..0
    OBVIOUS
  <2> QED BY <2>2, <2>3
<1>5. ASSUME NEW n \in 1..K, n - 1 \in S PROVE n \in S
  <2>1. PICK m \in 0..(n - 1) : Matches(f[n - 1], g[m], gone) /\ g[m].refused = {}
    BY <1>5
  <2>2. m \in 0..n /\ m + 1 \in 0..n /\ m \in 0..K /\ m + 1 \in 1..K
    OBVIOUS
  <2>3. CASE Ended(f[n - 1])
    <3>1. f[n] = f[n - 1]
      BY <1>3, <2>3 DEF Step, Ended
    <3> QED BY <1>3, <2>1, <2>2, <3>1
  <2>4. CASE ~Ended(f[n - 1])
    <3>1. /\ Settles(events, Rest(f[n - 1]), Turn(f[n - 1])) => Turn(f[n - 1]) \notin gone
          /\ Barred(events, Rest(f[n - 1]), Turn(f[n - 1])) => Turn(f[n - 1]) \in gone
      BY <2>4, FateIsFinal
    <3>2. FoldInv(events, tray, f[n - 1]) /\ FoldInv(less, tray2, g[m])
      BY <1>2, <1>3, <2>2
    <3> HIDE DEF S
    <3> DEFINE a == f[n - 1]
               b == g[m]
    <3>3. \/ Matches(Step(events, tray, a), b, gone)
          \/ /\ Matches(Step(events, tray, a), Step(less, tray2, b), gone)
             /\ Step(less, tray2, b).refused = b.refused
      <4>1. /\ Matches(a, b, gone) /\ ~Ended(a)
            /\ FoldInv(events, tray, a) /\ FoldInv(less, tray2, b)
            /\ Settles(events, Rest(a), Turn(a)) => Turn(a) \notin gone
            /\ Barred(events, Rest(a), Turn(a)) => Turn(a) \in gone
        BY <2>1, <2>4, <3>1, <3>2
      <4> HIDE DEF a, b
      <4> QED BY <4>1, StepMatches
    <3>4. g[m + 1] = Step(less, tray2, g[m])
      BY <2>2 DEF RunOf
    <3>5. \/ Matches(f[n], g[m], gone)
          \/ Matches(f[n], g[m + 1], gone) /\ g[m + 1].refused = {}
      BY <1>3, <2>1, <3>3, <3>4
    <3>6. \E i \in 0..n : Matches(f[n], g[i], gone) /\ g[i].refused = {}
      BY <2>1, <2>2, <3>5
    <3> QED BY <1>3, <3>6 DEF S
  <2> QED BY <2>3, <2>4
<1> HIDE DEF S
<1>6. \A n \in 0..K : n \in S
  BY <1>4, <1>5, UpTo
<1> QED BY <1>6 DEF S

\* Leaving out the events that never folded changes nothing.
LEMMA ProjectAgain ==
    ASSUME NEW events, Lawful(events), Stamped(events), NEW tray, NEW tray2, NEW gone,
           gone = Fallen(events, Project(events, tray)), LeftOut(events, gone, tray, tray2)
    PROVE  LET st == Project(events, tray)
               st2 == Project(events \ gone, tray2) IN
           SameBooks(st, st2) /\ st2.refused = {} /\ Orphans(st2) = {}
<1> DEFINE less == events \ gone
           K == Steps(events)
           L == Steps(less)
<1>1. Lawful(less)
  <2>1. less \in SUBSET events
    OBVIOUS
  <2> QED BY <2>1, LawfulPart
<1>2. K \in Nat /\ L \in Nat /\ L <= K
  <2>1. IsFiniteSet(events) /\ K \in Nat /\ L \in Nat
    BY <1>1, EventsFinite
  <2>2. Cardinality(less) <= Cardinality(events)
    BY <2>1, FS_Subset
  <2>3. Cardinality(less) \in Nat /\ Cardinality(events) \in Nat
    BY <2>1, FS_Subset, FS_CardinalityType
  <2> QED BY <2>1, <2>2, <2>3 DEF Steps
<1> HIDE DEF K, L, less
<1>3. PICK f : RunOf(f, events, tray, K)
  BY <1>2, RunExists
<1>4. PICK g : RunOf(g, less, tray2, K)
  BY <1>1, <1>2, RunExists
<1>5. Project(events, tray) = f[K] /\ Ended(f[K])
  BY <1>2, <1>3, ProjectRuns, RunEnds DEF K
<1>6. Project(less, tray2) = g[L] /\ Ended(g[L])
  BY <1>1, <1>2, <1>4, ProjectRuns, RunEnds DEF L
<1>7. PICK m \in 0..K : Matches(f[K], g[m], gone) /\ g[m].refused = {}
  <2>1. K \in 0..K
    BY <1>2
  <2> QED BY SMTT(30), <1>2, <1>3, <1>4, <1>5, <2>1, RunsMatch DEF less
<1>8. /\ f[K].todo = <<>> /\ f[K].left = {} /\ f[K] \in FoldState(events)
      /\ g[m] \in FoldState(less)
  <2>1. K \in 0..K
    BY <1>2
  <2>2. FoldInv(events, tray, f[K]) /\ FoldInv(less, tray2, g[m])
    BY <1>1, <1>2, <1>3, <1>4, <2>1, RunFolds
  <2> QED BY <1>5, <2>2 DEF FoldInv, Ended
<1>9. \A s : s \in Seq(less) => s \in Seq(events)
  BY DEF less
<1>10. g[m].todo = <<>>
  <2>1. g[m].todo \in Seq(events) /\ f[K].todo \in Seq(events)
    BY <1>8, <1>9 DEF FoldState
  <2>2. Thins(f[K].todo, g[m].todo, gone) /\ Range(f[K].todo) \subseteq gone
    BY <1>7, <1>8 DEF Matches, Range
  <2> QED BY <2>1, <2>2, ThinsNothing
<1>11. Ended(g[m])
  BY <1>7, <1>8, <1>10 DEF Matches, Ended
<1>12. g[L] = g[m]
  <2>1. L \in 0..K /\ K \in 0..K /\ K >= L /\ K >= m
    BY <1>2
  <2>2. g[K] = g[m]
    BY <1>2, <1>4, <1>11, <2>1, EndedStays
  <2>3. g[K] = g[L]
    BY <1>2, <1>4, <1>6, <2>1, EndedStays
  <2> QED BY <2>2, <2>3
<1>13. ASSUME NEW t \in Ids PROVE g[m].waiting[t] = <<>>
  <2>1. g[m].waiting[t] \in Seq(events) /\ f[K].waiting[t] \in Seq(events)
    <3>1. g[m].waiting[t] \in Seq(less) /\ f[K].waiting[t] \in Seq(events)
      BY <1>8 DEF FoldState
    <3> QED BY <1>9, <3>1
  <2>2. Range(f[K].waiting[t]) \subseteq gone
    <3>1. Range(f[K].waiting[t]) \subseteq events
      BY <2>1 DEF Range
    <3> QED BY <1>5, <3>1 DEF Fallen, InPlay, Waiting
  <2> QED BY <1>7, <2>1, <2>2, ThinsNothing DEF Matches
<1>14. Orphans(g[m]) = {}
  <2>1. DOMAIN g[m].waiting = Ids
    BY <1>8 DEF FoldState
  <2>2. \A t \in Ids : Range(g[m].waiting[t]) = {}
    BY <1>13 DEF Range
  <2> QED BY <2>1, <2>2 DEF Orphans
<1> QED BY <1>5, <1>6, <1>7, <1>12, <1>14 DEF Matches, less

LEMMA ProjectEnds ==
    ASSUME NEW events, Lawful(events), NEW tray
    PROVE  Ended(Project(events, tray))
<1>1. Steps(events) \in Nat
  BY EventsFinite
<1>2. PICK f : RunOf(f, events, tray, Steps(events))
  BY <1>1, RunExists
<1>3. Steps(events) <= Steps(events)
  BY <1>1
<1> QED BY <1>1, <1>2, <1>3, ProjectRuns, RunEnds

\* Locks and unlocks are never refused and wait for nothing.
LEMMA ClosingsFold ==
    ASSUME NEW events, Lawful(events), NEW tray, NEW e \in events, e.type \in {"lock", "unlock"}
    PROVE  e \notin Fallen(events, Project(events, tray))
<1> DEFINE K == Steps(events)
           st == Project(events, tray)
<1>1. K \in Nat /\ K <= K /\ K \in 0..K
  <2>1. K \in Nat
    BY EventsFinite
  <2> QED BY <2>1
<1> HIDE DEF K
<1>2. PICK f : RunOf(f, events, tray, K)
  BY <1>1, RunExists
<1>3. st = f[K] /\ Ended(f[K])
  BY <1>1, <1>2, ProjectRuns, RunEnds DEF K
<1>4. \A n \in 0..K : FoldInv(events, tray, f[n])
  BY <1>1, <1>2, RunFolds
<1> DEFINE S == {n \in 0..K : e.id \notin f[n].refused}
<1>5. 0 \in S
  BY <1>1, <1>2 DEF RunOf, Empty
<1>6. ASSUME NEW n \in 1..K, n - 1 \in S PROVE n \in S
  <2>1. n - 1 \in 0..K /\ n \in 0..K /\ f[n] = Step(events, tray, f[n - 1])
    BY <1>1, <1>2 DEF RunOf
  <2>2. CASE Ended(f[n - 1])
    <3>1. f[n] = f[n - 1]
      BY <2>1, <2>2 DEF Step, Ended
    <3> QED BY <1>6, <2>1, <3>1
  <2>3. CASE ~Ended(f[n - 1])
    <3> DEFINE ev == Turn(f[n - 1])
               rest == Rest(f[n - 1])
    <3>1. FoldInv(events, tray, f[n - 1])
      BY <1>4, <2>1
    <3>2. /\ ev \in events
          /\ Barred(events, rest, ev) => f[n].refused = f[n - 1].refused \cup {ev.id}
          /\ ~Barred(events, rest, ev) => f[n].refused = f[n - 1].refused
      BY <2>1, <2>3, <3>1, StepFate
    <3> HIDE DEF ev, rest
    <3>3. Barred(events, rest, ev) => ev.id # e.id
      BY <3>2 DEF Barred, Lawful
    <3> QED BY <1>6, <2>1, <3>2, <3>3
  <2> QED BY <2>2, <2>3
<1> HIDE DEF S
<1>7. \A n \in 0..K : n \in S
  BY <1>1, <1>5, <1>6, UpTo
<1>8. e.id \notin f[K].refused
  BY <1>1, <1>7 DEF S
<1>9. ~Waiting(f[K], e)
  <2>1. Dangling(f[K], e) = NoEntry
    BY DEF Dangling
  <2>2. PlacesInv(f[K])
    BY <1>1, <1>4 DEF FoldInv
  <2> QED BY <2>1, <2>2 DEF Waiting, PlacesInv, Ids, NoEntry
<1>10. e \notin f[K].left /\ e \notin Range(f[K].todo)
  BY <1>3 DEF Ended, Range
<1> HIDE DEF st
<1>11. e \notin Fallen(events, st)
  BY <1>3, <1>8, <1>9, <1>10 DEF Fallen, InPlay
<1> QED BY <1>11 DEF st

-----------------------------------------------------------------------------
(* The rebuild of one device. *)

LEMMA SameLate ==
    ASSUME NEW S, NEW stored \in Seq(S), NEW events, NEW gone,
           events \subseteq Range(stored), Lawful(Range(stored)),
           \A e \in gone : e.type \in {"entry", "decision"}, NEW ev \in events \ gone
    PROVE  ev.id \in LateArrivals(stored, events) <=> ev.id \in LateArrivals(stored, events \ gone)
<1> DEFINE less == events \ gone
           Late(j) == /\ stored[j].type = "entry"
                      /\ LockedNow(events, stored[j].month)
                      /\ \E l \in 1..(j - 1) :
                            /\ stored[l] = LastOf(OfMonth(events, stored[j].month))
                            /\ stored[j].hlc < stored[l].hlc
<1>1. \A m : LockedNow(less, m) = LockedNow(events, m) /\ OfMonth(less, m) = OfMonth(events, m)
  BY SameLocks
<1> HIDE DEF less
<1>2. LateArrivals(stored, events) = {stored[i].id : i \in {j \in DOMAIN stored : stored[j] \in events /\ Late(j)}}
  BY DEF LateArrivals
<1>3. LateArrivals(stored, less) = {stored[i].id : i \in {j \in DOMAIN stored : stored[j] \in less /\ Late(j)}}
  BY <1>1 DEF LateArrivals
<1> HIDE DEF Late
<1>4. \A i \in DOMAIN stored : stored[i] \in Range(stored)
  BY DEF Range
<1>5. \A i \in DOMAIN stored : stored[i].id = ev.id => stored[i] = ev
  BY <1>4 DEF Lawful
<1> QED BY <1>2, <1>3, <1>5 DEF less

\* A rebuild without what the last one refused finds the same books.
LEMMA RebuildAgain ==
    ASSUME NEW S, NEW stored \in Seq(S), Lawful(Range(stored)), Stamped(Range(stored)), NEW q
    PROVE  LET v == Rebuild(stored, q)
               again == Rebuild(stored, q \cup v.refused) IN
           again.entries = v.entries /\ again.applied = v.applied /\ again.refused = {}
<1> DEFINE v == Rebuild(stored, q)
           events == {ev \in Range(stored) : ev.id \notin q}
           tray == LateArrivals(stored, events)
           st == Project(events, tray)
           gone == Fallen(events, st)
           less == events \ gone
           tray2 == LateArrivals(stored, less)
           again == Rebuild(stored, q \cup v.refused)
           st2 == Project(less, tray2)
<1>1. Lawful(events) /\ Stamped(events)
  <2>1. events \in SUBSET Range(stored)
    OBVIOUS
  <2> QED BY <2>1, LawfulPart DEF Stamped
<1>2. /\ v.entries = st.entries /\ v.applied = st.applied
      /\ v.refused = st.refused \cup Orphans(st)
  BY DEF Rebuild
<1>3. Ended(st) /\ FoldInv(events, tray, st)
  BY <1>1, ProjectEnds, ProjectFolds
<1> HIDE DEF st
<1>4. \A e \in events : e.id \in v.refused <=> e \in gone
  <2> HIDE DEF events, v
  <2>1. DOMAIN st.waiting = Ids /\ \A t \in Ids : Range(st.waiting[t]) \subseteq events
    <3>1. st.waiting \in [Ids -> Seq(events)]
      BY <1>3 DEF FoldInv, FoldState
    <3>2. \A t \in Ids : st.waiting[t] \in Seq(events)
      BY <3>1
    <3> QED BY <3>1, <3>2 DEF Range
  <2>2. ASSUME NEW e \in events PROVE e.id \in Orphans(st) <=> Waiting(st, e)
    <3>1. ASSUME Waiting(st, e) PROVE e.id \in Orphans(st)
      BY <2>1, <3>1 DEF Waiting, Orphans
    <3>2. ASSUME e.id \in Orphans(st) PROVE Waiting(st, e)
      <4>1. PICK w \in UNION {Range(st.waiting[t]) : t \in Ids} : e.id = w.id
        BY <2>1, <3>2 DEF Orphans
      <4>2. w \in events /\ Waiting(st, w)
        BY <2>1, <4>1 DEF Waiting
      <4>3. w = e
        BY <1>1, <4>1, <4>2 DEF Lawful
      <4> QED BY <4>2, <4>3
    <3> QED BY <3>1, <3>2
  <2>3. \A e : InPlay(st, e) <=> Waiting(st, e)
    BY <1>3 DEF InPlay, Ended, Range
  <2> QED BY <1>2, <2>2, <2>3 DEF Fallen
<1>5. \A e \in gone : e \in events /\ e.type \in {"entry", "decision"}
  <2>1. \A e \in gone : e \in events
    BY DEF Fallen
  <2>2. \A e \in events : e.type \in {"entry", "decision", "lock", "unlock"}
    BY <1>1, EventIds
  <2>3. \A e \in events : e.type \in {"lock", "unlock"} => e \notin gone
    BY <1>1, ClosingsFold DEF st
  <2> QED BY <2>1, <2>2, <2>3
<1>6. {ev \in Range(stored) : ev.id \notin q \cup v.refused} = less
  <2> HIDE DEF gone, v
  <2> QED BY <1>4
<1>7. /\ again.entries = st2.entries /\ again.applied = st2.applied
      /\ again.refused = st2.refused \cup Orphans(st2)
  BY <1>6 DEF Rebuild
<1>8. LeftOut(events, gone, tray, tray2)
  <2>1. events \subseteq Range(stored)
    OBVIOUS
  <2> HIDE DEF events, gone
  <2>2. \A e \in gone : e.type \in {"entry", "decision"}
    BY <1>5
  <2>3. \A e \in events \ gone : e.id \in tray <=> e.id \in tray2
    BY <2>1, <2>2, SameLate
  <2> QED BY <1>5, <2>2, <2>3 DEF LeftOut
<1> HIDE DEF events, tray, gone, tray2, v, again
<1>9. SameBooks(st, st2) /\ st2.refused = {} /\ Orphans(st2) = {}
  BY <1>1, <1>8, ProjectAgain DEF st, gone
<1>10. again.entries = v.entries /\ again.applied = v.applied /\ again.refused = {}
  BY <1>2, <1>7, <1>9 DEF SameBooks
<1> QED BY <1>10 DEF v, again

\* What a device shows is a rebuild of what it holds, and what that rebuild
\* refused is quarantined with what was before.
RebuiltInv ==
    \A d \in Device : \E q \in SUBSET quarantined[d] :
        view[d] = Rebuild(mirror[d], q) /\ quarantined[d] = q \cup view[d].refused

\* Every action rebuilds one device's books, or leaves them all alone.
LEMMA NextRebuilds ==
    ASSUME Next
    PROVE  \E d \in Device : \/ \E stored : Recomputed(d, stored)
                             \/ UNCHANGED <<mirror, view, quarantined>>
<1>1. PICK d \in Device :
        \/ Post(d) \/ Amend(d) \/ ReverseEntry(d)
        \/ ApproveAdvance(d) \/ ApproveEntry(d) \/ RejectEntry(d) \/ RejectHalf(d)
        \/ LockMonth(d) \/ UnlockMonth(d)
        \/ Push(d) \/ Pull(d) \/ Show(d) \/ Restart(d)
  BY DEF Next
<1>2. \A es : AppendOwn(d, es) => \E stored : Recomputed(d, stored)
  BY DEF AppendOwn
<1>3. \A es : Write(d, es) => \E stored : Recomputed(d, stored)
  BY <1>2 DEF Write
<1>4. ASSUME Post(d) \/ Amend(d) \/ ReverseEntry(d) \/ ApproveAdvance(d) \/ ApproveEntry(d)
      PROVE  \E stored : Recomputed(d, stored)
  BY <1>3, <1>4 DEF Post, Amend, ReverseEntry, ApproveAdvance, ApproveEntry
<1>5. ASSUME RejectEntry(d) \/ LockMonth(d) \/ UnlockMonth(d)
      PROVE  \E stored : Recomputed(d, stored)
  BY <1>3, <1>5 DEF RejectEntry, LockMonth, UnlockMonth
<1>6. ASSUME RejectHalf(d) PROVE \E stored : Recomputed(d, stored)
  BY <1>2, <1>6 DEF RejectHalf
<1>7. ASSUME Push(d) \/ Show(d) PROVE UNCHANGED <<mirror, view, quarantined>>
  BY <1>7 DEF Push, Show
<1>8. ASSUME Pull(d) \/ Restart(d) PROVE \E stored : Recomputed(d, stored)
  BY <1>8 DEF Pull, Restart
<1> QED BY <1>1, <1>4, <1>5, <1>6, <1>7, <1>8

THEOREM RebuiltInvHolds == Spec => []RebuiltInv
<1>1. Init /\ LedgerInv => RebuiltInv
  <2> SUFFICES ASSUME Init, LedgerInv, NEW d \in Device
               PROVE  /\ {} \in SUBSET quarantined[d] /\ view[d] = Rebuild(mirror[d], {})
                      /\ quarantined[d] = {} \cup view[d].refused
    BY DEF RebuiltInv
  <2>1. mirror[d] = <<>> /\ view[d] = Rebuild(<<>>, {}) /\ quarantined[d] = {}
    BY DEF Init, NoRows
  <2>2. Books(Range(mirror[d]), view[d])
    BY ShownBooks
  <2>3. view[d].refused = {}
    BY <2>1, <2>2 DEF Books, IdsOf, Range
  <2> QED BY <2>1, <2>3
<1>2. ASSUME LedgerInv, RebuiltInv, [Next]_vars PROVE RebuiltInv'
  <2>1. CASE UNCHANGED <<mirror, view, quarantined>>
    BY <1>2, <2>1 DEF RebuiltInv
  <2>2. ASSUME NEW d \in Device, NEW stored, Recomputed(d, stored) PROVE RebuiltInv'
    <3> DEFINE v == Rebuild(stored, quarantined[d])
    <3>1. /\ mirror' = [mirror EXCEPT ![d] = stored] /\ view' = [view EXCEPT ![d] = v]
          /\ quarantined' = [quarantined EXCEPT ![d] = @ \cup v.refused]
      BY <2>2 DEF Recomputed
    <3>2. DOMAIN mirror = Device /\ DOMAIN view = Device /\ DOMAIN quarantined = Device
      BY <1>2 DEF LedgerInv, BooksKept, RowsInv
    <3>3. /\ mirror'[d] = stored /\ view'[d] = v
          /\ quarantined'[d] = quarantined[d] \cup v.refused
      BY <3>1, <3>2
    <3>4. \A x \in Device : x # d =>
            /\ mirror'[x] = mirror[x] /\ view'[x] = view[x] /\ quarantined'[x] = quarantined[x]
      BY <3>1, <3>2
    <3>5. SUFFICES ASSUME NEW x \in Device
                   PROVE  \E q \in SUBSET quarantined'[x] :
                            /\ view'[x] = Rebuild(mirror'[x], q)
                            /\ quarantined'[x] = q \cup view'[x].refused
      BY DEF RebuiltInv
    <3>6. CASE x = d
      <4>1. /\ quarantined[d] \in SUBSET quarantined'[d]
            /\ view'[d] = Rebuild(mirror'[d], quarantined[d])
            /\ quarantined'[d] = quarantined[d] \cup view'[d].refused
        BY <3>3
      <4> QED BY <3>6, <4>1
    <3>7. CASE x # d
      <4>1. PICK q \in SUBSET quarantined[x] :
                view[x] = Rebuild(mirror[x], q) /\ quarantined[x] = q \cup view[x].refused
        BY <1>2 DEF RebuiltInv
      <4> QED BY <3>4, <3>7, <4>1
    <3> QED BY <3>6, <3>7
  <2>3. CASE Next
    BY <2>1, <2>2, <2>3, NextRebuilds
  <2>4. CASE UNCHANGED vars
    BY <2>1, <2>4 DEF vars
  <2> QED BY <1>2, <2>3, <2>4
<1> QED BY <1>1, <1>2, LedgerInvHolds, PTL DEF Spec

\* Dropping the projection and rebuilding it from the rows that are left finds
\* the same books and refuses nothing more: what a rebuild quarantines for good
\* had no part in the state it leaves (recompute.dart: _rebuildBook).
THEOREM RecomputeIsStableHolds == Spec => []RecomputeIsStable
<1>1. ASSUME LedgerInv, RebuiltInv PROVE RecomputeIsStable
  <2>1. SUFFICES ASSUME NEW d \in Device
                 PROVE  LET again == Rebuild(mirror[d], quarantined[d]) IN
                        /\ again.entries = view[d].entries
                        /\ again.applied = view[d].applied /\ again.refused = {}
    BY DEF RecomputeIsStable
  <2>2. PICK q \in SUBSET quarantined[d] :
            view[d] = Rebuild(mirror[d], q) /\ quarantined[d] = q \cup view[d].refused
    BY <1>1 DEF RebuiltInv
  <2>3. mirror[d] \in Seq(Event) /\ Range(mirror[d]) \subseteq Written /\ Orderly(Written)
    BY <1>1 DEF LedgerInv, BooksKept, RowsInv, WrittenInv
  <2>4. Lawful(Range(mirror[d])) /\ Stamped(Range(mirror[d]))
    BY <2>3, LawfulPart DEF Orderly, Stamped
  <2> QED BY <2>2, <2>3, <2>4, RebuildAgain
<1> QED BY <1>1, LedgerInvHolds, RebuiltInvHolds, PTL

-----------------------------------------------------------------------------
(* What the rows say of the events. *)

Settled(st, e) == ~InPlay(st, e) /\ e.id \notin st.refused

Approves(e, of) ==
    e.type = "decision" /\ e.decision = "approve" /\ e.entry = of.id /\ e.by # of.by

\* Each status has its reason.
StatusInv(events, tray, entries) ==
    \A id \in DOMAIN entries :
        LET p == entries[id] IN
        /\ p.status # "rejected"
        /\ p.status = "superseded" => p.supersededBy # NoEntry
        /\ p.status = "pending" => p.event.pending
        /\ p.status = "inTray" => id \in tray
        /\ p.supersededBy # NoEntry /\ ~p.event.pending => p.status = "superseded"
        /\ ~LockedAt(events, p.event.month, p.event.hlc)

\* An amendment and the entry it amended name each other.
ChainInv(entries) ==
    \A id \in DOMAIN entries :
        /\ LET by == entries[id].supersededBy IN
           by # NoEntry => by \in DOMAIN entries /\ entries[by].event.amends = id
        /\ LET of == entries[id].event.amends IN
           of # NoEntry => of \in DOMAIN entries /\ entries[of].supersededBy = id

\* An entry that settled has its row, a decision has left its mark on the row
\* of its entry, and one that was refused was its author's own.
MarksInv(events, st) ==
    \A e \in events :
        /\ e.type = "entry" /\ Settled(st, e) => e.id \in DOMAIN st.entries
        /\ e.type = "decision" /\ Settled(st, e) =>
            /\ e.entry \in DOMAIN st.entries
            /\ e.decision = "approve" => st.entries[e.entry].status # "pending"
        /\ e.type = "decision" /\ e.id \in st.refused =>
            e.entry \in DOMAIN st.entries /\ st.entries[e.entry].event.by = e.by

\* An advance counts by an approval that has folded.
ApprovedInv(events, st) ==
    \A id \in DOMAIN st.entries :
        st.entries[id].event.pending /\ IsCounted(st.entries[id]) =>
            \E e \in events : Settled(st, e) /\ Approves(e, st.entries[id].event)

ReasonInv(events, tray, st) ==
    /\ StatusInv(events, tray, st.entries)
    /\ ChainInv(st.entries)
    /\ MarksInv(events, st)
    /\ ApprovedInv(events, st)

-----------------------------------------------------------------------------
(* What an accepted entry and a decision change, row by row. *)

SameRow(p, new) ==
    new.event = p.event /\ new.status = p.status /\ new.supersededBy = p.supersededBy

EntryChanges(E, tray, ev, E1) ==
    /\ DOMAIN E1 = DOMAIN E \cup {ev.id} /\ E1[ev.id] = NewRow(tray, ev)
    /\ ev.id \notin {ev.amends, ev.reverses}
    /\ ev.amends # NoEntry =>
        /\ ev.amends \in DOMAIN E /\ E[ev.amends].supersededBy = NoEntry
        /\ E1[ev.amends].event = E[ev.amends].event
        /\ E1[ev.amends].status = "superseded" /\ E1[ev.amends].supersededBy = ev.id
    /\ ev.reverses # NoEntry =>
        /\ ev.reverses \in DOMAIN E /\ E[ev.reverses].status = "posted"
        /\ E1[ev.reverses].event = E[ev.reverses].event
        /\ E1[ev.reverses].status = "voided"
        /\ E1[ev.reverses].supersededBy = E[ev.reverses].supersededBy
    /\ \A i \in DOMAIN E : i \notin {ev.amends, ev.reverses} => SameRow(E[i], E1[i])

LEMMA EntryChangesIs ==
    ASSUME NEW events, Lawful(events), NEW tray, NEW st, FoldInv(events, tray, st),
           NEW ev \in events, Taken(st, ev), Settles(events, st, ev), ev.type = "entry"
    PROVE  EntryChanges(st.entries, tray, ev, EntriesWith(st.entries, tray, ev))
<1> DEFINE E == st.entries
           x == ev.amends
           y == ev.reverses
           added == With(E, ev.id, NewRow(tray, ev))
           E1 == EntriesWith(E, tray, ev)
<1>1. /\ ev.id \in Ids /\ x \in 0..MaxHlc /\ y \in 0..MaxHlc /\ ev.id \notin DOMAIN E
      /\ E \in Partial(Ids, Row(events)) /\ BooksInv(tray, E, st.applied)
  BY EventIds DEF FoldInv, FoldState, Taken
<1>2. DOMAIN E \subseteq Ids /\ \A i \in DOMAIN E : E[i] \in Row(events)
  BY <1>1, PartialTypes
<1>3. /\ x # NoEntry => x \in DOMAIN E /\ E[x].supersededBy = NoEntry
      /\ y # NoEntry => y \in DOMAIN E /\ E[y].reversedBy = NoEntry /\ E[y].status = "posted"
  <2>1. Dangling(st, ev) = NoEntry /\ ~Faulty(events, st, ev)
    BY DEF Settles, Barred
  <2> QED BY <1>1, <2>1 DEF Dangling, Accepted, NoEntry, Faulty, BadAmendment, BadReversal
<1>4. ~(x # NoEntry /\ y # NoEntry)
  <2>1. SUFFICES ASSUME x # NoEntry, y # NoEntry PROVE FALSE
    OBVIOUS
  <2>2. E[x].event \in events /\ E[x].event.type = "entry" /\ E[x].event.id = x
    BY <1>1, <1>2, <1>3, <2>1 DEF Row, BooksInv, RowsNamed
  <2>3. E[x].event.reverses = y
    BY <2>2 DEF Lawful
  <2>4. E[y].reversedBy = x
    BY <1>1, <1>3, <2>1, <2>3 DEF BooksInv, ReversalsVoid
  <2> QED BY <1>3, <2>1, <2>4
<1>5. /\ DOMAIN added = DOMAIN E \cup {ev.id} /\ added[ev.id] = NewRow(tray, ev)
      /\ \A i \in DOMAIN E : added[i] = E[i]
  BY <1>1 DEF With
<1>6. E1 = IF y # NoEntry THEN Voided(added, ev)
           ELSE IF x # NoEntry THEN Replaced(added, ev) ELSE added
  BY <1>4 DEF EntriesWith
<1> HIDE DEF E, added, E1
<1>7. \A i \in DOMAIN E : SameRow(E[i], E[i])
  BY DEF SameRow
<1>8. CASE x = NoEntry /\ y = NoEntry
  <2>1. NoEntry \notin DOMAIN E /\ ev.id # NoEntry
    BY <1>1, <1>2 DEF Ids, NoEntry
  <2>2. E1 = added
    BY <1>6, <1>8
  <2>3. EntryChanges(E, tray, ev, E1)
    BY <1>1, <1>5, <1>7, <1>8, <2>1, <2>2 DEF EntryChanges
  <2> QED BY <2>3 DEF E, E1
<1>9. CASE x # NoEntry /\ y = NoEntry
  <2>1. x \in DOMAIN E /\ E[x] \in Row(events) /\ x # ev.id /\ ev.id # NoEntry
    BY <1>1, <1>2, <1>3, <1>9 DEF Ids, NoEntry
  <2>2. E1 = [added EXCEPT ![x] = [E[x] EXCEPT !.status = "superseded", !.supersededBy = ev.id]]
    BY <1>5, <1>6, <1>9, <2>1 DEF Replaced
  <2>3. PICK r \in Row(events) : r = E[x]
    BY <2>1
  <2>4. LET new == [r EXCEPT !.status = "superseded", !.supersededBy = ev.id] IN
        new.event = r.event /\ new.status = "superseded" /\ new.supersededBy = ev.id
    BY DEF Row
  <2>5. /\ DOMAIN E1 = DOMAIN E \cup {ev.id} /\ E1[ev.id] = NewRow(tray, ev)
        /\ E1[x] = [r EXCEPT !.status = "superseded", !.supersededBy = ev.id]
        /\ \A i \in DOMAIN E : i # x => E1[i] = E[i]
    BY <1>1, <1>5, <2>1, <2>2, <2>3
  <2>6. /\ E1[x].event = E[x].event /\ E1[x].status = "superseded"
        /\ E1[x].supersededBy = ev.id
    BY <2>3, <2>4, <2>5
  <2>7. EntryChanges(E, tray, ev, E1)
    BY <1>3, <1>7, <1>9, <2>1, <2>5, <2>6 DEF EntryChanges, E
  <2> QED BY <2>7 DEF E, E1
<1>10. CASE y # NoEntry
  <2>1. x = NoEntry
    BY <1>4, <1>10
  <2>2. y \in DOMAIN E /\ E[y] \in Row(events) /\ y # ev.id /\ ev.id # NoEntry
    BY <1>1, <1>2, <1>3, <1>10 DEF Ids, NoEntry
  <2>3. E1 = [added EXCEPT ![y] = [E[y] EXCEPT !.status = "voided", !.reversedBy = ev.id]]
    BY <1>5, <1>6, <1>10, <2>2 DEF Voided
  <2>4. PICK r \in Row(events) : r = E[y]
    BY <2>2
  <2>5. LET new == [r EXCEPT !.status = "voided", !.reversedBy = ev.id] IN
        new.event = r.event /\ new.status = "voided" /\ new.supersededBy = r.supersededBy
    BY DEF Row
  <2>6. /\ DOMAIN E1 = DOMAIN E \cup {ev.id} /\ E1[ev.id] = NewRow(tray, ev)
        /\ E1[y] = [r EXCEPT !.status = "voided", !.reversedBy = ev.id]
        /\ \A i \in DOMAIN E : i # y => E1[i] = E[i]
    BY <1>1, <1>5, <2>2, <2>3, <2>4
  <2>7. /\ E1[y].event = E[y].event /\ E1[y].status = "voided"
        /\ E1[y].supersededBy = E[y].supersededBy
    BY <2>4, <2>5, <2>6
  <2>8. EntryChanges(E, tray, ev, E1)
    BY <1>3, <1>7, <1>10, <2>1, <2>2, <2>6, <2>7 DEF EntryChanges, E
  <2> QED BY <2>8 DEF E, E1
<1> QED BY <1>8, <1>9, <1>10

DecisionChanges(E, tray, ev, E1) ==
    /\ DOMAIN E1 = DOMAIN E /\ ev.entry \in DOMAIN E
    /\ E1[ev.entry].event = E[ev.entry].event
    /\ E1[ev.entry].supersededBy = E[ev.entry].supersededBy
    /\ IF E[ev.entry].event.pending
       THEN /\ ev.decision = "approve"
            /\ E1[ev.entry].status = IF ev.entry \in tray THEN "inTray" ELSE "posted"
       ELSE E1[ev.entry].status = E[ev.entry].status
    /\ \A i \in DOMAIN E : i # ev.entry => E1[i] = E[i]

LEMMA DecisionChangesIs ==
    ASSUME NEW events, Lawful(events), NEW tray, NEW st, FoldInv(events, tray, st),
           NEW ev \in events, Settles(events, st, ev), ev.type = "decision"
    PROVE  /\ DecisionChanges(st.entries, tray, ev, EntriesDecided(st.entries, tray, ev))
           /\ ev.by # st.entries[ev.entry].event.by
<1> DEFINE E == st.entries
           id == ev.entry
           E1 == EntriesDecided(E, tray, ev)
<1>1. /\ E \in Partial(Ids, Row(events)) /\ BooksInv(tray, E, st.applied)
      /\ st \in FoldState(events) /\ ev.decision \in Decisions
  BY EventIds DEF FoldInv, FoldState
<1>2. id \in DOMAIN E
  BY <1>1, DanglingIs DEF Settles
<1>3. E[id] \in Row(events) /\ E[id].event \in events
  <2>1. E[id] \in Row(events)
    BY <1>1, <1>2, PartialTypes
  <2> QED BY <2>1 DEF Row
<1>4. E[id].event.type = "entry" /\ E[id].event.id = id
  BY <1>1, <1>2 DEF BooksInv, RowsNamed
<1>5. ev.by # E[id].event.by
  BY DEF Settles, Barred
<1>6. E[id].event.pending => ev.decision = "approve"
  BY <1>1, <1>3, <1>4 DEF Lawful, Decisions
<1>7. PICK r \in Row(events) : r = E[id]
  BY <1>3
<1> HIDE DEF E
<1>8. \A s : LET new == [r EXCEPT !.status = s] IN
             new.event = r.event /\ new.status = s /\ new.supersededBy = r.supersededBy
  BY DEF Row
<1>9. \A s : LET new == [r EXCEPT !.review = s] IN
             /\ new.event = r.event /\ new.status = r.status
             /\ new.supersededBy = r.supersededBy
  BY DEF Row
<1>10. /\ DOMAIN E1 = DOMAIN E /\ \A i \in DOMAIN E : i # id => E1[i] = E[i]
       /\ E1[id] = IF r.event.pending THEN [r EXCEPT !.status = DecidedStatus(tray, ev)]
                   ELSE [r EXCEPT !.review = DecidedReview(ev)]
  BY <1>2, <1>7 DEF EntriesDecided
<1>11. ev.decision = "approve" =>
            DecidedStatus(tray, ev) = IF id \in tray THEN "inTray" ELSE "posted"
  BY DEF DecidedStatus
<1> HIDE DEF E1
<1>12. DecisionChanges(E, tray, ev, E1)
  <2>1. CASE r.event.pending
    BY <1>2, <1>6, <1>7, <1>8, <1>10, <1>11, <2>1 DEF DecisionChanges, E
  <2>2. CASE ~r.event.pending
    BY <1>2, <1>7, <1>9, <1>10, <2>2 DEF DecisionChanges
  <2> QED BY <2>1, <2>2
<1> QED BY <1>5, <1>12 DEF E, E1

-----------------------------------------------------------------------------
(* Each step keeps the reasons. *)

\* The event has folded, and of the others nothing is known that was not.
FoldsNow(events, st, ev, new) ==
    /\ ~Settled(st, ev) /\ ev.id \notin st.refused
    /\ Settled(new, ev) /\ new.refused = st.refused
    /\ \A e \in events : e # ev => (Settled(new, e) <=> Settled(st, e))

LEMMA EntryReasons ==
    ASSUME NEW events, Lawful(events), NEW tray, NEW st, NEW new, NEW ev \in events,
           ReasonInv(events, tray, st), FoldsNow(events, st, ev, new),
           DOMAIN st.entries \subseteq Ids, ev.id \notin DOMAIN st.entries, ev.type = "entry",
           ~LockedAt(events, ev.month, ev.hlc),
           EntryChanges(st.entries, tray, ev, new.entries)
    PROVE  ReasonInv(events, tray, new)
<1> DEFINE E == st.entries
           E1 == new.entries
           x == ev.amends
           y == ev.reverses
<1>1. ev.id \in Ids /\ NoEntry \notin Ids
  BY EventIds DEF Ids, NoEntry
<1>2. DOMAIN E1 = DOMAIN E \cup {ev.id}
  BY DEF EntryChanges
<1>3. /\ E1[ev.id].event = ev /\ E1[ev.id].supersededBy = NoEntry
      /\ E1[ev.id].status = StatusOf(ev, tray)
  BY DEF EntryChanges, NewRow
<1>4. StatusOf(ev, tray) = IF ev.id \in tray THEN "inTray"
                           ELSE IF ev.pending THEN "pending" ELSE "posted"
  BY DEF StatusOf
<1>5. /\ x \in DOMAIN E => /\ E[x].supersededBy = NoEntry /\ E1[x].event = E[x].event
                           /\ E1[x].status = "superseded" /\ E1[x].supersededBy = ev.id
      /\ y \in DOMAIN E => /\ E[y].status = "posted" /\ E1[y].event = E[y].event
                           /\ E1[y].status = "voided"
                           /\ E1[y].supersededBy = E[y].supersededBy
  BY <1>1 DEF EntryChanges
<1>6. \A i \in DOMAIN E : i # x /\ i # y =>
        /\ E1[i].event = E[i].event /\ E1[i].status = E[i].status
        /\ E1[i].supersededBy = E[i].supersededBy
  BY DEF EntryChanges, SameRow
<1>7. x # NoEntry => x \in DOMAIN E
  BY DEF EntryChanges
<1>8. \A i \in DOMAIN E : E1[i].event = E[i].event
  BY <1>5, <1>6
<1>9. \A i \in DOMAIN E : i # x => E1[i].supersededBy = E[i].supersededBy
  BY <1>5, <1>6
<1>10. StatusInv(events, tray, E1)
  <2>1. SUFFICES ASSUME NEW i \in DOMAIN E1
                 PROVE  LET p == E1[i] IN
                        /\ p.status # "rejected"
                        /\ p.status = "superseded" => p.supersededBy # NoEntry
                        /\ p.status = "pending" => p.event.pending
                        /\ p.status = "inTray" => i \in tray
                        /\ p.supersededBy # NoEntry /\ ~p.event.pending => p.status = "superseded"
                        /\ ~LockedAt(events, p.event.month, p.event.hlc)
    BY DEF StatusInv
  <2>2. CASE i = ev.id
    BY <1>3, <1>4, <2>2
  <2>3. CASE i \in DOMAIN E /\ i = x
    BY <1>1, <1>5, <2>3 DEF ReasonInv, StatusInv
  <2>4. CASE i \in DOMAIN E /\ i # x /\ i = y
    BY <1>5, <2>4 DEF ReasonInv, StatusInv
  <2>5. CASE i \in DOMAIN E /\ i # x /\ i # y
    BY <1>6, <2>5 DEF ReasonInv, StatusInv
  <2> QED BY <1>2, <2>2, <2>3, <2>4, <2>5
<1>11. ChainInv(E1)
  <2>1. ASSUME NEW i \in DOMAIN E1, E1[i].supersededBy # NoEntry
        PROVE  /\ E1[i].supersededBy \in DOMAIN E1
               /\ E1[E1[i].supersededBy].event.amends = i
    <3>1. i # ev.id
      BY <1>3, <2>1
    <3>2. CASE i = x
      BY <1>2, <1>3, <1>5, <2>1, <3>1, <3>2
    <3>3. CASE i # x
      <4>1. i \in DOMAIN E /\ E1[i].supersededBy = E[i].supersededBy
        BY <1>2, <1>9, <2>1, <3>1, <3>3
      <4>2. E[i].supersededBy \in DOMAIN E /\ E[E[i].supersededBy].event.amends = i
        BY <2>1, <4>1 DEF ReasonInv, ChainInv
      <4> QED BY <1>2, <1>8, <4>1, <4>2
    <3> QED BY <3>2, <3>3
  <2>2. ASSUME NEW i \in DOMAIN E1, E1[i].event.amends # NoEntry
        PROVE  /\ E1[i].event.amends \in DOMAIN E1
               /\ E1[E1[i].event.amends].supersededBy = i
    <3>1. CASE i = ev.id
      BY <1>2, <1>3, <1>5, <1>7, <2>2, <3>1
    <3>2. CASE i # ev.id
      <4>1. i \in DOMAIN E /\ E1[i].event = E[i].event /\ i # NoEntry
        BY <1>1, <1>2, <1>8, <2>2, <3>2
      <4>2. E[i].event.amends \in DOMAIN E /\ E[E[i].event.amends].supersededBy = i
        BY <2>2, <4>1 DEF ReasonInv, ChainInv
      <4>3. E[i].event.amends # x
        BY <1>5, <4>1, <4>2
      <4> QED BY <1>2, <1>9, <4>1, <4>2, <4>3
    <3> QED BY <3>1, <3>2
  <2> QED BY <2>1, <2>2 DEF ChainInv
<1>12. MarksInv(events, new)
  <2>1. SUFFICES ASSUME NEW e \in events
                 PROVE  /\ e.type = "entry" /\ Settled(new, e) => e.id \in DOMAIN E1
                        /\ e.type = "decision" /\ Settled(new, e) =>
                            /\ e.entry \in DOMAIN E1
                            /\ e.decision = "approve" => E1[e.entry].status # "pending"
                        /\ e.type = "decision" /\ e.id \in new.refused =>
                            e.entry \in DOMAIN E1 /\ E1[e.entry].event.by = e.by
    BY DEF MarksInv
  <2>2. CASE e = ev
    BY <1>2, <2>2 DEF FoldsNow
  <2>3. CASE e # ev
    <3>1. (Settled(new, e) <=> Settled(st, e)) /\ new.refused = st.refused
      BY <2>3 DEF FoldsNow
    <3>2. /\ e.type = "entry" /\ Settled(st, e) => e.id \in DOMAIN E
          /\ e.type = "decision" /\ Settled(st, e) =>
              /\ e.entry \in DOMAIN E
              /\ e.decision = "approve" => E[e.entry].status # "pending"
          /\ e.type = "decision" /\ e.id \in st.refused =>
              e.entry \in DOMAIN E /\ E[e.entry].event.by = e.by
      BY DEF ReasonInv, MarksInv
    <3>3. \A i \in DOMAIN E : E1[i].status \in {E[i].status, "superseded", "voided"}
      BY <1>5, <1>6
    <3> QED BY <1>2, <1>8, <3>1, <3>2, <3>3
  <2> QED BY <2>2, <2>3
<1>13. ApprovedInv(events, new)
  <2>1. SUFFICES ASSUME NEW i \in DOMAIN E1, E1[i].event.pending, IsCounted(E1[i])
                 PROVE  \E e \in events : Settled(new, e) /\ Approves(e, E1[i].event)
    BY DEF ApprovedInv
  <2>2. i # ev.id
    BY <1>3, <1>4, <2>1 DEF IsCounted
  <2>3. i \in DOMAIN E /\ E1[i].event = E[i].event
    BY <1>2, <1>8, <2>1, <2>2
  <2>4. IsCounted(E[i])
    BY <1>5, <1>6, <2>1, <2>3 DEF IsCounted
  <2>5. PICK e \in events : Settled(st, e) /\ Approves(e, E[i].event)
    BY <2>1, <2>3, <2>4 DEF ReasonInv, ApprovedInv
  <2>6. Settled(new, e)
    BY <2>5 DEF FoldsNow
  <2> QED BY <2>3, <2>5, <2>6
<1> QED BY <1>10, <1>11, <1>12, <1>13 DEF ReasonInv

LEMMA DecisionReasons ==
    ASSUME NEW events, Lawful(events), NEW tray, NEW st, NEW new, NEW ev \in events,
           ReasonInv(events, tray, st), FoldsNow(events, st, ev, new), ev.type = "decision",
           ev.by # st.entries[ev.entry].event.by,
           \A i \in DOMAIN st.entries : st.entries[i].event.id = i,
           DecisionChanges(st.entries, tray, ev, new.entries)
    PROVE  ReasonInv(events, tray, new)
<1> DEFINE E == st.entries
           E1 == new.entries
           id == ev.entry
<1>1. /\ DOMAIN E1 = DOMAIN E /\ id \in DOMAIN E
      /\ \A i \in DOMAIN E : E1[i].event = E[i].event /\ E1[i].supersededBy = E[i].supersededBy
      /\ \A i \in DOMAIN E : i # id \/ ~E[i].event.pending => E1[i].status = E[i].status
      /\ E[id].event.pending =>
            /\ ev.decision = "approve"
            /\ E1[id].status = IF id \in tray THEN "inTray" ELSE "posted"
  BY DEF DecisionChanges
<1>2. StatusInv(events, tray, E1)
  <2>1. SUFFICES ASSUME NEW i \in DOMAIN E1
                 PROVE  LET p == E1[i] IN
                        /\ p.status # "rejected"
                        /\ p.status = "superseded" => p.supersededBy # NoEntry
                        /\ p.status = "pending" => p.event.pending
                        /\ p.status = "inTray" => i \in tray
                        /\ p.supersededBy # NoEntry /\ ~p.event.pending => p.status = "superseded"
                        /\ ~LockedAt(events, p.event.month, p.event.hlc)
    BY DEF StatusInv
  <2>2. CASE i # id \/ ~E[i].event.pending
    BY <1>1, <2>2 DEF ReasonInv, StatusInv
  <2>3. CASE i = id /\ E[i].event.pending
    BY <1>1, <2>3 DEF ReasonInv, StatusInv
  <2> QED BY <2>2, <2>3
<1>3. ChainInv(E1)
  BY <1>1 DEF ReasonInv, ChainInv
<1>4. MarksInv(events, new)
  <2>1. SUFFICES ASSUME NEW e \in events
                 PROVE  /\ e.type = "entry" /\ Settled(new, e) => e.id \in DOMAIN E1
                        /\ e.type = "decision" /\ Settled(new, e) =>
                            /\ e.entry \in DOMAIN E1
                            /\ e.decision = "approve" => E1[e.entry].status # "pending"
                        /\ e.type = "decision" /\ e.id \in new.refused =>
                            e.entry \in DOMAIN E1 /\ E1[e.entry].event.by = e.by
    BY DEF MarksInv
  <2>2. \A i \in DOMAIN E : E[i].status # "pending" => E1[i].status # "pending"
    BY <1>1
  <2>3. E1[id].status # "pending"
    BY <1>1 DEF ReasonInv, StatusInv
  <2>4. CASE e = ev
    BY <1>1, <2>3, <2>4 DEF FoldsNow
  <2>5. CASE e # ev
    <3>1. (Settled(new, e) <=> Settled(st, e)) /\ new.refused = st.refused
      BY <2>5 DEF FoldsNow
    <3> QED BY <1>1, <2>2, <3>1 DEF ReasonInv, MarksInv
  <2> QED BY <2>4, <2>5
<1>5. ApprovedInv(events, new)
  <2>1. SUFFICES ASSUME NEW i \in DOMAIN E1, E1[i].event.pending, IsCounted(E1[i])
                 PROVE  \E e \in events : Settled(new, e) /\ Approves(e, E1[i].event)
    BY DEF ApprovedInv
  <2>2. CASE i = id
    <3>1. Approves(ev, E1[i].event)
      BY <1>1, <2>1, <2>2 DEF Approves
    <3> QED BY <3>1 DEF FoldsNow
  <2>3. CASE i # id
    <3>1. i \in DOMAIN E /\ E[i].event.pending /\ IsCounted(E[i]) /\ E1[i].event = E[i].event
      BY <1>1, <2>1, <2>3 DEF IsCounted
    <3>2. PICK e \in events : Settled(st, e) /\ Approves(e, E[i].event)
      BY <3>1 DEF ReasonInv, ApprovedInv
    <3>3. Settled(new, e)
      BY <3>2 DEF FoldsNow
    <3> QED BY <3>1, <3>2, <3>3
  <2> QED BY <2>2, <2>3
<1> QED BY <1>2, <1>3, <1>4, <1>5 DEF ReasonInv

\* A step that changes no row.
LEMMA RowsUntouched ==
    ASSUME NEW events, NEW tray, NEW st, NEW new, NEW ev \in events,
           ReasonInv(events, tray, st), new.entries = st.entries, ~Settled(st, ev),
           \A e \in events : e # ev =>
                (Settled(new, e) <=> Settled(st, e)) /\ (e.id \in new.refused => e.id \in st.refused),
           Settled(new, ev) => ev.type \notin {"entry", "decision"},
           ev.type = "decision" /\ ev.id \in new.refused =>
                ev.entry \in DOMAIN st.entries /\ st.entries[ev.entry].event.by = ev.by
    PROVE  ReasonInv(events, tray, new)
<1>1. MarksInv(events, new)
  BY DEF ReasonInv, MarksInv
<1>2. ApprovedInv(events, new)
  <2>1. SUFFICES ASSUME NEW i \in DOMAIN st.entries, st.entries[i].event.pending,
                        IsCounted(st.entries[i])
                 PROVE  \E e \in events : Settled(new, e) /\ Approves(e, st.entries[i].event)
    BY DEF ApprovedInv
  <2>2. PICK e \in events : Settled(st, e) /\ Approves(e, st.entries[i].event)
    BY <2>1 DEF ReasonInv, ApprovedInv
  <2> QED BY <2>2
<1> QED BY <1>1, <1>2 DEF ReasonInv

LEMMA StepReasons ==
    ASSUME NEW events, Lawful(events), NEW tray, NEW st, FoldInv(events, tray, st),
           FateInv(events, st), ReasonInv(events, tray, st)
    PROVE  ReasonInv(events, tray, Step(events, tray, st))
<1> DEFINE new == Step(events, tray, st)
           ev == Turn(st)
           rest == Rest(st)
<1>1. CASE Ended(st)
  BY <1>1 DEF Step, Ended
<1>2. CASE ~Ended(st)
  <2>1. /\ ev \in events /\ Taken(rest, ev) /\ FoldInv(events, tray, rest)
        /\ new = Process(events, tray, rest, ev) /\ LeavesOnly(st, ev, rest)
    BY <1>2, TurnIs
  <2>2. rest.entries = st.entries /\ rest.refused = st.refused
    <3> HIDE DEF ev, rest
    <3> QED BY <2>1 DEF LeavesOnly
  <2>3. /\ InPlay(st, ev)
        /\ \A e \in events : e # ev => (InPlay(new, e) <=> InPlay(st, e))
        /\ InPlay(new, ev) <=> Waits(events, rest, ev)
        /\ Barred(events, rest, ev) => new.refused = st.refused \cup {ev.id}
        /\ ~Barred(events, rest, ev) => new.refused = st.refused
    BY <1>2, StepFate
  <2> SUFFICES ReasonInv(events, tray, new)
    OBVIOUS
  <2> HIDE DEF new, ev, rest
  <2>4. ~Settled(st, ev) /\ ev.id \notin st.refused
    BY <2>1, <2>3 DEF Settled, FateInv
  <2>5. \A e \in events : e # ev => e.id # ev.id
    BY <2>1 DEF Lawful
  <2>6. \A e \in events : e # ev =>
            (Settled(new, e) <=> Settled(st, e)) /\ (e.id \in new.refused => e.id \in st.refused)
    BY <2>3, <2>5 DEF Settled
  <2>7. st.entries \in Partial(Ids, Row(events)) /\ RowsNamed(st.entries)
    BY DEF FoldInv, FoldState, BooksInv
  <2>8. CASE Barred(events, rest, ev)
    <3>1. new.entries = st.entries
      BY <2>1, <2>2, <2>8, BarredIs DEF SameBooks
    <3>2. ~Settled(new, ev)
      BY <2>3, <2>8 DEF Settled
    <3>3. ev.type = "decision" =>
            ev.entry \in DOMAIN st.entries /\ st.entries[ev.entry].event.by = ev.by
      BY <2>1, <2>2, <2>8, DanglingIs DEF Barred, FoldInv
    <3> QED BY <2>1, <2>4, <2>6, <3>1, <3>2, <3>3, RowsUntouched
  <2>9. CASE Waits(events, rest, ev)
    <3>1. new.entries = st.entries
      BY <2>1, <2>2, <2>9, WaitsIs DEF SameBooks
    <3>2. ~Settled(new, ev) /\ ev.id \notin new.refused
      BY <2>3, <2>4, <2>9 DEF Settled, Waits
    <3> QED BY <2>1, <2>4, <2>6, <3>1, <3>2, RowsUntouched
  <2>10. ASSUME Settles(events, rest, ev) PROVE FoldsNow(events, st, ev, new)
    BY <2>3, <2>4, <2>6, <2>10 DEF Settles, Waits, Settled, FoldsNow
  <2>11. CASE Settles(events, rest, ev) /\ ev.type = "entry"
    <3>1. Dangling(rest, ev) = NoEntry /\ ev.id \notin DOMAIN st.entries
      BY <2>1, <2>2, <2>11 DEF Settles, Taken
    <3>2. new.entries = EntriesWith(st.entries, tray, ev)
      <4>1. SameBooks(Joined(tray, rest, ev), new)
        BY <2>1, <2>11, EntrySettles
      <4>2. Joined(tray, rest, ev).entries = EntriesWith(rest.entries, tray, ev)
        BY <2>1, <2>2, <2>11, <3>1, JoinedRows DEF FoldInv
      <4> QED BY <2>2, <4>1, <4>2 DEF SameBooks
    <3>3. EntryChanges(st.entries, tray, ev, new.entries)
      BY <2>1, <2>2, <2>11, <3>2, EntryChangesIs
    <3>4. DOMAIN st.entries \subseteq Ids /\ ~LockedAt(events, ev.month, ev.hlc)
      BY <2>7, <2>11, PartialTypes DEF Settles, Barred
    <3> QED BY <2>1, <2>10, <2>11, <3>1, <3>3, <3>4, EntryReasons
  <2>12. CASE Settles(events, rest, ev) /\ ev.type = "decision"
    <3>1. /\ DecisionChanges(st.entries, tray, ev, EntriesDecided(st.entries, tray, ev))
          /\ ev.by # st.entries[ev.entry].event.by
      BY <2>1, <2>2, <2>12, DecisionChangesIs
    <3>2. new.entries = EntriesDecided(st.entries, tray, ev)
      <4>1. new = Decide(rest, tray, ev)
        BY <2>1, <2>12, OtherSettles
      <4>2. ev.entry \in DOMAIN rest.entries
        BY <2>2, <3>1 DEF DecisionChanges
      <4> QED BY <2>1, <2>2, <2>12, <3>1, <4>1, <4>2, DecideRows DEF FoldInv
    <3>3. \A i \in DOMAIN st.entries : st.entries[i].event.id = i
      BY <2>7 DEF RowsNamed
    <3> QED BY <2>1, <2>10, <2>12, <3>1, <3>2, <3>3, DecisionReasons
  <2>13. CASE Settles(events, rest, ev) /\ ev.type \notin {"entry", "decision"}
    <3>1. new.entries = st.entries /\ new.refused = st.refused
      BY <2>1, <2>2, <2>13, OtherSettles
    <3> QED BY <2>1, <2>4, <2>6, <2>13, <3>1, RowsUntouched
  <2> QED BY <2>8, <2>9, <2>11, <2>12, <2>13 DEF Waits, Settles
<1> QED BY <1>1, <1>2

\* How a project() ends.
LEMMA ProjectReasons ==
    ASSUME NEW events, Lawful(events), NEW tray
    PROVE  ReasonInv(events, tray, Project(events, tray))
<1> DEFINE K == Steps(events)
<1>1. K \in Nat /\ K <= K /\ K \in 0..K
  BY EventsFinite
<1> HIDE DEF K
<1>2. PICK f : RunOf(f, events, tray, K)
  BY <1>1, RunExists
<1>3. Project(events, tray) = f[K]
  BY <1>1, <1>2, ProjectRuns DEF K
<1>4. \A n \in 0..K : FoldInv(events, tray, f[n])
  BY <1>1, <1>2, RunFolds
<1> DEFINE S == {n \in 0..K : FateInv(events, f[n]) /\ ReasonInv(events, tray, f[n])}
<1>5. 0 \in S
  <2>1. f[0] = Empty(events)
    BY <1>2 DEF RunOf
  <2>2. DOMAIN Empty(events).entries = {} /\ Empty(events).refused = {}
    BY DEF Empty
  <2>3. \A e \in events : ~Settled(Empty(events), e)
    BY DEF Settled, InPlay, Empty
  <2>4. ReasonInv(events, tray, Empty(events))
    BY <2>2, <2>3 DEF ReasonInv, StatusInv, ChainInv, MarksInv, ApprovedInv
  <2> QED BY <1>1, <2>1, <2>4, EmptyFate
<1>6. ASSUME NEW n \in 1..K, n - 1 \in S PROVE n \in S
  <2>1. n - 1 \in 0..K /\ n \in 0..K /\ f[n] = Step(events, tray, f[n - 1])
    BY <1>1, <1>2 DEF RunOf
  <2>2. FoldInv(events, tray, f[n - 1])
    BY <1>4, <2>1
  <2> QED BY <1>6, <2>1, <2>2, StepKeepsFate, StepReasons
<1> HIDE DEF S
<1>7. \A n \in 0..K : n \in S
  BY <1>1, <1>5, <1>6, UpTo
<1> QED BY <1>1, <1>3, <1>7 DEF S

-----------------------------------------------------------------------------
(* What a device shows, read against what it has kept. *)

Kept(stored, q) == {ev \in Range(stored) : ev.id \notin q}

\* The rows are of the events, every entry has one, and each says why it
\* counts or does not.
Reads(events, tray, entries) ==
    /\ \A id \in DOMAIN entries :
        /\ entries[id].event \in events /\ entries[id].event.type = "entry"
        /\ entries[id].event.id = id /\ entries[id].status \in Statuses
    /\ \A e \in events : e.type = "entry" => e.id \in DOMAIN entries
    /\ \A e \in events : e.type = "decision" =>
        /\ e.entry \in DOMAIN entries
        /\ e.decision = "approve" => entries[e.entry].status # "pending"
    /\ \A id \in DOMAIN entries : entries[id].event.pending /\ IsCounted(entries[id]) =>
            \E e \in events : Approves(e, entries[id].event)
    /\ TrayNotCounted(entries, tray)
    /\ StatusInv(events, tray, entries)
    /\ ChainInv(entries)

\* A decision of another member than the author's on an entry of the books.
Weighs(e, entries) ==
    /\ e.type = "decision" /\ e.entry \in DOMAIN entries
    /\ e.by # entries[e.entry].event.by

\* What a rebuild that refused nothing shows.
LEMMA RebuildReads ==
    ASSUME NEW S, NEW stored \in Seq(S), Lawful(Range(stored)), NEW q,
           Rebuild(stored, q).refused = {}
    PROVE  Reads(Kept(stored, q), LateArrivals(stored, Kept(stored, q)), Rebuild(stored, q).entries)
<1> DEFINE events == Kept(stored, q)
           tray == LateArrivals(stored, events)
           st == Project(events, tray)
<1>1. Lawful(events)
  <2>1. events \in SUBSET Range(stored)
    BY DEF Kept
  <2> QED BY <2>1, LawfulPart
<1>2. /\ Rebuild(stored, q).entries = st.entries
      /\ Rebuild(stored, q).refused = st.refused \cup Orphans(st)
  BY DEF Rebuild, Kept
<1> HIDE DEF events, tray
<1>3. FoldInv(events, tray, st) /\ Ended(st) /\ ReasonInv(events, tray, st)
  BY <1>1, ProjectFolds, ProjectEnds, ProjectReasons
<1> HIDE DEF st
<1>4. st.refused = {} /\ Orphans(st) = {}
  BY <1>2
<1>5. \A e \in events : Settled(st, e)
  <2>1. SUFFICES ASSUME NEW e \in events, Waiting(st, e) PROVE FALSE
    BY <1>3, <1>4 DEF Settled, InPlay, Ended, Range
  <2>2. PICK t \in Ids : e \in Range(st.waiting[t])
    BY <2>1 DEF Waiting
  <2>3. t \in DOMAIN st.waiting
    BY <1>3 DEF FoldInv, FoldState
  <2>4. e.id \in Orphans(st)
    BY <2>2, <2>3 DEF Orphans
  <2> QED BY <1>4, <2>4
<1>6. \A id \in DOMAIN st.entries :
        /\ st.entries[id].event \in events /\ st.entries[id].event.type = "entry"
        /\ st.entries[id].event.id = id /\ st.entries[id].status \in Statuses
  <2>1. st.entries \in Partial(Ids, Row(events)) /\ RowsNamed(st.entries)
    BY <1>3 DEF FoldInv, FoldState, BooksInv
  <2>2. \A id \in DOMAIN st.entries : st.entries[id] \in Row(events)
    BY <2>1, PartialTypes
  <2> QED BY <2>1, <2>2 DEF Row, RowsNamed
<1>7. TrayNotCounted(st.entries, tray)
  BY <1>3 DEF FoldInv, BooksInv
<1>8. Reads(events, tray, st.entries)
  BY <1>3, <1>5, <1>6, <1>7 DEF Reads, ReasonInv, MarksInv, ApprovedInv
<1> QED BY <1>2, <1>8 DEF events, tray

\* A rebuild refuses no decision of another member on an entry it shows.
LEMMA RebuildSpares ==
    ASSUME NEW S, NEW stored \in Seq(S), Lawful(Range(stored)), NEW q,
           NEW e \in Kept(stored, q), Weighs(e, Rebuild(stored, q).entries)
    PROVE  e.id \notin Rebuild(stored, q).refused
<1> DEFINE events == Kept(stored, q)
           tray == LateArrivals(stored, events)
           st == Project(events, tray)
<1>1. Lawful(events) /\ e \in events
  <2>1. events \in SUBSET Range(stored)
    BY DEF Kept
  <2> QED BY <2>1, LawfulPart
<1>2. /\ Rebuild(stored, q).entries = st.entries
      /\ Rebuild(stored, q).refused = st.refused \cup Orphans(st)
  BY DEF Rebuild, Kept
<1> HIDE DEF events, tray
<1>3. FoldInv(events, tray, st) /\ ReasonInv(events, tray, st)
  BY <1>1, ProjectFolds, ProjectReasons
<1> HIDE DEF st
<1>4. e.type = "decision" /\ e.entry \in DOMAIN st.entries /\ e.by # st.entries[e.entry].event.by
  BY <1>2 DEF Weighs
<1>5. e.id \notin st.refused
  BY <1>1, <1>3, <1>4 DEF ReasonInv, MarksInv
<1>6. ASSUME e.id \in Orphans(st) PROVE FALSE
  <2>1. DOMAIN st.waiting = Ids /\ \A t \in Ids : Range(st.waiting[t]) \subseteq events
    <3>1. st.waiting \in [Ids -> Seq(events)]
      BY <1>3 DEF FoldInv, FoldState
    <3>2. \A t \in Ids : st.waiting[t] \in Seq(events)
      BY <3>1
    <3> QED BY <3>1, <3>2 DEF Range
  <2>2. PICK t \in Ids : \E w \in Range(st.waiting[t]) : w.id = e.id
    BY <1>6, <2>1 DEF Orphans
  <2>3. PICK w \in Range(st.waiting[t]) : w.id = e.id
    BY <2>2
  <2>4. w = e
    BY <1>1, <2>1, <2>3 DEF Lawful
  <2>5. Dangling(st, e) = t /\ t # NoEntry
    BY <1>3, <2>3, <2>4 DEF FoldInv, PlacesInv, Ids, NoEntry
  <2> QED BY <1>4, <2>5 DEF Dangling, Accepted
<1> QED BY <1>2, <1>5, <1>6

-----------------------------------------------------------------------------
(* The last lock or unlock of a month. *)

LEMMA LastIsMember ==
    ASSUME NEW events, Lawful(events), NEW S \in SUBSET events, S # {}
    PROVE  LastOf(S) \in S /\ \A f \in S : f.hlc <= LastOf(S).hlc
<1> DEFINE gaps == {n \in Nat : \E e \in S : n = MaxHlc - e.hlc}
<1>1. /\ MaxHlc \in Nat
      /\ \A e \in S : e.hlc \in Nat /\ MaxHlc - e.hlc \in Nat
  BY EventIds, LedgerAssumption DEF Ids
<1>2. gaps \in SUBSET Nat /\ gaps # {}
  BY <1>1
<1>3. PICK m \in gaps : \A k \in gaps : m <= k
  BY <1>2, LeastNumber
<1>4. PICK e \in S : m = MaxHlc - e.hlc
  BY <1>3
<1>5. \A f \in S : f.hlc <= e.hlc
  <2>1. \A f \in S : m <= MaxHlc - f.hlc
    BY <1>1, <1>3
  <2> QED BY <1>1, <1>4, <2>1
<1> QED BY <1>5 DEF LastOf

LEMMA LastIs ==
    ASSUME NEW events, Lawful(events), Stamped(events), NEW S \in SUBSET events,
           NEW e \in S, \A f \in S : f.hlc <= e.hlc
    PROVE  LastOf(S) = e
<1>1. LastOf(S) \in S /\ \A f \in S : f.hlc <= LastOf(S).hlc
  BY LastIsMember
<1>2. e.hlc \in Ids /\ LastOf(S).hlc \in Ids
  BY <1>1, EventIds
<1>3. LastOf(S).hlc = e.hlc
  BY <1>1, <1>2 DEF Ids
<1> QED BY <1>1, <1>3 DEF Stamped, Lawful

-----------------------------------------------------------------------------
(* A mirror that has grown at its end. *)

Extends(s, t) == Len(s) <= Len(t) /\ \A i \in DOMAIN s : t[i] = s[i]

\* t is a lawful mirror without repetitions that has s for its beginning.
Grown(s, t) ==
    /\ s \in Seq(Event) /\ t \in Seq(Event) /\ IsInjective(t) /\ Extends(s, t)
    /\ Lawful(Range(t)) /\ Stamped(Range(t))

ClosingsKept(stored, q) ==
    \A e \in Range(stored) : e.type \in {"lock", "unlock"} => e.id \notin q

LEMMA GrownKeeps ==
    ASSUME NEW s, NEW t, Grown(s, t)
    PROVE  /\ DOMAIN s \subseteq DOMAIN t /\ DOMAIN s = 1..Len(s) /\ DOMAIN t = 1..Len(t)
           /\ Len(s) \in Nat /\ Len(t) \in Nat
           /\ Range(s) \subseteq Range(t) /\ \A i \in DOMAIN s : t[i] = s[i] /\ s[i] \in Range(s)
           /\ \A i \in DOMAIN t : t[i] \in Range(t)
<1>1. Len(s) \in Nat /\ Len(t) \in Nat /\ DOMAIN s = 1..Len(s) /\ DOMAIN t = 1..Len(t)
  BY DEF Grown
<1>2. DOMAIN s \subseteq DOMAIN t /\ \A i \in DOMAIN s : t[i] = s[i]
  BY <1>1 DEF Grown, Extends
<1> QED BY <1>1, <1>2 DEF Range

\* No lock is set aside, so the months are closed by what the mirror holds.
LEMMA ClosingsStay ==
    ASSUME NEW stored, NEW q, ClosingsKept(stored, q), NEW m
    PROVE  OfMonth(Kept(stored, q), m) = OfMonth(Range(stored), m)
BY DEF OfMonth, Kept, ClosingsKept

\* A row of the mirror is late when a later-stamped lock stands before it.
LEMMA LateIs ==
    ASSUME NEW s, NEW t, Grown(s, t), NEW q, ClosingsKept(t, q), NEW j \in DOMAIN t,
           t[j].id \notin q, t[j].type = "entry"
    PROVE  LET closings == OfMonth(Range(t), t[j].month) IN
           t[j].id \in LateArrivals(t, Kept(t, q)) <=>
                /\ Binding(closings)
                /\ \E l \in 1..(j - 1) : t[l] = LastOf(closings) /\ t[j].hlc < LastOf(closings).hlc
<1> DEFINE U == Kept(t, q)
           Behind(i) == /\ LockedNow(U, t[i].month)
                        /\ \E l \in 1..(i - 1) :
                              /\ t[l] = LastOf(OfMonth(U, t[i].month))
                              /\ t[i].hlc < t[l].hlc
<1>1. LateArrivals(t, U) = {t[i].id : i \in {k \in DOMAIN t : t[k] \in U /\ t[k].type = "entry" /\ Behind(k)}}
  BY DEF LateArrivals
<1>2. OfMonth(U, t[j].month) = OfMonth(Range(t), t[j].month)
  BY ClosingsStay
<1>3. \A i \in DOMAIN t : t[i].id = t[j].id => i = j
  <2>1. \A i \in DOMAIN t : t[i].id = t[j].id => t[i] = t[j]
    BY GrownKeeps DEF Grown, Lawful
  <2> QED BY <2>1 DEF Grown, IsInjective
<1>4. t[j] \in U
  BY GrownKeeps DEF Kept
<1>5. Behind(j) <=>
        /\ Binding(OfMonth(Range(t), t[j].month))
        /\ \E l \in 1..(j - 1) : /\ t[l] = LastOf(OfMonth(Range(t), t[j].month))
                                 /\ t[j].hlc < LastOf(OfMonth(Range(t), t[j].month)).hlc
  <2> HIDE DEF U
  <2> QED BY <1>2 DEF LockedNow
<1> HIDE DEF Behind, U
<1>6. t[j].id \in LateArrivals(t, U) <=> Behind(j)
  BY <1>1, <1>3, <1>4
<1> QED BY <1>5, <1>6 DEF U

LEMMA GrownBefore ==
    ASSUME NEW s, NEW t, Grown(s, t), NEW q, NEW q2, q \subseteq q2, ClosingsKept(t, q2)
    PROVE  Grown(s, s) /\ ClosingsKept(s, q)
<1>1. Range(s) \in SUBSET Range(t) /\ Lawful(Range(t))
  BY GrownKeeps DEF Grown
<1>2. Lawful(Range(s)) /\ Stamped(Range(s))
  BY <1>1, LawfulPart DEF Grown, Stamped
<1>3. IsInjective(s)
  BY GrownKeeps DEF Grown, IsInjective
<1>4. Extends(s, s)
  BY GrownKeeps DEF Extends
<1>5. ClosingsKept(s, q)
  BY <1>1 DEF ClosingsKept
<1> QED BY <1>2, <1>3, <1>4, <1>5 DEF Grown

\* The closings of a month that stand before a late row stood there before the
\* mirror grew: what waits in the tray now and was there before waited already.
LEMMA LateBefore ==
    ASSUME NEW s, NEW t, Grown(s, t), NEW q, NEW q2, q \subseteq q2, ClosingsKept(t, q2),
           NEW e \in Range(s), e.type = "entry", e.id \notin q2,
           e.id \in LateArrivals(t, Kept(t, q2))
    PROVE  e.id \in LateArrivals(s, Kept(s, q))
<1> DEFINE old == OfMonth(Range(s), e.month)
           new == OfMonth(Range(t), e.month)
           L == LastOf(new)
<1>1. PICK j \in DOMAIN s : s[j] = e
  BY DEF Range
<1>2. /\ j \in DOMAIN t /\ t[j] = e /\ DOMAIN s = 1..Len(s) /\ Len(s) \in Nat
      /\ \A i \in DOMAIN s : t[i] = s[i] /\ s[i] \in Range(s)
      /\ Range(s) \subseteq Range(t)
  BY <1>1, GrownKeeps
<1>3. PICK l \in 1..(j - 1) : Binding(new) /\ t[l] = L /\ e.hlc < L.hlc
  BY <1>2, LateIs
<1>4. l \in DOMAIN s /\ s[l] = L /\ L \in Range(s)
  BY <1>1, <1>2, <1>3
<1>5. old \in SUBSET Range(s) /\ new \in SUBSET Range(t) /\ old \subseteq new
  BY <1>2 DEF OfMonth
<1>6. L \in new /\ \A f \in new : f.hlc <= L.hlc
  BY <1>3, <1>5, LastIsMember DEF Grown, Binding
<1>7. Grown(s, s) /\ ClosingsKept(s, q)
  BY GrownBefore
<1>8. L \in old
  BY <1>4, <1>6 DEF OfMonth
<1> HIDE DEF old, new, L
<1>9. LastOf(old) = L
  BY <1>5, <1>6, <1>7, <1>8, LastIs DEF Grown
<1>10. Binding(old)
  BY <1>3, <1>8, <1>9 DEF Binding, L
<1> QED BY <1>1, <1>3, <1>4, <1>7, <1>9, <1>10, LateIs DEF old

\* What waited still waits while the same lock is the last.
LEMMA LateStays ==
    ASSUME NEW s, NEW t, Grown(s, t), NEW q, NEW q2, q \subseteq q2, ClosingsKept(t, q2),
           NEW e \in Range(s), e.type = "entry", e.id \notin q2,
           LastOf(OfMonth(Range(t), e.month)) = LastOf(OfMonth(Range(s), e.month)),
           e.id \in LateArrivals(s, Kept(s, q))
    PROVE  e.id \in LateArrivals(t, Kept(t, q2))
<1> DEFINE old == OfMonth(Range(s), e.month)
           new == OfMonth(Range(t), e.month)
           L == LastOf(old)
<1>1. PICK j \in DOMAIN s : s[j] = e
  BY DEF Range
<1>2. /\ j \in DOMAIN t /\ t[j] = e /\ DOMAIN s = 1..Len(s) /\ Len(s) \in Nat
      /\ \A i \in DOMAIN s : t[i] = s[i]
      /\ Range(s) \subseteq Range(t)
  BY <1>1, GrownKeeps
<1>3. Grown(s, s) /\ ClosingsKept(s, q) /\ s[j].id \notin q
  BY <1>1, GrownBefore
<1>4. PICK l \in 1..(j - 1) : Binding(old) /\ s[l] = L /\ e.hlc < L.hlc
  BY <1>1, <1>3, LateIs
<1>5. l \in DOMAIN s /\ t[l] = L
  BY <1>1, <1>2, <1>4
<1>6. LastOf(new) = L /\ old \subseteq new
  BY <1>2 DEF OfMonth
<1> HIDE DEF old, new, L
<1>7. Binding(new)
  BY <1>4, <1>6 DEF Binding, L
<1> QED BY <1>2, <1>4, <1>5, <1>6, <1>7, LateIs DEF new

\* What comes into a month after its lock and was not made after it is late.
LEMMA LateComes ==
    ASSUME NEW s, NEW t, Grown(s, t), NEW q2, ClosingsKept(t, q2),
           NEW e \in Range(t) \ Range(s), e.type = "entry", e.id \notin q2,
           LockedNow(Range(s), e.month),
           LastOf(OfMonth(Range(t), e.month)) = LastOf(OfMonth(Range(s), e.month)),
           ~LockedAt(Kept(t, q2), e.month, e.hlc)
    PROVE  e.id \in LateArrivals(t, Kept(t, q2))
<1> DEFINE old == OfMonth(Range(s), e.month)
           new == OfMonth(Range(t), e.month)
           L == LastOf(old)
           upTo == {f \in new : f.hlc <= e.hlc}
<1>1. PICK j \in DOMAIN t : t[j] = e
  BY DEF Range
<1>2. /\ DOMAIN s = 1..Len(s) /\ Len(s) \in Nat /\ DOMAIN t = 1..Len(t) /\ Len(t) \in Nat
      /\ \A i \in DOMAIN s : t[i] = s[i] /\ s[i] \in Range(s)
      /\ Range(s) \subseteq Range(t)
  BY GrownKeeps
<1>3. /\ Lawful(Range(t)) /\ Stamped(Range(t)) /\ Lawful(Range(s))
      /\ old \in SUBSET Range(s) /\ new \in SUBSET Range(t) /\ old \subseteq new
  BY <1>2, LawfulPart DEF Grown, OfMonth
<1>4. old # {} /\ L.type = "lock" /\ LastOf(new) = L /\ Binding(new)
  BY <1>3 DEF LockedNow, Binding
<1>5. L \in old /\ L \in new /\ \A f \in new : f.hlc <= L.hlc
  BY <1>3, <1>4, LastIsMember
<1>6. PICK l \in DOMAIN s : s[l] = L
  BY <1>3, <1>5 DEF Range
<1>7. j > Len(s) /\ l \in 1..(j - 1) /\ t[l] = L
  BY <1>1, <1>2, <1>6
<1>8. e.hlc < L.hlc
  <2>1. SUFFICES ASSUME ~(e.hlc < L.hlc) PROVE FALSE
    OBVIOUS
  <2>2. e \in Range(t) /\ L \in Range(t)
    BY <1>3, <1>5
  <2>3. e.hlc \in Ids /\ L.hlc \in Ids
    BY <1>3, <2>2, EventIds
  <2>4. L \in upTo /\ upTo \in SUBSET Range(t) /\ \A f \in upTo : f.hlc <= L.hlc
    BY <1>3, <1>5, <2>1, <2>3 DEF Ids
  <2>5. OfMonth(Kept(t, q2), e.month) = new
    BY ClosingsStay
  <2> HIDE DEF L
  <2>6. ~Binding(upTo)
    BY <2>5 DEF LockedAt
  <2> HIDE DEF upTo
  <2>7. LastOf(upTo) = L
    BY <1>3, <2>4, LastIs
  <2> QED BY <1>4, <2>4, <2>6, <2>7 DEF Binding
<1> HIDE DEF old, L
<1> QED BY <1>1, <1>4, <1>7, <1>8, LateIs

-----------------------------------------------------------------------------
(* One device before and after a step. *)

ReadsMirror(stored, q, entries) ==
    Reads(Kept(stored, q), LateArrivals(stored, Kept(stored, q)), entries)

Follows(s, q, E, t, q2, E2) ==
    /\ Grown(s, t) /\ q \subseteq q2 /\ ClosingsKept(t, q2)
    /\ ReadsMirror(s, q, E) /\ ReadsMirror(t, q2, E2)
    /\ \A e \in Kept(s, q) : Weighs(e, E2) => e.id \notin q2

\* An entry of the old books that is not set aside is in the new ones.
LEMMA RowFollows ==
    ASSUME NEW s, NEW q, NEW E, NEW t, NEW q2, NEW E2, Follows(s, q, E, t, q2, E2),
           NEW id \in DOMAIN E, id \notin q2
    PROVE  /\ id \in DOMAIN E2 /\ E2[id].event = E[id].event
           /\ E[id].event \in Range(s) /\ E[id].event.type = "entry" /\ E[id].event.id = id
<1> DEFINE e == E[id].event
<1>1. e \in Kept(s, q) /\ e.type = "entry" /\ e.id = id
  BY DEF Follows, ReadsMirror, Reads
<1>2. e \in Range(s) /\ e \in Kept(t, q2)
  BY <1>1, GrownKeeps DEF Follows, Kept
<1> HIDE DEF e
<1>3. id \in DOMAIN E2
  BY <1>1, <1>2 DEF Follows, ReadsMirror, Reads
<1>4. E2[id].event \in Kept(t, q2) /\ E2[id].event.id = id
  BY <1>3 DEF Follows, ReadsMirror, Reads
<1>5. E2[id].event = e
  BY <1>1, <1>2, <1>4 DEF Follows, Grown, Lawful, Kept
<1> QED BY <1>1, <1>2, <1>3, <1>5 DEF e

LEMMA CountedFollows ==
    ASSUME NEW s, NEW q, NEW E, NEW t, NEW q2, NEW E2, Follows(s, q, E, t, q2, E2),
           NEW id \in DOMAIN E, IsCounted(E[id]), id \notin q2
    PROVE  id \in DOMAIN E2 /\ (IsCounted(E2[id]) \/ E2[id].supersededBy # NoEntry)
<1> DEFINE e == E[id].event
<1>1. id \in DOMAIN E2 /\ E2[id].event = e /\ e \in Range(s) /\ e.type = "entry" /\ e.id = id
  BY RowFollows
<1>2. E2[id].status \in Statuses
  BY <1>1 DEF Follows, ReadsMirror, Reads
<1>3. /\ E2[id].status # "rejected"
      /\ E2[id].status = "superseded" => E2[id].supersededBy # NoEntry
      /\ E2[id].status = "pending" => e.pending
      /\ E2[id].status = "inTray" => id \in LateArrivals(t, Kept(t, q2))
  BY <1>1 DEF Follows, ReadsMirror, Reads, StatusInv
<1>4. E2[id].status # "inTray"
  <2>1. SUFFICES ASSUME e.id \in LateArrivals(t, Kept(t, q2)) PROVE FALSE
    BY <1>1, <1>3
  <2> HIDE DEF e
  <2>2. id \in LateArrivals(s, Kept(s, q))
    BY <1>1, <2>1, LateBefore DEF Follows
  <2> QED BY <2>2 DEF Follows, ReadsMirror, Reads, TrayNotCounted
<1>5. E2[id].status # "pending"
  <2>1. SUFFICES ASSUME e.pending, E2[id].status = "pending" PROVE FALSE
    BY <1>3
  <2>2. PICK a \in Kept(s, q) : Approves(a, e)
    BY <2>1 DEF Follows, ReadsMirror, Reads
  <2> HIDE DEF e
  <2>3. Weighs(a, E2)
    BY <1>1, <2>2 DEF Weighs, Approves
  <2>4. a \in Kept(t, q2)
    BY <2>3, GrownKeeps DEF Follows, Kept
  <2>5. E2[a.entry].status # "pending"
    BY <2>2, <2>4 DEF Approves, Follows, ReadsMirror, Reads
  <2> QED BY <1>1, <2>1, <2>2, <2>5 DEF Approves
<1> QED BY <1>1, <1>2, <1>3, <1>4, <1>5 DEF Statuses, IsCounted

LEMMA MonthFollows ==
    ASSUME NEW s, NEW q, NEW E, NEW t, NEW q2, NEW E2, Follows(s, q, E, t, q2, E2),
           NEW m, LockedNow(Range(s), m),
           LastOf(OfMonth(Range(t), m)) = LastOf(OfMonth(Range(s), m)),
           NEW id \in DOMAIN E2, E2[id].event.month = m, IsCounted(E2[id]), ~E2[id].event.pending,
           ~(id \in DOMAIN E /\ IsCounted(E[id]))
    PROVE  id \in DOMAIN E /\ E[id].supersededBy \in q2
<1> DEFINE e == E2[id].event
           tray == LateArrivals(t, Kept(t, q2))
<1>1. /\ e \in Kept(t, q2) /\ e.type = "entry" /\ e.id = id /\ id \notin q2
      /\ e \in Range(t) /\ e.month = m /\ ~e.pending
      /\ ~LockedAt(Kept(t, q2), e.month, e.hlc) /\ id \notin tray
  <2>1. e \in Kept(t, q2) /\ e.type = "entry" /\ e.id = id
    BY DEF Follows, ReadsMirror, Reads
  <2>2. ~LockedAt(Kept(t, q2), e.month, e.hlc) /\ id \notin tray
    BY DEF Follows, ReadsMirror, Reads, StatusInv, TrayNotCounted
  <2> QED BY <2>1, <2>2 DEF Kept
<1>2. CASE id \in DOMAIN E
  <2>1. E[id].event = e /\ e \in Range(s)
    BY <1>1, <1>2, RowFollows
  <2>2. E[id].status \in Statuses /\ ~IsCounted(E[id])
    BY <1>2 DEF Follows, ReadsMirror, Reads
  <2>3. /\ E[id].status # "rejected"
        /\ E[id].status = "superseded" => E[id].supersededBy # NoEntry
        /\ E[id].status = "pending" => e.pending
        /\ E[id].status = "inTray" => id \in LateArrivals(s, Kept(s, q))
    BY <1>2, <2>1 DEF Follows, ReadsMirror, Reads, StatusInv
  <2>4. E[id].status # "inTray"
    <3>1. SUFFICES ASSUME e.id \in LateArrivals(s, Kept(s, q)) PROVE FALSE
      BY <1>1, <2>3
    <3> HIDE DEF e, tray
    <3>2. e.id \in tray
      BY <1>1, <2>1, <3>1, LateStays DEF Follows, tray
    <3> QED BY <1>1, <3>2
  <2> DEFINE by == E[id].supersededBy
  <2>5. by # NoEntry /\ by \in DOMAIN E /\ E[by].event.amends = id
    <3>1. by # NoEntry
      BY <1>1, <2>2, <2>3, <2>4 DEF Statuses, IsCounted
    <3> QED BY <1>2, <3>1 DEF Follows, ReadsMirror, Reads, ChainInv
  <2>6. by \in q2
    <3>1. SUFFICES ASSUME by \notin q2 PROVE FALSE
      OBVIOUS
    <3>2. by \in DOMAIN E2 /\ E2[by].event.amends = id
      BY <2>5, <3>1, RowFollows
    <3>3. id # NoEntry
      BY <1>1, EventIds DEF Follows, Grown, Ids, NoEntry
    <3>4. E2[id].supersededBy = by
      BY <3>2, <3>3 DEF Follows, ReadsMirror, Reads, ChainInv
    <3>5. E2[id].status = "superseded"
      BY <1>1, <2>5, <3>4 DEF Follows, ReadsMirror, Reads, StatusInv
    <3> QED BY <3>5 DEF IsCounted
  <2> QED BY <1>2, <2>6
<1>3. CASE id \notin DOMAIN E
  <2>1. e \notin Kept(s, q)
    BY <1>1, <1>3 DEF Follows, ReadsMirror, Reads
  <2>2. e \notin Range(s)
    BY <1>1, <2>1 DEF Follows, Kept
  <2> HIDE DEF e, tray
  <2>3. e.id \in tray
    BY <1>1, <2>2, LateComes DEF Follows, tray
  <2> QED BY <1>1, <2>3
<1> QED BY <1>2, <1>3

-----------------------------------------------------------------------------
(* Mirrors grow at their end, and set no lock aside. *)

MirrorInv ==
    \A d \in Device : IsInjective(mirror[d]) /\ ClosingsKept(mirror[d], quarantined[d])

\* The rows that a step adds to a mirror.
Lengthens(s, t) == t \in Seq(Event) /\ IsInjective(t) /\ Extends(s, t)

LEMMA AppendLengthens ==
    ASSUME NEW s, NEW t, Lengthens(s, t), s \in Seq(Event), NEW e \in Event, e \notin Range(t)
    PROVE  /\ Lengthens(s, Append(t, e)) /\ Append(t, e) = t \o <<e>>
           /\ Range(Append(t, e)) = Range(t) \cup {e}
<1>1. /\ t \in Seq(Event) /\ Len(s) \in Nat /\ Len(t) \in Nat /\ Len(s) <= Len(t)
      /\ DOMAIN s = 1..Len(s) /\ DOMAIN t = 1..Len(t) /\ \A i \in DOMAIN s : t[i] = s[i]
  BY DEF Lengthens, Extends
<1>2. /\ Len(Append(t, e)) = Len(t) + 1
      /\ \A i \in 1..Len(t) : Append(t, e)[i] = t[i]
  BY <1>1
<1>3. Extends(s, Append(t, e))
  BY <1>1, <1>2 DEF Extends
<1>4. /\ Append(t, e) \in Seq(Event) /\ IsInjective(Append(t, e))
      /\ Range(Append(t, e)) = Range(t) \cup {e}
  BY <1>1, AppendDistinct DEF Lengthens
<1>5. Append(t, e) = t \o <<e>>
  BY <1>1
<1> QED BY <1>3, <1>4, <1>5 DEF Lengthens

LEMMA NothingLengthens ==
    ASSUME NEW s \in Seq(Event), IsInjective(s)
    PROVE  Lengthens(s, s)
<1>1. Len(s) \in Nat
  OBVIOUS
<1> QED BY <1>1 DEF Lengthens, Extends

\* A page is stored behind what the mirror holds, each row once.
LEMMA StoredLengthens ==
    ASSUME NEW rows \in Seq(Event), IsInjective(rows), NEW page \in Seq(Event)
    PROVE  Lengthens(rows, Stored(rows, page))
<1> DEFINE N == Len(page)
<1>1. PICK f : StoresRows(f, rows, page)
  BY StoredRuns
<1>2. N \in Nat /\ \A n \in 1..N : page[n] \in Event
  OBVIOUS
<1>3. f[0] = rows /\ Stored(rows, page) = f[N] /\ \A n \in 1..N : f[n] = StoredRow(f[n - 1], page[n])
  BY <1>1 DEF StoresRows
<1> HIDE DEF N
<1> DEFINE T == {n \in 0..N : Lengthens(rows, f[n])}
<1>4. 0 \in T
  BY <1>2, <1>3, NothingLengthens
<1>5. ASSUME NEW n \in 1..N, n - 1 \in T PROVE n \in T
  <2> DEFINE s == f[n - 1]
             e == page[n]
  <2>1. n \in 0..N /\ f[n] = StoredRow(s, e) /\ e \in Event /\ Lengthens(rows, s)
    BY <1>2, <1>3, <1>5
  <2> HIDE DEF s, e
  <2>2. Lengthens(rows, StoredRow(s, e))
    BY <2>1, AppendLengthens DEF StoredRow
  <2> QED BY <2>1, <2>2
<1> HIDE DEF T
<1>6. \A n \in 0..N : n \in T
  BY <1>2, <1>4, <1>5, UpTo
<1>7. N \in T
  BY <1>2, <1>6
<1> QED BY <1>3, <1>7 DEF T

\* Own rows are stamped anew, so the mirror does not hold them.
LEMMA OwnLengthens ==
    ASSUME LedgerInv, MirrorInv, NEW d \in Device, NEW e, Fits(Written, e)
    PROVE  /\ Lengthens(mirror[d], mirror[d] \o <<e>>)
           /\ \A f : Fits(Written \cup {e}, f) => Lengthens(mirror[d], mirror[d] \o <<e, f>>)
<1> DEFINE s == mirror[d]
<1>1. s \in Seq(Event) /\ Range(s) \subseteq Written /\ IsInjective(s)
  BY DEF LedgerInv, BooksKept, RowsInv, WrittenInv, MirrorInv
<1> HIDE DEF s
<1>2. e \in Event /\ e \notin Range(s)
  BY <1>1 DEF Fits, IdsOf
<1>3. /\ Lengthens(s, Append(s, e)) /\ Append(s, e) = s \o <<e>>
      /\ Range(Append(s, e)) = Range(s) \cup {e}
  BY <1>1, <1>2, NothingLengthens, AppendLengthens
<1>4. ASSUME NEW f, Fits(Written \cup {e}, f) PROVE Lengthens(s, s \o <<e, f>>)
  <2>1. f \in Event /\ f \notin Range(Append(s, e))
    BY <1>1, <1>3, <1>4 DEF Fits, IdsOf
  <2>2. Lengthens(s, Append(Append(s, e), f))
    BY <1>1, <1>3, <2>1, AppendLengthens
  <2>3. Append(Append(s, e), f) = s \o <<e, f>>
    BY <1>1, <1>2, <2>1
  <2> QED BY <2>2, <2>3
<1> QED BY <1>3, <1>4 DEF s

\* Every action adds rows to one mirror and rebuilds that device's books, or
\* leaves the books alone.
LEMMA NextLengthens ==
    ASSUME LedgerInv, MirrorInv, Next
    PROVE  \E d \in Device :
                \/ \E stored : Lengthens(mirror[d], stored) /\ Recomputed(d, stored)
                \/ UNCHANGED <<mirror, view, quarantined>>
<1>1. PICK d \in Device :
        \/ Post(d) \/ Amend(d) \/ ReverseEntry(d)
        \/ ApproveAdvance(d) \/ ApproveEntry(d) \/ RejectEntry(d) \/ RejectHalf(d)
        \/ LockMonth(d) \/ UnlockMonth(d)
        \/ Push(d) \/ Pull(d) \/ Show(d) \/ Restart(d)
  BY DEF Next
<1>2. mirror[d] \in Seq(Event) /\ IsInjective(mirror[d])
  BY DEF LedgerInv, BooksKept, RowsInv, MirrorInv
<1>3. \A es : AppendOwn(d, es) => Recomputed(d, mirror[d] \o es)
  BY DEF AppendOwn
<1>4. \A es : Write(d, es) => Recomputed(d, mirror[d] \o es)
  BY <1>3 DEF Write
<1>5. ASSUME \/ Post(d) \/ Amend(d) \/ ReverseEntry(d) \/ ApproveAdvance(d) \/ ApproveEntry(d)
             \/ LockMonth(d) \/ UnlockMonth(d)
      PROVE  \E stored : Lengthens(mirror[d], stored) /\ Recomputed(d, stored)
  <2>1. PICK e : Fits(Written, e) /\ Write(d, <<e>>)
    BY <1>5, FacadeWrites
  <2> QED BY <1>4, <2>1, OwnLengthens
<1>6. ASSUME RejectEntry(d)
      PROVE  \E stored : Lengthens(mirror[d], stored) /\ Recomputed(d, stored)
  <2>1. PICK e, f : Fits(Written, e) /\ Fits(Written \cup {e}, f) /\ Write(d, <<e, f>>)
    BY <1>6, RejectWrites
  <2> QED BY <1>4, <2>1, OwnLengthens
<1>7. ASSUME RejectHalf(d)
      PROVE  \E stored : Lengthens(mirror[d], stored) /\ Recomputed(d, stored)
  <2>1. PICK e : Fits(Written, e) /\ AppendOwn(d, <<e>>)
    BY <1>7, RejectHalfWrites
  <2> QED BY <1>3, <2>1, OwnLengthens
<1>8. ASSUME Pull(d)
      PROVE  \E stored : Lengthens(mirror[d], stored) /\ Recomputed(d, stored)
  <2> DEFINE page == SubSeq(log, cursor[d] + 1, Len(log))
  <2>1. Recomputed(d, Stored(mirror[d], page)) /\ cursor[d] < Len(log)
    BY <1>8 DEF Pull
  <2>2. log \in Seq(Event) /\ cursor[d] \in Nat
    BY DEF LedgerInv, BooksKept, WrittenInv, CountersInv
  <2>3. page \in Seq(Event)
    BY <2>1, <2>2
  <2> HIDE DEF page
  <2> QED BY <1>2, <2>1, <2>3, StoredLengthens
<1>9. ASSUME Restart(d)
      PROVE  \E stored : Lengthens(mirror[d], stored) /\ Recomputed(d, stored)
  BY <1>2, <1>9, NothingLengthens DEF Restart
<1>10. ASSUME Push(d) \/ Show(d) PROVE UNCHANGED <<mirror, view, quarantined>>
  BY <1>10 DEF Push, Show
<1> QED BY <1>1, <1>5, <1>6, <1>7, <1>8, <1>9, <1>10

LEMMA RebuildKeepsClosings ==
    ASSUME NEW S, NEW stored \in Seq(S), Lawful(Range(stored)), NEW q, ClosingsKept(stored, q)
    PROVE  ClosingsKept(stored, q \cup Rebuild(stored, q).refused)
<1> DEFINE events == Kept(stored, q)
           st == Project(events, LateArrivals(stored, events))
<1>1. Lawful(events)
  <2>1. events \in SUBSET Range(stored)
    BY DEF Kept
  <2> QED BY <2>1, LawfulPart
<1>2. Rebuild(stored, q).refused = st.refused \cup Orphans(st)
  BY DEF Rebuild, Kept
<1>3. SUFFICES ASSUME NEW e \in Range(stored), e.type \in {"lock", "unlock"}
               PROVE  e.id \notin q /\ e.id \notin st.refused /\ e.id \notin Orphans(st)
  BY <1>2 DEF ClosingsKept
<1>4. e.id \notin q /\ e \in events
  BY <1>3 DEF ClosingsKept, Kept
<1>5. e \notin Fallen(events, st)
  BY <1>1, <1>3, <1>4, ClosingsFold
<1>6. st.waiting \in [Ids -> Seq(events)]
  BY <1>1, ProjectFolds DEF FoldInv, FoldState
<1> HIDE DEF st, events
<1>7. e.id \notin st.refused /\ ~Waiting(st, e)
  BY <1>4, <1>5 DEF Fallen, InPlay
<1>8. ASSUME e.id \in Orphans(st) PROVE FALSE
  <2>1. PICK t \in Ids : \E w \in Range(st.waiting[t]) : w.id = e.id
    BY <1>6, <1>8 DEF Orphans
  <2>2. PICK w \in Range(st.waiting[t]) : w.id = e.id
    BY <2>1
  <2>3. w \in events
    <3>1. st.waiting[t] \in Seq(events)
      BY <1>6
    <3> QED BY <2>2, <3>1 DEF Range
  <2>4. w = e
    BY <1>1, <1>4, <2>2, <2>3 DEF Lawful
  <2> QED BY <1>7, <2>2, <2>4 DEF Waiting
<1> QED BY <1>4, <1>7, <1>8

LEMMA RebuildShows ==
    ASSUME NEW stored \in Seq(Event), Lawful(Range(stored)), Stamped(Range(stored)), NEW q
    PROVE  ReadsMirror(stored, q \cup Rebuild(stored, q).refused, Rebuild(stored, q).entries)
<1> DEFINE v == Rebuild(stored, q)
           again == Rebuild(stored, q \cup v.refused)
<1>1. again.entries = v.entries /\ again.refused = {}
  BY RebuildAgain
<1> DEFINE q2 == q \cup v.refused
<1>2. Rebuild(stored, q2).refused = {} /\ Rebuild(stored, q2).entries = v.entries
  BY <1>1
<1> HIDE DEF q2, v
<1>3. ReadsMirror(stored, q2, v.entries)
  BY <1>2, RebuildReads DEF ReadsMirror
<1> QED BY <1>3 DEF q2, v

\* What a device shows after a step follows from what it showed before.
LEMMA StepFollows ==
    ASSUME LedgerInv, RebuiltInv, MirrorInv, LedgerInv', [Next]_vars
    PROVE  /\ MirrorInv'
           /\ \A d \in Device : Follows(mirror[d], quarantined[d], view[d].entries,
                                        mirror'[d], quarantined'[d], view'[d].entries)
<1> DEFINE Sound(d) == /\ mirror[d] \in Seq(Event) /\ Lawful(Range(mirror[d]))
                       /\ Stamped(Range(mirror[d]))
<1>1. \A d \in Device : Sound(d) /\ Sound(d)'
  <2>1. ASSUME NEW d \in Device PROVE Sound(d)
    <3>1. mirror[d] \in Seq(Event) /\ Range(mirror[d]) \in SUBSET Written /\ Orderly(Written)
      BY DEF LedgerInv, BooksKept, RowsInv, WrittenInv
    <3> QED BY <3>1, LawfulPart DEF Orderly, Stamped
  <2>2. ASSUME NEW d \in Device PROVE Sound(d)'
    <3>1. mirror'[d] \in Seq(Event) /\ Range(mirror'[d]) \in SUBSET Written' /\ Orderly(Written')
      BY DEF LedgerInv, BooksKept, RowsInv, WrittenInv
    <3> QED BY <3>1, LawfulPart DEF Orderly, Stamped
  <2> QED BY <2>1, <2>2
<1>2. \A d \in Device : ReadsMirror(mirror[d], quarantined[d], view[d].entries)
  <2>1. SUFFICES ASSUME NEW d \in Device
                 PROVE  ReadsMirror(mirror[d], quarantined[d], view[d].entries)
    OBVIOUS
  <2>2. PICK q \in SUBSET quarantined[d] :
            view[d] = Rebuild(mirror[d], q) /\ quarantined[d] = q \cup view[d].refused
    BY DEF RebuiltInv
  <2>3. Sound(d)
    BY <1>1
  <2> QED BY <2>2, <2>3, RebuildShows
<1> DEFINE Fine(d) == /\ IsInjective(mirror'[d]) /\ ClosingsKept(mirror'[d], quarantined'[d])
                      /\ Follows(mirror[d], quarantined[d], view[d].entries,
                                 mirror'[d], quarantined'[d], view'[d].entries)
<1>3. SUFFICES \A d \in Device : Fine(d)
  BY DEF MirrorInv
<1>4. ASSUME NEW d \in Device, mirror'[d] = mirror[d], quarantined'[d] = quarantined[d],
             view'[d] = view[d]
      PROVE  Fine(d)
  <2>1. IsInjective(mirror[d]) /\ ClosingsKept(mirror[d], quarantined[d]) /\ Sound(d)
    BY <1>1 DEF MirrorInv
  <2>2. Extends(mirror[d], mirror[d])
    BY <2>1, NothingLengthens DEF Lengthens
  <2>3. \A e \in Kept(mirror[d], quarantined[d]) : e.id \notin quarantined[d]
    BY DEF Kept
  <2> QED BY <1>2, <1>4, <2>1, <2>2, <2>3 DEF Follows, Grown
<1>5. ASSUME NEW d \in Device, NEW stored, Lengthens(mirror[d], stored), Recomputed(d, stored)
      PROVE  \A x \in Device : Fine(x)
  <2> DEFINE v == Rebuild(stored, quarantined[d])
             q2 == quarantined[d] \cup v.refused
  <2>1. /\ mirror' = [mirror EXCEPT ![d] = stored] /\ view' = [view EXCEPT ![d] = v]
        /\ quarantined' = [quarantined EXCEPT ![d] = @ \cup v.refused]
    BY <1>5 DEF Recomputed
  <2>2. DOMAIN mirror = Device /\ DOMAIN view = Device /\ DOMAIN quarantined = Device
    BY DEF LedgerInv, BooksKept, RowsInv
  <2>3. mirror'[d] = stored /\ view'[d] = v /\ quarantined'[d] = q2
    BY <2>1, <2>2
  <2>4. \A x \in Device : x # d =>
          mirror'[x] = mirror[x] /\ view'[x] = view[x] /\ quarantined'[x] = quarantined[x]
    BY <2>1, <2>2
  <2>5. stored \in Seq(Event) /\ Lawful(Range(stored)) /\ Stamped(Range(stored))
    BY <1>1, <2>3
  <2>6. Grown(mirror[d], stored)
    BY <1>1, <1>5, <2>5 DEF Grown, Lengthens
  <2>7. ClosingsKept(stored, quarantined[d])
    <3>1. SUFFICES ASSUME NEW e \in Range(stored), e.type \in {"lock", "unlock"},
                          e.id \in quarantined[d]
                   PROVE  FALSE
      BY DEF ClosingsKept
    <3>2. quarantined[d] \subseteq IdsOf(Range(mirror[d]))
      BY DEF LedgerInv, BooksKept, RowsInv
    <3>3. PICK f \in Range(mirror[d]) : f.id = e.id
      BY <3>1, <3>2 DEF IdsOf
    <3>4. f = e
      BY <2>5, <2>6, <3>1, <3>3, GrownKeeps DEF Lawful
    <3> QED BY <3>1, <3>3, <3>4 DEF MirrorInv, ClosingsKept
  <2>8. ClosingsKept(stored, q2) /\ ReadsMirror(stored, q2, v.entries)
    BY <2>5, <2>7, RebuildKeepsClosings, RebuildShows
  <2>9. ASSUME NEW e \in Kept(mirror[d], quarantined[d]), Weighs(e, v.entries)
        PROVE  e.id \notin q2
    <3>1. e \in Kept(stored, quarantined[d]) /\ e.id \notin quarantined[d]
      BY <2>6, GrownKeeps DEF Kept
    <3> QED BY <2>5, <2>9, <3>1, RebuildSpares
  <2> HIDE DEF v
  <2>10. Fine(d)
    BY <1>2, <1>5, <2>3, <2>6, <2>8, <2>9 DEF Follows, Lengthens
  <2> HIDE DEF Fine
  <2> QED BY <1>4, <2>4, <2>10
<1>6. CASE UNCHANGED <<mirror, view, quarantined>>
  BY <1>4, <1>6
<1>7. CASE Next
  <2> HIDE DEF Fine
  <2> QED BY <1>5, <1>6, <1>7, NextLengthens
<1>8. CASE UNCHANGED vars
  BY <1>6, <1>8 DEF vars
<1> QED BY <1>7, <1>8

THEOREM MirrorInvHolds == Spec => []MirrorInv
<1>1. Init => MirrorInv
  <2>1. ASSUME Init, NEW d \in Device PROVE mirror[d] = <<>>
    BY <2>1 DEF Init
  <2>2. IsInjective(<<>>) /\ Range(<<>>) = {}
    BY DEF IsInjective, Range
  <2> QED BY <2>1, <2>2 DEF MirrorInv, ClosingsKept
<1>2. LedgerInv /\ RebuiltInv /\ MirrorInv /\ LedgerInv' /\ [Next]_vars => MirrorInv'
  BY StepFollows
<1> QED BY <1>1, <1>2, LedgerInvHolds, RebuiltInvHolds, PTL DEF Spec

\* Money that counts on a device goes on counting, whatever arrives: only what
\* is set aside as void or replaced by an amendment stops. A lock that arrives
\* never moves into the tray what stood before it, and no decision that counted
\* an advance is lost while the advance is shown (recompute.dart, projection.dart).
THEOREM CountedLeavesForAReasonHolds == Spec => CountedLeavesForAReason
<1> DEFINE Stays ==
        \A d \in Device : \A id \in DOMAIN view[d].entries :
            IsCounted(view[d].entries[id]) =>
                \/ id \in quarantined'[d]
                \/ Accepted(view'[d], id) /\ IsCounted(view'[d].entries[id])
                \/ Accepted(view'[d], id) /\ view'[d].entries[id].supersededBy # NoEntry
<1>1. LedgerInv /\ RebuiltInv /\ MirrorInv /\ LedgerInv' /\ [Next]_vars => Stays
  <2> SUFFICES ASSUME LedgerInv, RebuiltInv, MirrorInv, LedgerInv', [Next]_vars,
                      NEW d \in Device, NEW id \in DOMAIN view[d].entries,
                      IsCounted(view[d].entries[id]), id \notin quarantined'[d]
               PROVE  \/ Accepted(view'[d], id) /\ IsCounted(view'[d].entries[id])
                      \/ Accepted(view'[d], id) /\ view'[d].entries[id].supersededBy # NoEntry
    OBVIOUS
  <2>1. Follows(mirror[d], quarantined[d], view[d].entries,
                mirror'[d], quarantined'[d], view'[d].entries)
    BY StepFollows
  <2> QED BY <2>1, CountedFollows DEF Accepted
<1>2. CountedLeavesForAReason <=> [][Stays]_vars
  BY DEF CountedLeavesForAReason
<1> HIDE DEF Stays
<1> QED BY <1>1, <1>2, LedgerInvHolds, RebuiltInvHolds, MirrorInvHolds, PTL DEF Spec

\* A month that is locked on a device gains no money while the same lock is in
\* force, but for an advance that is approved or an entry whose amendment is set
\* aside: what was made before the lock and comes after it waits in the tray
\* (recompute.dart: the tray; projection.dart: PeriodTimeline).
THEOREM LockedMonthGainsForAReasonHolds == Spec => LockedMonthGainsForAReason
<1> DEFINE Apart ==
        \A d \in Device : \A m \in view[d].locked :
            LastOf(OfMonth(Range(mirror'[d]), m)) = LastOf(OfMonth(Range(mirror[d]), m)) =>
                \A id \in DOMAIN view'[d].entries :
                    LET p == view'[d].entries[id] IN
                    /\ p.event.month = m /\ IsCounted(p)
                    /\ ~(Accepted(view[d], id) /\ IsCounted(view[d].entries[id]))
                    => \/ p.event.pending
                       \/ /\ Accepted(view[d], id)
                          /\ view[d].entries[id].supersededBy \in quarantined'[d]
<1>1. LedgerInv /\ RebuiltInv /\ MirrorInv /\ LedgerInv' /\ [Next]_vars => Apart
  <2> SUFFICES ASSUME LedgerInv, RebuiltInv, MirrorInv, LedgerInv', [Next]_vars,
                      NEW d \in Device, NEW m \in view[d].locked,
                      LastOf(OfMonth(Range(mirror'[d]), m)) = LastOf(OfMonth(Range(mirror[d]), m)),
                      NEW id \in DOMAIN view'[d].entries,
                      view'[d].entries[id].event.month = m, IsCounted(view'[d].entries[id]),
                      ~(Accepted(view[d], id) /\ IsCounted(view[d].entries[id])),
                      ~view'[d].entries[id].event.pending
               PROVE  /\ Accepted(view[d], id)
                      /\ view[d].entries[id].supersededBy \in quarantined'[d]
    OBVIOUS
  <2>1. Follows(mirror[d], quarantined[d], view[d].entries,
                mirror'[d], quarantined'[d], view'[d].entries)
    BY StepFollows
  <2>2. LockedNow(Range(mirror[d]), m)
    <3>1. PICK q \in SUBSET quarantined[d] : view[d] = Rebuild(mirror[d], q)
      BY DEF RebuiltInv
    <3>2. LockedNow(Kept(mirror[d], q), m)
      BY <3>1 DEF Rebuild, Kept
    <3>3. ClosingsKept(mirror[d], q)
      BY <3>1 DEF MirrorInv, ClosingsKept
    <3> QED BY <3>2, <3>3, ClosingsStay DEF LockedNow
  <2> QED BY <2>1, <2>2, MonthFollows DEF Accepted
<1>2. LockedMonthGainsForAReason <=> [][Apart]_vars
  BY DEF LockedMonthGainsForAReason
<1> HIDE DEF Apart
<1> QED BY <1>1, <1>2, LedgerInvHolds, RebuiltInvHolds, MirrorInvHolds, PTL DEF Spec
=============================================================================
