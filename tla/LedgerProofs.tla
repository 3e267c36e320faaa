---------------------------- MODULE LedgerProofs ----------------------------
(***************************************************************************)
(* Proofs about LedgerProjection and LedgerDevices.  First what project()  *)
(* makes of a lawful set of events, whatever order they fold in: an        *)
(* invariant of its fold.  Then that the app's own writes, exchanged in    *)
(* any order by any number of devices, are always lawful.                  *)
(***************************************************************************)
EXTENDS LedgerDevices, FiniteSetTheorems, WellFoundedInduction, TLAPS

-----------------------------------------------------------------------------
(* What the app's writes promise of the events of a book. *)

Lawful(events) ==
    /\ events \subseteq Event
    /\ \A e, f \in events : e.id = f.id => e = f
    /\ \A e \in events : e.type = "entry" /\ e.reverses # NoEntry => ~e.pending
    /\ \A e, f \in events :
        /\ e.type = "entry" /\ f.type = "entry" /\ e.amends = f.id
                => e.reverses = f.reverses
        /\ e.type = "decision" /\ f.type = "entry" /\ e.entry = f.id /\ e.decision = "reject"
                => ~f.pending

-----------------------------------------------------------------------------
(* The state of the fold. *)

Ids == 1..MaxHlc

Statuses == {"posted", "pending", "inTray", "superseded", "voided", "rejected"}

Row(events) ==
    [event : events, status : Statuses, review : {"open", "none", "approved", "rejected"},
     supersededBy : 0..MaxHlc, reversedBy : 0..MaxHlc]

Partial(S, T) == UNION {[A -> T] : A \in SUBSET S}

FoldState(events) ==
    [entries : Partial(Ids, Row(events)), applied : Partial(Ids, Int), refused : SUBSET Ids,
     left : SUBSET events, waiting : [Ids -> Seq(events)], todo : Seq(events)]

\* The rows are of entries, each under its own id.
RowsNamed(entries) ==
    \A id \in DOMAIN entries :
        entries[id].event.type = "entry" /\ entries[id].event.id = id

\* The lines of an entry have been added once if it counts, and else not.
LinesOnce(entries, applied) ==
    /\ DOMAIN applied = DOMAIN entries
    /\ \A id \in DOMAIN entries : applied[id] = IF IsCounted(entries[id]) THEN 1 ELSE 0

\* An accepted reversal has voided its target and was not amended.
ReversalsVoid(entries) ==
    \A id \in DOMAIN entries :
        LET target == entries[id].event.reverses IN
        target # NoEntry =>
            /\ target \in DOMAIN entries /\ entries[target].reversedBy = id
            /\ entries[id].status \in {"posted", "voided", "inTray"}

\* A voided entry still counts, and the reversal it names is there.
VoidedCount(entries) ==
    \A id \in DOMAIN entries :
        LET by == entries[id].reversedBy IN
        by # NoEntry =>
            /\ by \in DOMAIN entries /\ entries[by].event.reverses = id
            /\ IsCounted(entries[id])

TrayNotCounted(entries, tray) ==
    \A id \in DOMAIN entries : id \in tray => ~IsCounted(entries[id])

BooksInv(tray, entries, applied) ==
    /\ RowsNamed(entries)
    /\ LinesOnce(entries, applied)
    /\ ReversalsVoid(entries)
    /\ VoidedCount(entries)
    /\ TrayNotCounted(entries, tray)

\* Every event that has still to fold is in one place, once, and waits there
\* for the target that is missing.
PlacesInv(st) ==
    /\ IsInjective(st.todo)
    /\ \A t \in Ids : IsInjective(st.waiting[t])
    /\ \A e \in st.left : e \notin Range(st.todo) /\ e.id \notin DOMAIN st.entries
    /\ \A e \in Range(st.todo) : e.id \notin DOMAIN st.entries
    /\ \A t \in Ids : \A e \in Range(st.waiting[t]) :
        /\ e \notin st.left /\ e \notin Range(st.todo)
        /\ e.id \notin DOMAIN st.entries
        /\ Dangling(st, e) = t

FoldInv(events, tray, st) ==
    /\ st \in FoldState(events)
    /\ BooksInv(tray, st.entries, st.applied)
    /\ PlacesInv(st)
    /\ st.refused \subseteq {e.id : e \in events}
-----------------------------------------------------------------------------
(* Sequences without repetition. *)

LEMMA RangeOfConcat ==
    ASSUME NEW S, NEW s \in Seq(S), NEW t \in Seq(S)
    PROVE  s \o t \in Seq(S) /\ Range(s \o t) = Range(s) \cup Range(t)
<1>1. \A i \in 1..Len(s) : s[i] = (s \o t)[i]
  OBVIOUS
<1>2. \A i \in 1..Len(t) : t[i] = (s \o t)[i + Len(s)]
  OBVIOUS
<1>3. /\ s \o t \in Seq(S) /\ DOMAIN (s \o t) = 1..(Len(s) + Len(t))
      /\ Len(s) \in Nat /\ Len(t) \in Nat /\ DOMAIN s = 1..Len(s) /\ DOMAIN t = 1..Len(t)
  OBVIOUS
<1>4. \A i \in 1..(Len(s) + Len(t)) :
        (s \o t)[i] = IF i <= Len(s) THEN s[i] ELSE t[i - Len(s)]
  OBVIOUS
<1>5. ASSUME NEW e \in Range(s \o t) PROVE e \in Range(s) \cup Range(t)
  <2>1. PICK i \in 1..(Len(s) + Len(t)) : e = (s \o t)[i]
    BY <1>3, <1>5 DEF Range
  <2>2. CASE i <= Len(s)
    BY <1>3, <1>4, <2>1, <2>2 DEF Range
  <2>3. CASE i > Len(s)
    <3>1. i - Len(s) \in 1..Len(t) /\ e = t[i - Len(s)]
      BY <1>3, <1>4, <2>1, <2>3
    <3> QED BY <1>3, <3>1 DEF Range
  <2> QED BY <1>3, <2>2, <2>3
<1>6. ASSUME NEW e \in Range(s) PROVE e \in Range(s \o t)
  <2>1. PICK i \in 1..Len(s) : e = s[i]
    BY <1>3, <1>6 DEF Range
  <2>2. i \in 1..(Len(s) + Len(t))
    BY <1>3
  <2> QED BY <1>1, <1>3, <2>1, <2>2 DEF Range
<1>7. ASSUME NEW e \in Range(t) PROVE e \in Range(s \o t)
  <2>1. PICK i \in 1..Len(t) : e = t[i]
    BY <1>3, <1>7 DEF Range
  <2>2. i + Len(s) \in 1..(Len(s) + Len(t))
    BY <1>3
  <2> QED BY <1>2, <1>3, <2>1, <2>2 DEF Range
<1> QED BY <1>3, <1>5, <1>6, <1>7

LEMMA ConcatDistinct ==
    ASSUME NEW S, NEW s \in Seq(S), NEW t \in Seq(S),
           IsInjective(s), IsInjective(t), Range(s) \cap Range(t) = {}
    PROVE  IsInjective(s \o t)
<1>1. \A i \in 1..Len(s) : (s \o t)[i] = s[i] /\ (s \o t)[i] \in Range(s)
  BY DEF Range
<1>2. \A i \in 1..(Len(s) + Len(t)) : i > Len(s) =>
        /\ i - Len(s) \in 1..Len(t) /\ (s \o t)[i] = t[i - Len(s)]
        /\ (s \o t)[i] \in Range(t)
  BY DEF Range
<1>3. DOMAIN (s \o t) = 1..(Len(s) + Len(t)) /\ Len(s) \in Nat /\ Len(t) \in Nat
  OBVIOUS
<1>4. SUFFICES ASSUME NEW i \in 1..(Len(s) + Len(t)), NEW j \in 1..(Len(s) + Len(t)),
                      (s \o t)[i] = (s \o t)[j]
               PROVE  i = j
  BY <1>3 DEF IsInjective
<1>5. CASE i <= Len(s) /\ j <= Len(s)
  <2>1. i \in DOMAIN s /\ j \in DOMAIN s /\ s[i] = s[j]
    BY <1>1, <1>3, <1>4, <1>5
  <2> QED BY <2>1 DEF IsInjective
<1>6. CASE i > Len(s) /\ j > Len(s)
  <2>1. i - Len(s) \in DOMAIN t /\ j - Len(s) \in DOMAIN t /\ t[i - Len(s)] = t[j - Len(s)]
    BY <1>2, <1>3, <1>4, <1>6
  <2>2. i - Len(s) = j - Len(s)
    BY <2>1 DEF IsInjective
  <2> QED BY <2>2, <1>3
<1>7. ~(i <= Len(s) /\ j > Len(s)) /\ ~(j <= Len(s) /\ i > Len(s))
  BY <1>1, <1>2, <1>3, <1>4
<1> QED BY <1>3, <1>5, <1>6, <1>7

LEMMA AppendDistinct ==
    ASSUME NEW S, NEW s \in Seq(S), NEW e \in S, IsInjective(s), e \notin Range(s)
    PROVE  /\ Append(s, e) \in Seq(S) /\ IsInjective(Append(s, e))
           /\ Range(Append(s, e)) = Range(s) \cup {e}
<1>1. /\ DOMAIN Append(s, e) = 1..(Len(s) + 1) /\ Len(s) \in Nat /\ DOMAIN s = 1..Len(s)
      /\ \A i \in 1..Len(s) : Append(s, e)[i] = s[i]
      /\ Append(s, e)[Len(s) + 1] = e
  OBVIOUS
<1>2. Range(Append(s, e)) = Range(s) \cup {e}
  BY <1>1 DEF Range
<1>3. ASSUME NEW i \in 1..(Len(s) + 1), NEW j \in 1..(Len(s) + 1),
             Append(s, e)[i] = Append(s, e)[j]
      PROVE  i = j
  <2>1. CASE i \in 1..Len(s) /\ j \in 1..Len(s)
    BY <1>1, <1>3, <2>1 DEF IsInjective
  <2>2. CASE i = Len(s) + 1 /\ j \in 1..Len(s)
    BY <1>1, <1>3, <2>2 DEF Range
  <2>3. CASE j = Len(s) + 1 /\ i \in 1..Len(s)
    BY <1>1, <1>3, <2>3 DEF Range
  <2> QED BY <1>1, <2>1, <2>2, <2>3
<1>4. Append(s, e) \in Seq(S)
  OBVIOUS
<1>5. IsInjective(Append(s, e))
  <2>1. SUFFICES ASSUME NEW i \in DOMAIN Append(s, e), NEW j \in DOMAIN Append(s, e),
                        Append(s, e)[i] = Append(s, e)[j]
                 PROVE  i = j
    BY DEF IsInjective
  <2> QED BY <1>1, <1>3, <2>1
<1> QED BY <1>2, <1>4, <1>5

LEMMA TailDistinct ==
    ASSUME NEW S, NEW s \in Seq(S), s # <<>>, IsInjective(s)
    PROVE  /\ Head(s) \in Range(s) /\ Tail(s) \in Seq(S) /\ IsInjective(Tail(s))
           /\ Range(Tail(s)) = Range(s) \ {Head(s)}
<1>1. /\ Len(s) \in Nat \ {0} /\ DOMAIN s = 1..Len(s) /\ Head(s) = s[1]
      /\ Tail(s) \in Seq(S)
      /\ DOMAIN Tail(s) = 1..(Len(s) - 1)
      /\ \A i \in 1..(Len(s) - 1) : Tail(s)[i] = s[i + 1]
  OBVIOUS
<1>2. IsInjective(Tail(s))
  BY <1>1 DEF IsInjective
<1>3. ASSUME NEW e \in Range(Tail(s)) PROVE e \in Range(s) /\ e # Head(s)
  <2>1. PICK i \in 1..(Len(s) - 1) : e = s[i + 1]
    BY <1>1, <1>3 DEF Range
  <2>2. i + 1 \in DOMAIN s /\ 1 \in DOMAIN s /\ i + 1 # 1
    BY <1>1
  <2> QED BY <2>1, <2>2, <1>1 DEF Range, IsInjective
<1>4. ASSUME NEW e \in Range(s), e # Head(s) PROVE e \in Range(Tail(s))
  <2>1. PICK i \in 1..Len(s) : e = s[i]
    BY <1>1, <1>4 DEF Range
  <2>2. i # 1 /\ i - 1 \in 1..(Len(s) - 1) /\ (i - 1) + 1 = i
    BY <2>1, <1>1, <1>4
  <2> QED BY <2>1, <2>2, <1>1 DEF Range
<1>5. Head(s) \in Range(s)
  BY <1>1 DEF Range
<1> QED BY <1>1, <1>2, <1>3, <1>4, <1>5

-----------------------------------------------------------------------------
(* Functions that grow, and the steps of the fold field by field. *)

LEMMA WithIsPartial ==
    ASSUME NEW S, NEW T, NEW f \in Partial(S, T), NEW x \in S, NEW v \in T
    PROVE  /\ With(f, x, v) \in Partial(S, T)
           /\ DOMAIN With(f, x, v) = DOMAIN f \cup {x}
           /\ With(f, x, v)[x] = v
           /\ \A i \in DOMAIN f : i # x => With(f, x, v)[i] = f[i]
<1>1. PICK A \in SUBSET S : f \in [A -> T]
  BY DEF Partial
<1>2. With(f, x, v) \in [A \cup {x} -> T]
  BY <1>1 DEF With
<1>3. A \cup {x} \in SUBSET S
  OBVIOUS
<1>4. With(f, x, v) \in Partial(S, T)
  BY <1>2, <1>3 DEF Partial
<1> QED BY <1>4 DEF With

LEMMA ExceptIsPartial ==
    ASSUME NEW S, NEW T, NEW f \in Partial(S, T), NEW x \in DOMAIN f, NEW v \in T
    PROVE  /\ [f EXCEPT ![x] = v] \in Partial(S, T)
           /\ DOMAIN [f EXCEPT ![x] = v] = DOMAIN f
           /\ [f EXCEPT ![x] = v][x] = v
           /\ \A i \in DOMAIN f : i # x => [f EXCEPT ![x] = v][i] = f[i]
<1>1. PICK A \in SUBSET S : f \in [A -> T]
  BY DEF Partial
<1>2. [f EXCEPT ![x] = v] \in [A -> T]
  BY <1>1
<1> QED BY <1>1, <1>2 DEF Partial

LEMMA PartialTypes ==
    ASSUME NEW S, NEW T, NEW f \in Partial(S, T)
    PROVE  /\ DOMAIN f \subseteq S /\ \A i \in DOMAIN f : f[i] \in T
           /\ f = [i \in DOMAIN f |-> f[i]]
BY DEF Partial

\* What a step leaves of the events that have still to fold.
SamePlaces(st, new) ==
    new.left = st.left /\ new.waiting = st.waiting /\ new.todo = st.todo

LEMMA ApplyIs ==
    ASSUME NEW events, NEW st \in FoldState(events), NEW id \in Ids, NEW n \in Int
    PROVE  LET new == Apply(st, id, n) IN
           /\ new \in FoldState(events) /\ SamePlaces(st, new)
           /\ new.entries = st.entries /\ new.refused = st.refused
           /\ new.applied = With(st.applied, id,
                              n + (IF id \in DOMAIN st.applied THEN st.applied[id] ELSE 0))
<1> DEFINE v == n + (IF id \in DOMAIN st.applied THEN st.applied[id] ELSE 0)
           w == With(st.applied, id, v)
<1>1. st.applied \in Partial(Ids, Int)
  BY DEF FoldState
<1>2. v \in Int
  BY <1>1, PartialTypes
<1>3. w \in Partial(Ids, Int)
  BY <1>1, <1>2, WithIsPartial
<1>4. Apply(st, id, n) = [st EXCEPT !.applied = w]
  BY DEF Apply
<1> HIDE DEF w, v
<1>5. /\ [st EXCEPT !.applied = w] \in FoldState(events)
      /\ [st EXCEPT !.applied = w].applied = w
      /\ [st EXCEPT !.applied = w].entries = st.entries
      /\ [st EXCEPT !.applied = w].refused = st.refused
      /\ SamePlaces(st, [st EXCEPT !.applied = w])
  BY <1>3 DEF FoldState, SamePlaces
<1> QED BY <1>4, <1>5 DEF w, v

LEMMA EntriesIs ==
    ASSUME NEW events, NEW st \in FoldState(events), NEW rows \in Partial(Ids, Row(events))
    PROVE  LET new == [st EXCEPT !.entries = rows] IN
           /\ new \in FoldState(events) /\ SamePlaces(st, new)
           /\ new.entries = rows /\ new.refused = st.refused /\ new.applied = st.applied
BY DEF FoldState, SamePlaces

\* The row an accepted entry gets.
NewRow(tray, ev) ==
    [event |-> ev, status |-> StatusOf(ev, tray),
     review |-> IF ev.flagged THEN "open" ELSE "none",
     supersededBy |-> NoEntry, reversedBy |-> NoEntry]

LEMMA EventIds ==
    ASSUME NEW events, Lawful(events)
    PROVE  /\ MaxHlc \in Nat
           /\ \A e \in events :
                /\ e.id \in Ids /\ e.hlc \in Ids
                /\ e.type \in {"entry", "decision", "lock", "unlock"}
                /\ e.type = "entry" =>
                    /\ e.pending \in BOOLEAN /\ e.flagged \in BOOLEAN
                    /\ e.amends \in 0..MaxHlc /\ e.reverses \in 0..MaxHlc
                /\ e.type = "decision" => e.entry \in Ids /\ e.decision \in Decisions
BY LedgerAssumption DEF Lawful, Event, Ids

LEMMA AcceptIs ==
    ASSUME NEW events, Lawful(events), NEW tray, NEW st \in FoldState(events),
           NEW ev \in events, ev.type = "entry",
           ev.id \notin DOMAIN st.applied
    PROVE  LET new == Accept(st, tray, ev) IN
           /\ new \in FoldState(events) /\ SamePlaces(st, new)
           /\ NewRow(tray, ev) \in Row(events)
           /\ new.entries = With(st.entries, ev.id, NewRow(tray, ev))
           /\ new.refused = st.refused
           /\ new.applied = With(st.applied, ev.id,
                                 IF StatusOf(ev, tray) = "posted" THEN 1 ELSE 0)
<1> DEFINE rows == With(st.entries, ev.id, NewRow(tray, ev))
           n == IF StatusOf(ev, tray) = "posted" THEN 1 ELSE 0
           mid == [st EXCEPT !.entries = rows]
<1>1. NewRow(tray, ev) \in Row(events)
  BY EventIds DEF NewRow, Row, StatusOf, Statuses, NoEntry
<1>2. rows \in Partial(Ids, Row(events))
  <2>1. st.entries \in Partial(Ids, Row(events)) /\ ev.id \in Ids
    BY EventIds DEF FoldState
  <2> QED BY <1>1, <2>1, WithIsPartial
<1>3. n \in Int /\ ev.id \in Ids
  BY EventIds
<1>4. Accept(st, tray, ev) = Apply(mid, ev.id, n)
  BY DEF Accept, NewRow
<1> HIDE DEF rows, n
<1>5. /\ mid \in FoldState(events) /\ SamePlaces(st, mid)
      /\ mid.entries = rows /\ mid.refused = st.refused /\ mid.applied = st.applied
  BY <1>2, EntriesIs
<1> HIDE DEF mid
<1>6. /\ Apply(mid, ev.id, n) \in FoldState(events) /\ SamePlaces(mid, Apply(mid, ev.id, n))
      /\ Apply(mid, ev.id, n).entries = mid.entries
      /\ Apply(mid, ev.id, n).refused = mid.refused
      /\ Apply(mid, ev.id, n).applied = With(mid.applied, ev.id,
            n + (IF ev.id \in DOMAIN mid.applied THEN mid.applied[ev.id] ELSE 0))
  BY <1>3, <1>5, ApplyIs
<1>7. n + (IF ev.id \in DOMAIN mid.applied THEN mid.applied[ev.id] ELSE 0) = n
  BY <1>3, <1>5
<1>8. SamePlaces(st, Apply(mid, ev.id, n))
  BY <1>5, <1>6 DEF SamePlaces
<1> QED BY <1>1, <1>4, <1>5, <1>6, <1>7, <1>8 DEF rows, n

LEMMA SupersedeIs ==
    ASSUME NEW events, Lawful(events), NEW st \in FoldState(events),
           NEW ev \in events, ev.type = "entry", ev.amends # NoEntry,
           ev.amends \in DOMAIN st.entries, DOMAIN st.applied = DOMAIN st.entries
    PROVE  LET x == ev.amends
               new == Supersede(st, ev) IN
           /\ new \in FoldState(events) /\ SamePlaces(st, new) /\ new.refused = st.refused
           /\ DOMAIN new.entries = DOMAIN st.entries
           /\ DOMAIN new.applied = DOMAIN st.entries
           /\ new.entries[x].status = "superseded"
           /\ new.entries[x].event = st.entries[x].event
           /\ new.entries[x].reversedBy = st.entries[x].reversedBy
           /\ new.applied[x] = st.applied[x] - (IF IsCounted(st.entries[x]) THEN 1 ELSE 0)
           /\ \A i \in DOMAIN st.entries : i # x =>
                new.entries[i] = st.entries[i] /\ new.applied[i] = st.applied[i]
<1> DEFINE target == ev.amends
           changed == [st.entries[target] EXCEPT !.status = "superseded", !.supersededBy = ev.id]
           rows == [st.entries EXCEPT ![target] = changed]
           mid == [st EXCEPT !.entries = rows]
           n == IF IsCounted(st.entries[target]) THEN -1 ELSE 0
<1>1. /\ st.entries \in Partial(Ids, Row(events)) /\ st.applied \in Partial(Ids, Int)
      /\ ev.id \in Ids
  BY EventIds DEF FoldState
<1>2. target \in Ids /\ st.entries[target] \in Row(events) /\ st.applied[target] \in Int
  BY <1>1, PartialTypes
<1>3. /\ changed \in Row(events) /\ changed.status = "superseded"
      /\ changed.event = st.entries[target].event /\ changed.reversedBy = st.entries[target].reversedBy
  <2>1. "superseded" \in Statuses /\ ev.id \in 0..MaxHlc
    BY <1>1 DEF Ids, Statuses
  <2>2. PICK r \in Row(events) : r = st.entries[target]
    BY <1>2
  <2>3. LET new == [r EXCEPT !.status = "superseded", !.supersededBy = ev.id] IN
        /\ new \in Row(events) /\ new.status = "superseded"
        /\ new.event = r.event /\ new.reversedBy = r.reversedBy
    BY <2>1 DEF Row
  <2> QED BY <2>2, <2>3
<1>4. n \in Int
  OBVIOUS
<1>5. Supersede(st, ev) = Apply(mid, target, n)
  <2>1. [st EXCEPT !.entries[target].status = "superseded", !.entries[target].supersededBy = ev.id]
            = mid
    BY <1>1, <1>2 DEF FoldState
  <2> QED BY <2>1 DEF Supersede
<1> HIDE DEF changed, n
<1>6. /\ rows \in Partial(Ids, Row(events)) /\ DOMAIN rows = DOMAIN st.entries
      /\ rows[target] = changed /\ \A i \in DOMAIN st.entries : i # target => rows[i] = st.entries[i]
  BY <1>1, <1>3, ExceptIsPartial
<1> HIDE DEF rows
<1>7. /\ mid \in FoldState(events) /\ SamePlaces(st, mid)
      /\ mid.entries = rows /\ mid.refused = st.refused /\ mid.applied = st.applied
  BY <1>6, EntriesIs
<1> HIDE DEF mid
<1> DEFINE sum == n + (IF target \in DOMAIN mid.applied THEN mid.applied[target] ELSE 0)
<1>8. /\ Apply(mid, target, n) \in FoldState(events) /\ SamePlaces(mid, Apply(mid, target, n))
      /\ Apply(mid, target, n).entries = mid.entries
      /\ Apply(mid, target, n).refused = mid.refused
      /\ Apply(mid, target, n).applied = With(mid.applied, target, sum)
  BY SMTT(30), <1>2, <1>4, <1>7, ApplyIs
<1>9. sum = st.applied[target] - (IF IsCounted(st.entries[target]) THEN 1 ELSE 0) /\ sum \in Int
  BY <1>2, <1>7 DEF n
<1>10. SamePlaces(st, Apply(mid, target, n))
  BY <1>7, <1>8 DEF SamePlaces
<1> HIDE DEF sum, target
<1>11. /\ DOMAIN With(st.applied, target, sum) = DOMAIN st.applied
       /\ With(st.applied, target, sum)[target] = sum
       /\ \A i \in DOMAIN st.applied : i # target => With(st.applied, target, sum)[i] = st.applied[i]
  <2>1. st.applied \in Partial(Ids, Int) /\ target \in Ids /\ sum \in Int
    BY <1>1, <1>2, <1>9
  <2>2. target \in DOMAIN st.applied
    BY DEF target
  <2>3. DOMAIN st.applied \cup {target} = DOMAIN st.applied
    BY <2>2
  <2>4. DOMAIN With(st.applied, target, sum) = DOMAIN st.applied \cup {target}
    BY <2>1 DEF With
  <2>5. With(st.applied, target, sum)[target] = sum
    BY <2>1 DEF With
  <2>6. \A i \in DOMAIN st.applied : i # target => With(st.applied, target, sum)[i] = st.applied[i]
    BY <2>1 DEF With
  <2> QED BY <2>3, <2>4, <2>5, <2>6
<1> QED BY <1>3, <1>5, <1>6, <1>7, <1>8, <1>9, <1>10, <1>11, SMTT(20) DEF target

LEMMA VoidIs ==
    ASSUME NEW events, Lawful(events), NEW st \in FoldState(events),
           NEW ev \in events, ev.type = "entry", ev.reverses # NoEntry,
           ev.reverses \in DOMAIN st.entries
    PROVE  LET y == ev.reverses
               new == Void(st, ev) IN
           /\ new \in FoldState(events) /\ SamePlaces(st, new)
           /\ new.refused = st.refused /\ new.applied = st.applied
           /\ DOMAIN new.entries = DOMAIN st.entries
           /\ new.entries[y].status = "voided" /\ new.entries[y].reversedBy = ev.id
           /\ new.entries[y].event = st.entries[y].event
           /\ \A i \in DOMAIN st.entries : i # y => new.entries[i] = st.entries[i]
<1> DEFINE target == ev.reverses
           changed == [st.entries[target] EXCEPT !.status = "voided", !.reversedBy = ev.id]
           rows == [st.entries EXCEPT ![target] = changed]
           mid == [st EXCEPT !.entries = rows]
<1>1. st.entries \in Partial(Ids, Row(events)) /\ ev.id \in Ids
  BY EventIds DEF FoldState
<1>2. target \in Ids /\ st.entries[target] \in Row(events)
  BY <1>1, PartialTypes
<1>3. /\ changed \in Row(events) /\ changed.status = "voided" /\ changed.reversedBy = ev.id
      /\ changed.event = st.entries[target].event
  <2>1. "voided" \in Statuses /\ ev.id \in 0..MaxHlc
    BY <1>1 DEF Ids, Statuses
  <2>2. PICK r \in Row(events) : r = st.entries[target]
    BY <1>2
  <2>3. LET new == [r EXCEPT !.status = "voided", !.reversedBy = ev.id] IN
        /\ new \in Row(events) /\ new.status = "voided" /\ new.reversedBy = ev.id
        /\ new.event = r.event
    BY <2>1 DEF Row
  <2> QED BY <2>2, <2>3
<1>4. Void(st, ev) = mid
  <2>1. [st EXCEPT !.entries[target].status = "voided", !.entries[target].reversedBy = ev.id] = mid
    BY <1>1, <1>2 DEF FoldState
  <2> QED BY <2>1 DEF Void
<1> HIDE DEF changed
<1>5. /\ rows \in Partial(Ids, Row(events)) /\ DOMAIN rows = DOMAIN st.entries
      /\ rows[target] = changed /\ \A i \in DOMAIN st.entries : i # target => rows[i] = st.entries[i]
  BY <1>1, <1>3, ExceptIsPartial
<1> HIDE DEF rows
<1>6. /\ mid \in FoldState(events) /\ SamePlaces(st, mid)
      /\ mid.entries = rows /\ mid.refused = st.refused /\ mid.applied = st.applied
  BY <1>5, EntriesIs
<1> HIDE DEF mid, target
<1> QED BY <1>3, <1>4, <1>5, <1>6 DEF target

-----------------------------------------------------------------------------
(* An accepted entry keeps the books. *)

LEMMA NewRowIs ==
    ASSUME NEW tray, NEW ev
    PROVE  /\ NewRow(tray, ev).event = ev
           /\ NewRow(tray, ev).reversedBy = NoEntry
           /\ NewRow(tray, ev).status \in {"inTray", "pending", "posted"}
           /\ ev.id \in tray <=> NewRow(tray, ev).status = "inTray"
           /\ ~ev.pending => NewRow(tray, ev).status \in {"inTray", "posted"}
           /\ IsCounted(NewRow(tray, ev)) <=> StatusOf(ev, tray) = "posted"
<1>1. /\ NewRow(tray, ev).event = ev /\ NewRow(tray, ev).reversedBy = NoEntry
      /\ NewRow(tray, ev).status = StatusOf(ev, tray)
  BY DEF NewRow
<1>2. StatusOf(ev, tray) = IF ev.id \in tray THEN "inTray"
                           ELSE IF ev.pending THEN "pending" ELSE "posted"
  <2>1. CASE ev.id \in tray
    BY <2>1 DEF StatusOf
  <2>2. CASE ev.id \notin tray /\ ev.pending
    BY <2>2 DEF StatusOf
  <2>3. CASE ev.id \notin tray /\ ~ev.pending
    BY <2>3 DEF StatusOf
  <2> QED BY <2>1, <2>2, <2>3
<1>3. \A row : row.status = StatusOf(ev, tray) =>
        (IsCounted(row) <=> StatusOf(ev, tray) = "posted")
  BY <1>2 DEF IsCounted
<1> QED BY <1>1, <1>2, <1>3

\* A row is added and the others are as they were.
Joins(entries, applied, tray, ev, newEntries, newApplied, touched) ==
    /\ DOMAIN newEntries = DOMAIN entries \cup {ev.id}
    /\ DOMAIN newApplied = DOMAIN entries \cup {ev.id}
    /\ newEntries[ev.id] = NewRow(tray, ev)
    /\ newApplied[ev.id] = IF StatusOf(ev, tray) = "posted" THEN 1 ELSE 0
    /\ \A i \in DOMAIN entries : i \notin touched =>
        newEntries[i] = entries[i] /\ newApplied[i] = applied[i]

LEMMA PlainEntryJoins ==
    ASSUME NEW tray, NEW ev, NEW E, NEW A, NEW E1, NEW A1,
           BooksInv(tray, E, A), Joins(E, A, tray, ev, E1, A1, {}),
           ev.type = "entry", ev.id \notin DOMAIN E, ev.reverses = NoEntry
    PROVE  BooksInv(tray, E1, A1)
<1>1. /\ DOMAIN E1 = DOMAIN E \cup {ev.id} /\ DOMAIN A1 = DOMAIN E \cup {ev.id}
      /\ E1[ev.id].event = ev /\ E1[ev.id].reversedBy = NoEntry
      /\ ev.id \in tray => ~IsCounted(E1[ev.id])
      /\ A1[ev.id] = IF IsCounted(E1[ev.id]) THEN 1 ELSE 0
      /\ \A i \in DOMAIN E : E1[i] = E[i] /\ A1[i] = A[i]
  <2>1. E1[ev.id] = NewRow(tray, ev)
    BY DEF Joins
  <2>2. ev.id \in tray => ~IsCounted(NewRow(tray, ev))
    BY NewRowIs DEF IsCounted
  <2> QED BY <2>1, <2>2, NewRowIs DEF Joins
<1>2. RowsNamed(E1)
  BY <1>1 DEF BooksInv, RowsNamed
<1>3. LinesOnce(E1, A1)
  BY <1>1 DEF BooksInv, LinesOnce
<1>4. ReversalsVoid(E1)
  BY <1>1 DEF BooksInv, ReversalsVoid
<1>5. VoidedCount(E1)
  BY <1>1 DEF BooksInv, VoidedCount
<1>6. TrayNotCounted(E1, tray)
  BY <1>1 DEF BooksInv, TrayNotCounted
<1> QED BY <1>2, <1>3, <1>4, <1>5, <1>6 DEF BooksInv

LEMMA AmendmentJoins ==
    ASSUME NEW tray, NEW ev, NEW E, NEW A, NEW E1, NEW A1, NEW x \in DOMAIN E,
           BooksInv(tray, E, A), Joins(E, A, tray, ev, E1, A1, {x}),
           ev.type = "entry", ev.id \notin DOMAIN E, ev.reverses = NoEntry,
           E[x].event.reverses = NoEntry, E[x].reversedBy = NoEntry,
           E1[x].status = "superseded", E1[x].event = E[x].event,
           E1[x].reversedBy = E[x].reversedBy,
           A1[x] = A[x] - (IF IsCounted(E[x]) THEN 1 ELSE 0)
    PROVE  BooksInv(tray, E1, A1)
<1>1. /\ DOMAIN E1 = DOMAIN E \cup {ev.id} /\ DOMAIN A1 = DOMAIN E \cup {ev.id}
      /\ E1[ev.id].event = ev /\ E1[ev.id].reversedBy = NoEntry
      /\ ev.id \in tray => ~IsCounted(E1[ev.id])
      /\ A1[ev.id] = IF IsCounted(E1[ev.id]) THEN 1 ELSE 0
      /\ \A i \in DOMAIN E : i # x => E1[i] = E[i] /\ A1[i] = A[i]
  <2>1. E1[ev.id] = NewRow(tray, ev)
    BY DEF Joins
  <2>2. ev.id \in tray => ~IsCounted(NewRow(tray, ev))
    BY NewRowIs DEF IsCounted
  <2> QED BY <2>1, <2>2, NewRowIs DEF Joins
<1>2. RowsNamed(E1)
  BY <1>1 DEF BooksInv, RowsNamed
<1>3. ~IsCounted(E1[x]) /\ A1[x] = 0
  BY DEF BooksInv, LinesOnce, IsCounted
<1>4. LinesOnce(E1, A1)
  BY <1>1, <1>3 DEF BooksInv, LinesOnce
<1>5. ReversalsVoid(E1)
  BY <1>1 DEF BooksInv, ReversalsVoid
<1>6. VoidedCount(E1)
  BY <1>1 DEF BooksInv, VoidedCount
<1>7. TrayNotCounted(E1, tray)
  BY <1>1, <1>3 DEF BooksInv, TrayNotCounted
<1> QED BY <1>2, <1>4, <1>5, <1>6, <1>7 DEF BooksInv

LEMMA ReversalJoins ==
    ASSUME NEW tray, NEW ev, NEW E, NEW A, NEW E1, NEW A1, NEW y \in DOMAIN E,
           BooksInv(tray, E, A),
           Joins(E, A, tray, ev, E1, A1, {y}),
           ev.type = "entry", ev.id \notin DOMAIN E, NoEntry \notin DOMAIN E,
           ev.reverses = y, ~ev.pending,
           E[y].reversedBy = NoEntry, E[y].status = "posted",
           E1[y].status = "voided", E1[y].event = E[y].event, E1[y].reversedBy = ev.id,
           A1[y] = A[y]
    PROVE  BooksInv(tray, E1, A1)
<1>1. /\ DOMAIN E1 = DOMAIN E \cup {ev.id} /\ DOMAIN A1 = DOMAIN E \cup {ev.id}
      /\ E1[ev.id].event = ev /\ E1[ev.id].reversedBy = NoEntry
      /\ ev.id \in tray => ~IsCounted(E1[ev.id])
      /\ E1[ev.id].status \in {"inTray", "posted"}
      /\ A1[ev.id] = IF IsCounted(E1[ev.id]) THEN 1 ELSE 0
      /\ \A i \in DOMAIN E : i # y => E1[i] = E[i] /\ A1[i] = A[i]
  <2>1. E1[ev.id] = NewRow(tray, ev)
    BY DEF Joins
  <2>2. ev.id \in tray => ~IsCounted(NewRow(tray, ev))
    BY NewRowIs DEF IsCounted
  <2> QED BY <2>1, <2>2, NewRowIs DEF Joins
<1>2. RowsNamed(E1)
  BY <1>1 DEF BooksInv, RowsNamed
<1>3. IsCounted(E1[y]) /\ IsCounted(E[y]) /\ A1[y] = 1 /\ y \notin tray
  BY DEF BooksInv, LinesOnce, IsCounted, TrayNotCounted
<1>4. LinesOnce(E1, A1)
  BY <1>1, <1>3 DEF BooksInv, LinesOnce
<1>5. ReversalsVoid(E1)
  <2>1. SUFFICES ASSUME NEW id \in DOMAIN E1, E1[id].event.reverses # NoEntry
                 PROVE  /\ E1[id].event.reverses \in DOMAIN E1
                        /\ E1[E1[id].event.reverses].reversedBy = id
                        /\ E1[id].status \in {"posted", "voided", "inTray"}
    BY DEF ReversalsVoid
  <2>2. CASE id = ev.id
    BY <1>1, <2>2
  <2>3. CASE id \in DOMAIN E
    <3>1. /\ E1[id].event = E[id].event
          /\ E[id].event.reverses \in DOMAIN E
          /\ E[E[id].event.reverses].reversedBy = id
          /\ E[id].status \in {"posted", "voided", "inTray"}
      BY <1>1, <2>1, <2>3 DEF BooksInv, ReversalsVoid
    <3>2. id # NoEntry
      BY <2>3
    <3> QED BY <1>1, <2>3, <3>1, <3>2
  <2> QED BY <1>1, <2>2, <2>3
<1>6. VoidedCount(E1)
  BY <1>1, <1>3 DEF BooksInv, VoidedCount
<1>7. TrayNotCounted(E1, tray)
  BY <1>1, <1>3 DEF BooksInv, TrayNotCounted
<1> QED BY <1>2, <1>4, <1>5, <1>6, <1>7 DEF BooksInv

\* The state after an entry is accepted, before what waited for it is released.
Joined(tray, st, ev) == Void(Supersede(Accept(st, tray, ev), ev), ev)

LEMMA EntryJoins ==
    ASSUME NEW events, Lawful(events), NEW tray, NEW st \in FoldState(events),
           BooksInv(tray, st.entries, st.applied),
           NEW ev \in events, ev.type = "entry", ev.id \notin DOMAIN st.entries,
           Dangling(st, ev) = NoEntry, ~Faulty(events, st, ev)
    PROVE  LET new == Joined(tray, st, ev) IN
           /\ new \in FoldState(events) /\ SamePlaces(st, new) /\ new.refused = st.refused
           /\ DOMAIN new.entries = DOMAIN st.entries \cup {ev.id}
           /\ BooksInv(tray, new.entries, new.applied)
<1> DEFINE a == Accept(st, tray, ev)
           E == st.entries
           A == st.applied
<1>1. /\ ev.id \in Ids /\ ev.amends \in 0..MaxHlc /\ ev.reverses \in 0..MaxHlc
      /\ MaxHlc \in Nat /\ ev.pending \in BOOLEAN
  BY EventIds
<1>2. /\ DOMAIN A = DOMAIN E /\ DOMAIN E \subseteq Ids /\ NoEntry \notin DOMAIN E
      /\ E \in Partial(Ids, Row(events)) /\ A \in Partial(Ids, Int)
      /\ \A i \in DOMAIN E : E[i] \in Row(events)
  <2>1. E \in Partial(Ids, Row(events)) /\ A \in Partial(Ids, Int)
    BY DEF FoldState
  <2>2. DOMAIN E \subseteq Ids /\ \A i \in DOMAIN E : E[i] \in Row(events)
    BY <2>1, PartialTypes
  <2>3. NoEntry \notin Ids
    BY <1>1 DEF Ids, NoEntry
  <2> QED BY <2>1, <2>2, <2>3 DEF BooksInv, LinesOnce
<1>3. /\ a \in FoldState(events) /\ SamePlaces(st, a) /\ a.refused = st.refused
      /\ DOMAIN a.entries = DOMAIN E \cup {ev.id}
      /\ DOMAIN a.applied = DOMAIN E \cup {ev.id}
      /\ a.entries[ev.id] = NewRow(tray, ev)
      /\ a.applied[ev.id] = IF StatusOf(ev, tray) = "posted" THEN 1 ELSE 0
      /\ \A i \in DOMAIN E : a.entries[i] = E[i] /\ a.applied[i] = A[i]
  <2> DEFINE n == IF StatusOf(ev, tray) = "posted" THEN 1 ELSE 0
  <2>1. /\ a \in FoldState(events) /\ SamePlaces(st, a) /\ a.refused = st.refused
        /\ a.entries = With(E, ev.id, NewRow(tray, ev))
        /\ a.applied = With(A, ev.id, n)
    BY <1>2, AcceptIs
  <2> HIDE DEF n, a
  <2>2. /\ DOMAIN a.entries = DOMAIN E \cup {ev.id}
        /\ a.entries[ev.id] = NewRow(tray, ev)
        /\ \A i \in DOMAIN E : a.entries[i] = E[i]
    BY <2>1 DEF With
  <2>3. /\ DOMAIN a.applied = DOMAIN E \cup {ev.id} /\ a.applied[ev.id] = n
        /\ \A i \in DOMAIN E : a.applied[i] = A[i]
    BY <2>1, <1>2 DEF With
  <2> QED BY <2>1, <2>2, <2>3 DEF n
<1>4. /\ ev.amends # NoEntry =>
            /\ ev.amends \in DOMAIN E /\ E[ev.amends].reversedBy = NoEntry
            /\ E[ev.amends].event.reverses = ev.reverses
      /\ ev.reverses # NoEntry =>
            /\ ev.reverses \in DOMAIN E /\ E[ev.reverses].reversedBy = NoEntry
            /\ E[ev.reverses].status = "posted"
  <2>1. /\ ev.amends # NoEntry => ev.amends \in DOMAIN E
        /\ ev.reverses # NoEntry => ev.reverses \in DOMAIN E
    BY <1>1 DEF Dangling, Accepted, NoEntry
  <2>2. ev.amends # NoEntry => E[ev.amends].reversedBy = NoEntry
    BY DEF Faulty, BadAmendment
  <2>3. ev.reverses # NoEntry =>
            E[ev.reverses].reversedBy = NoEntry /\ E[ev.reverses].status = "posted"
    BY DEF Faulty, BadReversal
  <2>4. ASSUME ev.amends # NoEntry PROVE E[ev.amends].event.reverses = ev.reverses
    <3>1. /\ E[ev.amends].event.type = "entry" /\ E[ev.amends].event.id = ev.amends
      BY <2>1, <2>4 DEF BooksInv, RowsNamed
    <3>2. E[ev.amends].event \in events
      BY <2>1, <2>4, <1>2 DEF Row
    <3> QED BY <3>1, <3>2 DEF Lawful
  <2> QED BY <2>1, <2>2, <2>3, <2>4
<1>5. ~(ev.amends # NoEntry /\ ev.reverses # NoEntry)
  <2>1. SUFFICES ASSUME ev.amends # NoEntry, ev.reverses # NoEntry PROVE FALSE
    OBVIOUS
  <2>2. E[ev.reverses].reversedBy = ev.amends
    BY <1>4, <2>1 DEF BooksInv, ReversalsVoid
  <2> QED BY <1>4, <2>1, <2>2
<1> HIDE DEF a
<1>6. CASE ev.amends = NoEntry /\ ev.reverses = NoEntry
  <2>1. Joined(tray, st, ev) = a
    BY <1>6 DEF Joined, Supersede, Void, a
  <2>2. Joins(E, A, tray, ev, a.entries, a.applied, {})
    BY <1>3 DEF Joins
  <2>3. BooksInv(tray, a.entries, a.applied)
    BY <1>6, <2>2, PlainEntryJoins
  <2> QED BY <1>3, <2>1, <2>3
<1>7. CASE ev.amends # NoEntry /\ ev.reverses = NoEntry
  <2> DEFINE x == ev.amends
             b == Supersede(a, ev)
  <2>1. Joined(tray, st, ev) = b
    BY <1>7 DEF Joined, Void, a
  <2>2. x \in DOMAIN E /\ x \in DOMAIN a.entries /\ x # ev.id
    BY <1>3, <1>4, <1>7
  <2>3. /\ b \in FoldState(events) /\ SamePlaces(a, b) /\ b.refused = a.refused
        /\ DOMAIN b.entries = DOMAIN a.entries
        /\ DOMAIN b.applied = DOMAIN a.entries
        /\ b.entries[x].status = "superseded"
        /\ b.entries[x].event = a.entries[x].event
        /\ b.entries[x].reversedBy = a.entries[x].reversedBy
        /\ b.applied[x] = a.applied[x] - (IF IsCounted(a.entries[x]) THEN 1 ELSE 0)
        /\ \A i \in DOMAIN a.entries : i # x =>
                b.entries[i] = a.entries[i] /\ b.applied[i] = a.applied[i]
    <3>1. a \in FoldState(events) /\ DOMAIN a.applied = DOMAIN a.entries
      BY <1>3
    <3>2. ev.amends # NoEntry /\ ev.amends \in DOMAIN a.entries
      BY <1>7, <2>2
    <3> QED BY <3>1, <3>2, SupersedeIs
  <2> HIDE DEF b, x
  <2>4. Joins(E, A, tray, ev, b.entries, b.applied, {x})
    BY <1>3, <2>2, <2>3 DEF Joins
  <2>5. /\ E[x].event.reverses = NoEntry /\ E[x].reversedBy = NoEntry
        /\ b.entries[x].event = E[x].event /\ b.entries[x].reversedBy = E[x].reversedBy
        /\ b.applied[x] = A[x] - (IF IsCounted(E[x]) THEN 1 ELSE 0)
    BY <1>3, <1>4, <1>7, <2>2, <2>3 DEF x
  <2>6. BooksInv(tray, b.entries, b.applied)
    BY <1>7, <2>2, <2>3, <2>4, <2>5, AmendmentJoins
  <2>7. SamePlaces(st, b)
    BY <1>3, <2>3 DEF SamePlaces
  <2> QED BY <1>3, <2>1, <2>3, <2>6, <2>7
<1>8. CASE ev.amends = NoEntry /\ ev.reverses # NoEntry
  <2> DEFINE y == ev.reverses
             b == Void(a, ev)
  <2>1. Joined(tray, st, ev) = b
    BY <1>8 DEF Joined, Supersede, a
  <2>2. y \in DOMAIN E /\ y \in DOMAIN a.entries /\ y # ev.id
    BY <1>3, <1>4, <1>8
  <2>3. /\ b \in FoldState(events) /\ SamePlaces(a, b)
        /\ b.refused = a.refused /\ b.applied = a.applied
        /\ DOMAIN b.entries = DOMAIN a.entries
        /\ b.entries[y].status = "voided" /\ b.entries[y].reversedBy = ev.id
        /\ b.entries[y].event = a.entries[y].event
        /\ \A i \in DOMAIN a.entries : i # y => b.entries[i] = a.entries[i]
    BY <1>3, <1>8, <2>2, VoidIs
  <2> HIDE DEF b, y
  <2>4. Joins(E, A, tray, ev, b.entries, b.applied, {y})
    BY <1>3, <2>2, <2>3 DEF Joins
  <2>5. /\ E[y].reversedBy = NoEntry /\ E[y].status = "posted" /\ ev.reverses = y
        /\ b.entries[y].event = E[y].event /\ b.applied[y] = A[y]
    BY <1>3, <1>4, <1>8, <2>2, <2>3 DEF y
  <2>6. ~ev.pending
    BY <1>8 DEF Lawful
  <2>7. BooksInv(tray, b.entries, b.applied)
    BY <1>2, <1>8, <2>2, <2>3, <2>4, <2>5, <2>6, ReversalJoins
  <2>8. SamePlaces(st, b)
    BY <1>3, <2>3 DEF SamePlaces
  <2> QED BY <1>3, <2>1, <2>3, <2>7, <2>8
<1> QED BY <1>5, <1>6, <1>7, <1>8

\* A decision moves a flag, or says whether an advance counts.
LEMMA DecisionFolds ==
    ASSUME NEW events, Lawful(events), NEW tray, NEW st \in FoldState(events),
           BooksInv(tray, st.entries, st.applied),
           NEW ev \in events, ev.type = "decision", ev.entry \in DOMAIN st.entries
    PROVE  LET new == Decide(st, tray, ev) IN
           /\ new \in FoldState(events) /\ SamePlaces(st, new)
           /\ new.refused \subseteq st.refused \cup {ev.id}
           /\ DOMAIN new.entries = DOMAIN st.entries
           /\ BooksInv(tray, new.entries, new.applied)
<1> DEFINE id == ev.entry
           E == st.entries
           A == st.applied
           counts == ev.decision = "approve" /\ id \notin tray
           status == IF ev.decision = "reject" THEN "rejected"
                     ELSE IF id \in tray THEN "inTray" ELSE "posted"
           change == (IF counts THEN 1 ELSE 0) - (IF IsCounted(E[id]) THEN 1 ELSE 0)
           flag == IF ev.decision = "approve" THEN "approved" ELSE "rejected"
<1>1. /\ ev.id \in Ids /\ id \in Ids /\ ev.decision \in Decisions
  BY EventIds
<1>2. /\ DOMAIN A = DOMAIN E /\ DOMAIN E \subseteq Ids
      /\ E \in Partial(Ids, Row(events)) /\ A \in Partial(Ids, Int)
      /\ \A i \in DOMAIN E : E[i] \in Row(events)
  <2>1. E \in Partial(Ids, Row(events)) /\ A \in Partial(Ids, Int)
    BY DEF FoldState
  <2>2. DOMAIN E \subseteq Ids /\ \A i \in DOMAIN E : E[i] \in Row(events)
    BY <2>1, PartialTypes
  <2> QED BY <2>1, <2>2 DEF BooksInv, LinesOnce
<1>3. PICK r \in Row(events) : r = E[id]
  BY <1>2
<1>4. CASE ev.by = E[id].event.by
  <2>1. Decide(st, tray, ev) = [st EXCEPT !.refused = @ \cup {ev.id}]
    BY <1>4 DEF Decide, Refuse
  <2>2. LET new == [st EXCEPT !.refused = @ \cup {ev.id}] IN
        /\ new \in FoldState(events) /\ SamePlaces(st, new)
        /\ new.refused = st.refused \cup {ev.id}
        /\ new.entries = E /\ new.applied = A
    BY <1>1 DEF FoldState, SamePlaces
  <2> QED BY <2>1, <2>2
<1>5. CASE ev.by # E[id].event.by /\ E[id].event.pending
  <2> DEFINE changed == [r EXCEPT !.status = status]
             rows == [E EXCEPT ![id] = changed]
             mid == [st EXCEPT !.entries = rows]
             new == Apply(mid, id, change)
             sum == change + (IF id \in DOMAIN mid.applied THEN mid.applied[id] ELSE 0)
  <2>1. status \in Statuses /\ change \in Int
    BY DEF Statuses
  <2>2. Decide(st, tray, ev) = new
    <3>1. [st EXCEPT !.entries[id].status = status] = mid
      BY <1>2, <1>3 DEF FoldState
    <3> QED BY <1>5, <3>1 DEF Decide
  <2>3. status \in {"rejected", "inTray", "posted"}
    OBVIOUS
  <2>4. IsCounted(changed) <=> status = "posted"
    <3>1. changed.status = status
      BY <1>3 DEF Row
    <3> QED BY <2>3, <3>1 DEF IsCounted
  <2>5. status = "posted" <=> counts
    BY <1>1 DEF Decisions
  <2>6. ev.decision # "reject"
    <3>1. E[id].event \in events /\ E[id].event.type = "entry" /\ E[id].event.id = id
      BY <1>2 DEF BooksInv, RowsNamed, Row
    <3> QED BY <1>5, <3>1 DEF Lawful
  <2>7. status \in {"inTray", "posted"} /\ (status = "posted" <=> id \notin tray)
    BY <2>6
  <2> HIDE DEF status
  <2>8. /\ changed \in Row(events) /\ changed.status = status
        /\ changed.event = r.event /\ changed.reversedBy = r.reversedBy
    BY <1>3, <2>1 DEF Row
  <2> HIDE DEF changed
  <2>9. /\ rows \in Partial(Ids, Row(events)) /\ DOMAIN rows = DOMAIN E
        /\ rows[id] = changed /\ \A i \in DOMAIN E : i # id => rows[i] = E[i]
    BY <1>2, <2>8, ExceptIsPartial
  <2> HIDE DEF rows
  <2>10. /\ mid \in FoldState(events) /\ SamePlaces(st, mid)
         /\ mid.entries = rows /\ mid.refused = st.refused /\ mid.applied = A
    BY <2>9, EntriesIs
  <2> HIDE DEF mid, change
  <2>11. /\ new \in FoldState(events) /\ SamePlaces(mid, new)
         /\ new.entries = mid.entries /\ new.refused = mid.refused
         /\ new.applied = With(mid.applied, id, sum)
    BY <1>1, <2>1, <2>10, ApplyIs
  <2>12. sum = IF counts THEN 1 ELSE 0
    <3>1. A[id] = IF IsCounted(E[id]) THEN 1 ELSE 0
      BY DEF BooksInv, LinesOnce
    <3> QED BY <2>10, <1>2, <3>1 DEF change
  <2> HIDE DEF new, sum, counts
  <2>13. /\ DOMAIN new.applied = DOMAIN E /\ new.applied[id] = IF counts THEN 1 ELSE 0
         /\ \A i \in DOMAIN E : i # id => new.applied[i] = A[i]
    BY <1>2, <2>10, <2>11, <2>12 DEF With
  <2> DEFINE E1 == new.entries
             A1 == new.applied
  <2>14. /\ DOMAIN E1 = DOMAIN E /\ E1[id] = changed
         /\ \A i \in DOMAIN E : i # id => E1[i] = E[i]
    BY <2>9, <2>10, <2>11
  <2>15. /\ E1[id].event = E[id].event /\ E1[id].reversedBy = E[id].reversedBy
         /\ IsCounted(E1[id]) <=> id \notin tray
         /\ A1[id] = IF IsCounted(E1[id]) THEN 1 ELSE 0
    BY <1>3, <2>4, <2>5, <2>7, <2>8, <2>13, <2>14
  <2>16. E[id].event.reverses = NoEntry
    <3>1. E[id].event \in events /\ E[id].event.type = "entry"
      BY <1>2 DEF BooksInv, RowsNamed, Row
    <3> QED BY <1>5, <3>1 DEF Lawful
  <2>17. E[id].reversedBy # NoEntry => id \notin tray
    BY DEF BooksInv, VoidedCount, TrayNotCounted
  <2> HIDE DEF E1, A1
  <2>18. RowsNamed(E1)
    BY <2>14, <2>15 DEF BooksInv, RowsNamed
  <2>19. LinesOnce(E1, A1)
    BY <2>13, <2>14, <2>15 DEF BooksInv, LinesOnce, A1
  <2>20. ReversalsVoid(E1)
    BY <2>14, <2>15, <2>16 DEF BooksInv, ReversalsVoid
  <2>21. VoidedCount(E1)
    BY <2>14, <2>15, <2>17 DEF BooksInv, VoidedCount
  <2>22. TrayNotCounted(E1, tray)
    BY <2>14, <2>15 DEF BooksInv, TrayNotCounted
  <2>23. SamePlaces(st, new)
    BY <2>10, <2>11 DEF SamePlaces
  <2> QED BY <2>2, <2>10, <2>11, <2>14, <2>18, <2>19, <2>20, <2>21, <2>22, <2>23
          DEF BooksInv, E1, A1
<1>6. CASE ev.by # E[id].event.by /\ ~E[id].event.pending
  <2> DEFINE changed == [r EXCEPT !.review = flag]
             rows == [E EXCEPT ![id] = changed]
             new == [st EXCEPT !.entries = rows]
  <2>1. Decide(st, tray, ev) = new
    <3>1. [st EXCEPT !.entries[id].review = flag] = new
      BY <1>2, <1>3 DEF FoldState
    <3> QED BY <1>6, <3>1 DEF Decide
  <2>2. /\ changed \in Row(events) /\ changed.status = r.status
        /\ changed.event = r.event /\ changed.reversedBy = r.reversedBy
    BY <1>3 DEF Row
  <2> HIDE DEF changed
  <2>3. /\ rows \in Partial(Ids, Row(events)) /\ DOMAIN rows = DOMAIN E
        /\ rows[id] = changed /\ \A i \in DOMAIN E : i # id => rows[i] = E[i]
    BY <1>2, <2>2, ExceptIsPartial
  <2> HIDE DEF rows
  <2>4. /\ new \in FoldState(events) /\ SamePlaces(st, new)
        /\ new.entries = rows /\ new.refused = st.refused /\ new.applied = A
    BY <2>3, EntriesIs
  <2>5. \A i \in DOMAIN E :
            /\ rows[i].event = E[i].event /\ rows[i].reversedBy = E[i].reversedBy
            /\ rows[i].status = E[i].status
    BY <1>3, <2>2, <2>3
  <2>6. \A i \in DOMAIN E : IsCounted(rows[i]) <=> IsCounted(E[i])
    BY <2>5 DEF IsCounted
  <2>7. RowsNamed(rows)
    BY <2>3, <2>5 DEF BooksInv, RowsNamed
  <2>8. LinesOnce(rows, A)
    BY <2>3, <2>6 DEF BooksInv, LinesOnce
  <2>9. ReversalsVoid(rows)
    BY <2>3, <2>5 DEF BooksInv, ReversalsVoid
  <2>10. VoidedCount(rows)
    BY <2>3, <2>5, <2>6 DEF BooksInv, VoidedCount
  <2>11. TrayNotCounted(rows, tray)
    BY <2>3, <2>6 DEF BooksInv, TrayNotCounted
  <2> HIDE DEF new
  <2> QED BY <2>1, <2>3, <2>4, <2>7, <2>8, <2>9, <2>10, <2>11 DEF BooksInv
<1>7. E[id].event.pending \in BOOLEAN
  <2>1. E[id].event \in events /\ E[id].event.type = "entry"
    BY <1>2 DEF BooksInv, RowsNamed, Row
  <2> QED BY <2>1, EventIds
<1> QED BY <1>4, <1>5, <1>6, <1>7

-----------------------------------------------------------------------------
(* An event folds: it is refused, waits, or changes the books. *)

\* The event has been taken out of its place and is not yet anywhere.
Taken(st, ev) ==
    /\ ev \notin st.left /\ ev \notin Range(st.todo) /\ ev.id \notin DOMAIN st.entries
    /\ \A t \in Ids : ev \notin Range(st.waiting[t])

\* What an event waits for depends on which entries are accepted, not on their rows.
LEMMA DanglingByDomain ==
    ASSUME NEW st, NEW new, NEW ev, DOMAIN new.entries = DOMAIN st.entries
    PROVE  Dangling(new, ev) = Dangling(st, ev)
BY DEF Dangling, Accepted

LEMMA DanglingIs ==
    ASSUME NEW events, Lawful(events), NEW st \in FoldState(events), NEW ev \in events
    PROVE  /\ Dangling(st, ev) \in 0..MaxHlc
           /\ Dangling(st, ev) # NoEntry => Dangling(st, ev) \in Ids \ DOMAIN st.entries
           /\ ev.type = "decision" /\ Dangling(st, ev) = NoEntry => ev.entry \in DOMAIN st.entries
<1>1. /\ MaxHlc \in Nat /\ ev.type \in {"entry", "decision", "lock", "unlock"}
      /\ ev.type = "entry" => ev.amends \in 0..MaxHlc /\ ev.reverses \in 0..MaxHlc
      /\ ev.type = "decision" => ev.entry \in Ids
  BY EventIds
<1> QED BY <1>1 DEF Dangling, Accepted, Ids, NoEntry

LEMMA SamePlacesKept ==
    ASSUME NEW st, NEW new, PlacesInv(st), SamePlaces(st, new),
           DOMAIN new.entries = DOMAIN st.entries
    PROVE  PlacesInv(new)
<1>1. \A e : Dangling(new, e) = Dangling(st, e)
  BY DanglingByDomain
<1> QED BY <1>1 DEF PlacesInv, SamePlaces

LEMMA RefusedFolds ==
    ASSUME NEW events, Lawful(events), NEW tray, NEW st, FoldInv(events, tray, st),
           NEW ev \in events
    PROVE  FoldInv(events, tray, Refuse(st, ev))
<1>1. ev.id \in Ids
  BY EventIds
<1>2. LET new == Refuse(st, ev) IN
      /\ new \in FoldState(events) /\ SamePlaces(st, new)
      /\ new.refused = st.refused \cup {ev.id}
      /\ new.entries = st.entries /\ new.applied = st.applied
  BY <1>1 DEF FoldInv, FoldState, SamePlaces, Refuse
<1>3. PlacesInv(Refuse(st, ev))
  BY <1>2, SamePlacesKept DEF FoldInv
<1> QED BY <1>2, <1>3 DEF FoldInv

LEMMA DeferredFolds ==
    ASSUME NEW events, Lawful(events), NEW tray, NEW st, FoldInv(events, tray, st),
           NEW ev \in events, Taken(st, ev), Dangling(st, ev) # NoEntry
    PROVE  FoldInv(events, tray, Defer(st, ev, Dangling(st, ev)))
<1> DEFINE target == Dangling(st, ev)
           line == Append(st.waiting[target], ev)
           rows == [st.waiting EXCEPT ![target] = line]
           new == [st EXCEPT !.waiting = rows]
<1>1. st \in FoldState(events) /\ st.waiting \in [Ids -> Seq(events)] /\ PlacesInv(st)
  BY DEF FoldInv, FoldState
<1>2. target \in Ids
  BY <1>1, DanglingIs
<1>3. /\ st.waiting[target] \in Seq(events) /\ IsInjective(st.waiting[target])
      /\ ev \notin Range(st.waiting[target])
  BY <1>1, <1>2 DEF PlacesInv, Taken
<1>4. line \in Seq(events) /\ IsInjective(line) /\ Range(line) = Range(st.waiting[target]) \cup {ev}
  BY <1>3, AppendDistinct
<1>5. Defer(st, ev, target) = new
  BY <1>1, <1>2 DEF Defer, FoldState
<1> HIDE DEF line
<1>6. /\ rows \in [Ids -> Seq(events)] /\ rows[target] = line
      /\ \A t \in Ids : t # target => rows[t] = st.waiting[t]
  BY <1>1, <1>2, <1>4
<1> HIDE DEF rows
<1>7. /\ new \in FoldState(events) /\ new.waiting = rows /\ new.left = st.left
      /\ new.todo = st.todo /\ new.entries = st.entries /\ new.applied = st.applied
      /\ new.refused = st.refused
  BY <1>1, <1>6 DEF FoldState
<1> HIDE DEF new
<1>8. \A e : Dangling(new, e) = Dangling(st, e)
  BY <1>7, DanglingByDomain
<1>9. PlacesInv(new)
  <2>1. IsInjective(new.todo) /\ \A t \in Ids : IsInjective(new.waiting[t])
    BY <1>1, <1>4, <1>6, <1>7 DEF PlacesInv
  <2>2. /\ \A e \in new.left : e \notin Range(new.todo) /\ e.id \notin DOMAIN new.entries
        /\ \A e \in Range(new.todo) : e.id \notin DOMAIN new.entries
    BY <1>1, <1>7 DEF PlacesInv
  <2>3. ASSUME NEW t \in Ids, NEW e \in Range(new.waiting[t])
        PROVE  /\ e \notin new.left /\ e \notin Range(new.todo)
               /\ e.id \notin DOMAIN new.entries /\ Dangling(new, e) = t
    <3>1. CASE e \in Range(st.waiting[t])
      BY <1>1, <1>7, <1>8, <3>1 DEF PlacesInv
    <3>2. CASE e \notin Range(st.waiting[t])
      <4>1. t = target /\ e = ev
        BY <1>4, <1>6, <1>7, <2>3, <3>2
      <4> QED BY <1>7, <1>8, <4>1 DEF Taken
    <3> QED BY <3>1, <3>2
  <2> QED BY <2>1, <2>2, <2>3 DEF PlacesInv
<1> HIDE DEF target
<1> QED BY <1>5, <1>7, <1>9 DEF FoldInv, target

\* Once an entry is accepted, what waited for it folds next.
LEMMA ReleasedFolds ==
    ASSUME NEW events, Lawful(events), NEW tray, NEW st, FoldInv(events, tray, st),
           NEW ev \in events, Taken(st, ev), NEW mid \in FoldState(events),
           SamePlaces(st, mid), mid.refused = st.refused,
           DOMAIN mid.entries = DOMAIN st.entries \cup {ev.id},
           BooksInv(tray, mid.entries, mid.applied)
    PROVE  FoldInv(events, tray, Release(mid, ev.id))
<1> DEFINE id == ev.id
           queue == mid.waiting[id] \o mid.todo
           rows == [mid.waiting EXCEPT ![id] = <<>>]
           new == [mid EXCEPT !.todo = queue, !.waiting = rows]
<1>1. /\ id \in Ids /\ st \in FoldState(events) /\ PlacesInv(st)
      /\ mid.waiting = st.waiting /\ mid.todo = st.todo /\ mid.left = st.left
      /\ st.waiting \in [Ids -> Seq(events)] /\ st.todo \in Seq(events)
      /\ st.left \subseteq events
  BY EventIds DEF FoldInv, FoldState, SamePlaces
<1>2. Release(mid, id) = new
  BY <1>1 DEF Release, FoldState
<1>3. /\ queue \in Seq(events) /\ IsInjective(queue)
      /\ Range(queue) = Range(st.waiting[id]) \cup Range(st.todo)
  <2>1. Range(st.waiting[id]) \cap Range(st.todo) = {}
    BY <1>1 DEF PlacesInv
  <2>2. /\ st.waiting[id] \in Seq(events) /\ st.todo \in Seq(events)
        /\ IsInjective(st.waiting[id]) /\ IsInjective(st.todo)
    BY <1>1 DEF PlacesInv
  <2> QED BY <1>1, <2>1, <2>2, RangeOfConcat, ConcatDistinct
<1>4. /\ rows \in [Ids -> Seq(events)] /\ rows[id] = <<>>
      /\ \A t \in Ids : t # id => rows[t] = st.waiting[t]
  BY <1>1
<1> HIDE DEF queue, rows
<1>5. /\ new \in FoldState(events) /\ new.todo = queue /\ new.waiting = rows
      /\ new.left = st.left /\ new.entries = mid.entries /\ new.applied = mid.applied
      /\ new.refused = st.refused
  BY <1>1, <1>3, <1>4 DEF FoldState
<1> HIDE DEF new
<1>6. \A e \in events : e # ev => e.id # id
  BY DEF Lawful
<1>7. \A t \in Ids : Range(st.waiting[t]) \subseteq events
  BY <1>1 DEF Range
<1>8. Range(st.todo) \subseteq events
  BY <1>1 DEF Range
<1>9. PlacesInv(new)
  <2>1. IsInjective(<<>>) /\ Range(<<>>) = {}
    BY DEF IsInjective, Range
  <2>2. IsInjective(new.todo) /\ \A t \in Ids : IsInjective(new.waiting[t])
    BY <1>1, <1>3, <1>4, <1>5, <2>1 DEF PlacesInv
  <2>3. ASSUME NEW e \in new.left
        PROVE  e \notin Range(new.todo) /\ e.id \notin DOMAIN new.entries
    <3>1. e # ev /\ e \in events /\ e.id \notin DOMAIN st.entries
      BY <1>1, <1>5, <2>3 DEF PlacesInv, Taken
    <3>2. e \notin Range(st.todo) /\ e \notin Range(st.waiting[id])
      BY <1>1, <1>5, <2>3 DEF PlacesInv
    <3> QED BY <1>3, <1>5, <1>6, <3>1, <3>2
  <2>4. ASSUME NEW e \in Range(new.todo) PROVE e.id \notin DOMAIN new.entries
    <3>1. e \in Range(st.waiting[id]) \/ e \in Range(st.todo)
      BY <1>3, <1>5, <2>4
    <3>2. e # ev /\ e \in events /\ e.id \notin DOMAIN st.entries
      BY <1>1, <1>7, <1>8, <3>1 DEF PlacesInv, Taken
    <3> QED BY <1>5, <1>6, <3>2
  <2>5. ASSUME NEW t \in Ids, NEW e \in Range(new.waiting[t])
        PROVE  /\ e \notin new.left /\ e \notin Range(new.todo)
               /\ e.id \notin DOMAIN new.entries /\ Dangling(new, e) = t
    <3>1. t # id /\ e \in Range(st.waiting[t])
      BY <1>4, <1>5, <2>1, <2>5
    <3>2. /\ e # ev /\ e \in events /\ e.id \notin DOMAIN st.entries
          /\ e \notin st.left /\ e \notin Range(st.todo) /\ Dangling(st, e) = t
      BY <1>1, <1>7, <3>1 DEF PlacesInv, Taken
    <3>3. e \notin Range(st.waiting[id])
      BY <1>1, <3>1, <3>2 DEF PlacesInv
    <3>4. t # NoEntry
      BY DEF Ids, NoEntry
    <3>5. Dangling(new, e) = t
      <4>1. DOMAIN new.entries = DOMAIN st.entries \cup {id}
        BY <1>5
      <4>2. Dangling(st, e) # NoEntry /\ Dangling(st, e) # id
        BY <3>1, <3>2, <3>4
      <4>3. Dangling(new, e) = Dangling(st, e)
        BY <4>1, <4>2 DEF Dangling, Accepted
      <4> QED BY <3>2, <4>3
    <3> QED BY <1>3, <1>5, <1>6, <3>2, <3>3, <3>5
  <2> QED BY <2>2, <2>3, <2>4, <2>5 DEF PlacesInv
<1> HIDE DEF id
<1> QED BY <1>2, <1>5, <1>9 DEF FoldInv, id

LEMMA EventFolds ==
    ASSUME NEW events, Lawful(events), NEW tray, NEW st, FoldInv(events, tray, st),
           NEW ev \in events, Taken(st, ev)
    PROVE  FoldInv(events, tray, Process(events, tray, st, ev))
<1>1. st \in FoldState(events) /\ BooksInv(tray, st.entries, st.applied)
  BY DEF FoldInv
<1>2. CASE ev.type = "entry" /\ LockedAt(events, ev.month, ev.hlc)
  BY <1>2, RefusedFolds DEF Process
<1>3. CASE ~(ev.type = "entry" /\ LockedAt(events, ev.month, ev.hlc)) /\ Dangling(st, ev) # NoEntry
  BY <1>3, DeferredFolds DEF Process
<1>4. CASE /\ ~(ev.type = "entry" /\ LockedAt(events, ev.month, ev.hlc))
           /\ Dangling(st, ev) = NoEntry /\ ev.type = "entry" /\ Faulty(events, st, ev)
  BY <1>4, RefusedFolds DEF Process
<1>5. CASE /\ ~(ev.type = "entry" /\ LockedAt(events, ev.month, ev.hlc))
           /\ Dangling(st, ev) = NoEntry /\ ev.type = "entry" /\ ~Faulty(events, st, ev)
  <2>1. Process(events, tray, st, ev) = Release(Joined(tray, st, ev), ev.id)
    BY <1>5 DEF Process, Joined
  <2>2. LET new == Joined(tray, st, ev) IN
        /\ new \in FoldState(events) /\ SamePlaces(st, new) /\ new.refused = st.refused
        /\ DOMAIN new.entries = DOMAIN st.entries \cup {ev.id}
        /\ BooksInv(tray, new.entries, new.applied)
    BY <1>1, <1>5, EntryJoins DEF Taken
  <2> QED BY <2>1, <2>2, ReleasedFolds
<1>6. CASE ev.type = "decision" /\ Dangling(st, ev) = NoEntry
  <2>1. Process(events, tray, st, ev) = Decide(st, tray, ev)
    BY <1>6 DEF Process
  <2>2. ev.entry \in DOMAIN st.entries
    BY <1>1, <1>6, DanglingIs
  <2> DEFINE new == Decide(st, tray, ev)
  <2>3. /\ new \in FoldState(events) /\ SamePlaces(st, new)
        /\ new.refused \subseteq st.refused \cup {ev.id}
        /\ DOMAIN new.entries = DOMAIN st.entries
        /\ BooksInv(tray, new.entries, new.applied)
    BY <1>1, <1>6, <2>2, DecisionFolds
  <2> HIDE DEF new
  <2>4. PlacesInv(new)
    BY <2>3, SamePlacesKept DEF FoldInv
  <2>5. FoldInv(events, tray, new)
    BY <2>3, <2>4 DEF FoldInv
  <2> QED BY <2>1, <2>5 DEF new
<1>7. CASE ev.type \notin {"entry", "decision"} /\ Dangling(st, ev) = NoEntry
  BY <1>7 DEF Process
<1> QED BY <1>2, <1>3, <1>4, <1>5, <1>6, <1>7

-----------------------------------------------------------------------------
(* The fold: one event after another. *)

LEMMA LeastNumber ==
    ASSUME NEW S \in SUBSET Nat, S # {}
    PROVE  \E m \in S : \A k \in S : m <= k
<1>1. PICK m \in S : \A k \in S : ~(<<k, m>> \in OpToRel(<, Nat))
  BY NatLessThanWellFounded, WFMin
<1>2. ASSUME NEW k \in S PROVE m <= k
  <2>1. <<k, m>> \in Nat \X Nat /\ <<k, m>>[1] = k /\ <<k, m>>[2] = m
    OBVIOUS
  <2>2. ~(k < m)
    BY <1>1, <2>1 DEF OpToRel
  <2> QED BY <2>1, <2>2
<1> QED BY <1>2

LEMMA FirstIsMember ==
    ASSUME NEW events, Lawful(events), NEW S \in SUBSET events, S # {}
    PROVE  First(S) \in S /\ \A f \in S : First(S).hlc <= f.hlc
<1> DEFINE stamps == {n \in Nat : \E e \in S : n = e.hlc}
<1>1. \A e \in S : e.hlc \in Nat
  BY EventIds DEF Ids
<1>2. stamps \subseteq Nat /\ stamps # {}
  BY <1>1
<1>3. PICK m \in stamps : \A k \in stamps : m <= k
  BY <1>2, LeastNumber
<1>4. PICK e \in S : m = e.hlc
  BY <1>3
<1>5. \A f \in S : e.hlc <= f.hlc
  BY <1>1, <1>3, <1>4
<1> QED BY <1>5 DEF First

\* The event that folds next, and the state without it.
Ended(st) == st.todo = <<>> /\ st.left = {}

Turn(st) == IF st.todo # <<>> THEN Head(st.todo) ELSE First(st.left)

Rest(st) ==
    IF st.todo # <<>> THEN [st EXCEPT !.todo = Tail(@)] ELSE [st EXCEPT !.left = @ \ {Turn(st)}]

LeavesOnly(st, ev, rest) ==
    /\ rest.entries = st.entries /\ rest.applied = st.applied
    /\ rest.refused = st.refused /\ rest.waiting = st.waiting
    /\ st.todo # <<>> =>
        /\ ev = Head(st.todo) /\ ev \in Range(st.todo)
        /\ rest.left = st.left /\ rest.todo = Tail(st.todo)
        /\ Range(rest.todo) = Range(st.todo) \ {ev}
    /\ st.todo = <<>> =>
        /\ ev = First(st.left) /\ ev \in st.left
        /\ rest.todo = <<>> /\ rest.left = st.left \ {ev}

LEMMA TurnIs ==
    ASSUME NEW events, Lawful(events), NEW tray, NEW st, FoldInv(events, tray, st), ~Ended(st)
    PROVE  /\ Turn(st) \in events /\ Taken(Rest(st), Turn(st))
           /\ FoldInv(events, tray, Rest(st))
           /\ Step(events, tray, st) = Process(events, tray, Rest(st), Turn(st))
           /\ LeavesOnly(st, Turn(st), Rest(st))
<1>1. /\ st \in FoldState(events) /\ PlacesInv(st)
      /\ st.todo \in Seq(events) /\ st.left \subseteq events
      /\ st.waiting \in [Ids -> Seq(events)]
  BY DEF FoldInv, FoldState
<1> DEFINE ev == Turn(st)
           mid == Rest(st)
<1>2. CASE st.todo # <<>>
  <2>1. ev = Head(st.todo) /\ mid = [st EXCEPT !.todo = Tail(@)]
    BY <1>2 DEF Turn, Rest
  <2>2. /\ ev \in Range(st.todo) /\ Tail(st.todo) \in Seq(events) /\ IsInjective(Tail(st.todo))
        /\ Range(Tail(st.todo)) = Range(st.todo) \ {ev}
    BY <1>1, <1>2, <2>1, TailDistinct DEF PlacesInv
  <2>3. ev \in events
    BY <1>1, <2>2 DEF Range
  <2>4. Step(events, tray, st) = Process(events, tray, mid, ev)
    BY <1>2, <2>1 DEF Step
  <2>5. /\ mid \in FoldState(events) /\ mid.todo = Tail(st.todo) /\ mid.left = st.left
        /\ mid.waiting = st.waiting /\ mid.entries = st.entries
        /\ mid.applied = st.applied /\ mid.refused = st.refused
    BY <1>1, <2>1, <2>2 DEF FoldState
  <2> HIDE DEF ev, mid
  <2>6. \A e : Dangling(mid, e) = Dangling(st, e)
    BY <2>5, DanglingByDomain
  <2>7. PlacesInv(mid)
    BY <1>1, <2>2, <2>5, <2>6 DEF PlacesInv
  <2>8. Taken(mid, ev)
    BY <1>1, <2>2, <2>5 DEF PlacesInv, Taken
  <2>9. FoldInv(events, tray, mid)
    BY <2>5, <2>7 DEF FoldInv
  <2>10. LeavesOnly(st, ev, mid)
    BY <1>2, <2>1, <2>2, <2>5 DEF LeavesOnly
  <2> QED BY <2>3, <2>4, <2>8, <2>9, <2>10 DEF ev, mid
<1>3. CASE st.todo = <<>>
  <2>1. st.left # {} /\ ev = First(st.left) /\ mid = [st EXCEPT !.left = @ \ {ev}]
    BY <1>3 DEF Turn, Rest, Ended
  <2>2. ev \in st.left
    BY <1>1, <2>1, FirstIsMember
  <2>3. ev \in events
    BY <1>1, <2>2
  <2>4. Step(events, tray, st) = Process(events, tray, mid, ev)
    BY <1>3, <2>1 DEF Step
  <2> HIDE DEF ev
  <2>5. /\ mid \in FoldState(events) /\ mid.left = st.left \ {ev} /\ mid.todo = st.todo
        /\ mid.waiting = st.waiting /\ mid.entries = st.entries
        /\ mid.applied = st.applied /\ mid.refused = st.refused
    BY <1>1, <2>1, <2>2 DEF FoldState
  <2> HIDE DEF mid
  <2>6. \A e : Dangling(mid, e) = Dangling(st, e)
    BY <2>5, DanglingByDomain
  <2>7. PlacesInv(mid)
    BY <1>1, <2>2, <2>5, <2>6 DEF PlacesInv
  <2>8. Taken(mid, ev)
    BY <1>1, <2>2, <2>5 DEF PlacesInv, Taken
  <2>9. FoldInv(events, tray, mid)
    BY <2>5, <2>7 DEF FoldInv
  <2>10. LeavesOnly(st, ev, mid)
    BY <1>3, <2>1, <2>2, <2>5 DEF LeavesOnly
  <2> QED BY <2>3, <2>4, <2>8, <2>9, <2>10 DEF ev, mid
<1> QED BY <1>2, <1>3

LEMMA StepFolds ==
    ASSUME NEW events, Lawful(events), NEW tray, NEW st, FoldInv(events, tray, st)
    PROVE  FoldInv(events, tray, Step(events, tray, st))
<1>1. CASE ~Ended(st)
  BY <1>1, TurnIs, EventFolds
<1>2. CASE Ended(st)
  BY <1>2 DEF Step, Ended
<1> QED BY <1>1, <1>2

LEMMA EmptyFolds ==
    ASSUME NEW events, Lawful(events), NEW tray
    PROVE  FoldInv(events, tray, Empty(events))
<1> DEFINE none == Empty(events)
<1>1. /\ none.entries = <<>> /\ none.applied = <<>> /\ none.refused = {}
      /\ none.left = events /\ none.todo = <<>>
      /\ none.waiting = [t \in Ids |-> <<>>]
  BY DEF Empty, Ids
<1>2. <<>> \in Seq(events) /\ [t \in Ids |-> <<>>] \in [Ids -> Seq(events)]
  OBVIOUS
<1>3. <<>> \in Partial(Ids, Row(events)) /\ <<>> \in Partial(Ids, Int)
  <2>1. {} \in SUBSET Ids /\ \A S : <<>> \in [{} -> S]
    OBVIOUS
  <2> QED BY <2>1 DEF Partial
<1>4. none \in FoldState(events)
  BY <1>2, <1>3 DEF FoldState, Empty, Ids
<1>5. DOMAIN <<>> = {} /\ IsInjective(<<>>) /\ Range(<<>>) = {}
  BY DEF IsInjective, Range
<1> HIDE DEF none
<1>6. BooksInv(tray, none.entries, none.applied)
  BY <1>1, <1>5 DEF BooksInv, RowsNamed, LinesOnce, ReversalsVoid, VoidedCount, TrayNotCounted
<1>7. PlacesInv(none)
  BY <1>1, <1>5 DEF PlacesInv
<1> QED BY <1>1, <1>4, <1>6, <1>7 DEF FoldInv, none

\* Values can be made one from the last, any number of times.
StepMap(F, X) == F \in [Nat \X X -> X]

Repeats(f, F, X, x0, N) ==
    f \in [0..N -> X] /\ f[0] = x0 /\ \A n \in 1..N : f[n] = F[<<n, f[n - 1]>>]

LEMMA RepeatExists ==
    ASSUME NEW X, NEW x0 \in X, NEW F, StepMap(F, X), NEW N \in Nat
    PROVE  \E f : Repeats(f, F, X, x0, N)
<1> DEFINE Is(f, M) == Repeats(f, F, X, x0, M)
           bad == {M \in Nat : ~ \E f : Is(f, M)}
<1>1. \E f : Is(f, 0)
  <2> DEFINE f == [n \in 0..0 |-> x0]
  <2>1. Is(f, 0)
    BY DEF Repeats
  <2> QED BY <2>1
<1>2. ASSUME NEW M \in Nat \ {0}, \E f : Is(f, M - 1) PROVE \E f : Is(f, M)
  <2>1. PICK f : f \in [0..(M - 1) -> X] /\ f[0] = x0 /\ \A n \in 1..(M - 1) : f[n] = F[<<n, f[n - 1]>>]
    BY <1>2 DEF Repeats
  <2>2. M - 1 \in Nat
    OBVIOUS
  <2> DEFINE h == [n \in 0..M |-> IF n = M THEN F[<<M, f[M - 1]>>] ELSE f[n]]
  <2>3. h \in [0..M -> X] /\ h[0] = x0 /\ h[M] = F[<<M, f[M - 1]>>]
    BY <2>1, <2>2 DEF StepMap
  <2>4. \A n \in 0..(M - 1) : h[n] = f[n]
    BY <2>2
  <2> HIDE DEF h
  <2>5. ASSUME NEW n \in 1..(M - 1) PROVE h[n] = F[<<n, h[n - 1]>>]
    <3>1. n \in 0..(M - 1) /\ n - 1 \in 0..(M - 1)
      BY <2>2
    <3> QED BY <2>1, <2>4, <3>1
  <2>6. h[M] = F[<<M, h[M - 1]>>]
    <3>1. M - 1 \in 0..(M - 1)
      BY <2>2
    <3> QED BY <2>3, <2>4, <3>1
  <2>7. Is(h, M)
    BY <2>2, <2>3, <2>5, <2>6 DEF Repeats
  <2> QED BY <2>7
<1> HIDE DEF Is
<1>3. SUFFICES \E f : Is(f, N)
  BY DEF Is
<1>4. SUFFICES ASSUME bad # {} PROVE FALSE
  OBVIOUS
<1>5. PICK M \in bad : \A k \in bad : M <= k
  BY <1>4, LeastNumber
<1>6. M # 0
  BY <1>1, <1>5
<1>7. M - 1 \in Nat /\ M - 1 \notin bad
  BY <1>5, <1>6
<1> QED BY <1>2, <1>5, <1>6, <1>7

LEMMA EventsFinite ==
    ASSUME NEW events, Lawful(events)
    PROVE  Steps(events) \in Nat /\ IsFiniteSet(events)
<1> DEFINE f == [e \in events |-> e.id]
<1>1. f \in Injection(events, Ids)
  BY EventIds DEF Injection, IsInjective, Lawful
<1>2. IsFiniteSet(Ids)
  BY LedgerAssumption, FS_Interval DEF Ids
<1>3. IsFiniteSet(events)
  BY <1>1, <1>2, FS_Injection
<1>4. Cardinality(events) \in Nat
  BY <1>3, FS_CardinalityType
<1> QED BY <1>3, <1>4 DEF Steps

\* What holds at 0 and is kept from each number to the next holds up to K.
LEMMA UpTo ==
    ASSUME NEW K \in Nat, NEW S, 0 \in S, \A n \in 1..K : n - 1 \in S => n \in S
    PROVE  \A n \in 0..K : n \in S
<1> DEFINE bad == {n \in 0..K : n \notin S}
<1>1. SUFFICES ASSUME bad # {} PROVE FALSE
  OBVIOUS
<1>2. PICK m \in bad : \A k \in bad : m <= k
  <2>1. bad \in SUBSET Nat
    OBVIOUS
  <2> QED BY <1>1, <2>1, LeastNumber
<1>3. m \in 1..K /\ m - 1 \in 0..K /\ m - 1 \notin bad
  BY <1>2
<1> QED BY <1>2, <1>3

\* The fold as a sequence of states, longer than project() needs.
RunOf(f, events, tray, K) ==
    f[0] = Empty(events) /\ \A n \in 1..K : f[n] = Step(events, tray, f[n - 1])

LEMMA RunFolds ==
    ASSUME NEW events, Lawful(events), NEW tray, NEW K \in Nat, NEW f,
           RunOf(f, events, tray, K)
    PROVE  \A n \in 0..K : FoldInv(events, tray, f[n])
<1> DEFINE S == {n \in 0..K : FoldInv(events, tray, f[n])}
<1>1. 0 \in S
  BY EmptyFolds DEF RunOf
<1>2. ASSUME NEW n \in 1..K, n - 1 \in S PROVE n \in S
  BY <1>2, StepFolds DEF RunOf
<1>3. \A n \in 0..K : n \in S
  <2> HIDE DEF S
  <2> QED BY <1>1, <1>2, UpTo
<1> QED BY <1>3

LEMMA RunExists ==
    ASSUME NEW events, Lawful(events), NEW tray, NEW K \in Nat
    PROVE  \E f : RunOf(f, events, tray, K)
<1> DEFINE X == {st \in FoldState(events) : FoldInv(events, tray, st)}
           F == [p \in Nat \X X |-> Step(events, tray, p[2])]
<1>1. Empty(events) \in X
  BY EmptyFolds DEF FoldInv
<1>2. F \in [Nat \X X -> X]
  <2>1. ASSUME NEW st \in X PROVE Step(events, tray, st) \in X
    BY <2>1, StepFolds DEF FoldInv
  <2> HIDE DEF X
  <2> QED BY <2>1
<1> HIDE DEF X
<1>3. \A n \in Nat, st \in X : F[<<n, st>>] = Step(events, tray, st)
  OBVIOUS
<1> HIDE DEF F
<1>4. PICK f \in [0..K -> X] : f[0] = Empty(events) /\ \A n \in 1..K : f[n] = F[<<n, f[n - 1]>>]
  <2>1. StepMap(F, X)
    BY <1>2 DEF StepMap
  <2>2. \E f : Repeats(f, F, X, Empty(events), K)
    BY <1>1, <2>1, RepeatExists
  <2> QED BY <2>2 DEF Repeats
<1>5. ASSUME NEW n \in 1..K PROVE f[n] = Step(events, tray, f[n - 1])
  <2>1. f[n - 1] \in X /\ n \in Nat
    BY <1>4
  <2>2. F[<<n, f[n - 1]>>] = Step(events, tray, f[n - 1])
    BY <1>3, <2>1
  <2> QED BY <1>4, <2>2
<1> QED BY <1>4, <1>5 DEF RunOf

LEMMA ProjectRuns ==
    ASSUME NEW events, Lawful(events), NEW tray, NEW K \in Nat, Steps(events) <= K, NEW f,
           RunOf(f, events, tray, K)
    PROVE  Project(events, tray) = f[Steps(events)]
<1> DEFINE N == Steps(events)
           run[n \in 0..Steps(events)] ==
                IF n = 0 THEN Empty(events) ELSE Step(events, tray, run[n - 1])
<1>1. Project(events, tray) = run[N]
  BY DEF Project
<1>2. N \in Nat /\ N <= K
  BY EventsFinite
<1> HIDE DEF N
<1> DEFINE h == [n \in 0..N |-> f[n]]
<1>3. \A n \in 0..N : h[n] = IF n = 0 THEN Empty(events) ELSE Step(events, tray, h[n - 1])
  <2>1. \A n \in 0..N : n # 0 => n \in 1..K /\ n - 1 \in 0..N
    BY <1>2
  <2> QED BY <2>1 DEF RunOf
<1>4. h = [n \in 0..N |-> IF n = 0 THEN Empty(events) ELSE Step(events, tray, h[n - 1])]
  BY <1>3
<1> HIDE DEF h
<1>5. run = [n \in 0..N |-> IF n = 0 THEN Empty(events) ELSE Step(events, tray, run[n - 1])]
  <2>1. \E g : g = [n \in 0..N |-> IF n = 0 THEN Empty(events)
                                   ELSE Step(events, tray, g[n - 1])]
    BY <1>4
  <2> QED BY <2>1 DEF N
<1> HIDE DEF run
<1>6. \A n \in 0..N : run[n] = IF n = 0 THEN Empty(events) ELSE Step(events, tray, run[n - 1])
  <2> DEFINE g == [n \in 0..N |-> IF n = 0 THEN Empty(events)
                                  ELSE Step(events, tray, run[n - 1])]
  <2>1. run = g
    BY <1>5
  <2>2. \A n \in 0..N : g[n] = IF n = 0 THEN Empty(events)
                               ELSE Step(events, tray, run[n - 1])
    OBVIOUS
  <2> HIDE DEF g
  <2> QED BY <2>1, <2>2
<1> DEFINE S == {n \in 0..N : run[n] = f[n]}
<1>7. 0 \in S
  BY <1>2, <1>6 DEF RunOf
<1>8. ASSUME NEW n \in 1..N, n - 1 \in S PROVE n \in S
  <2>1. n \in 0..N /\ n # 0 /\ n \in 1..K
    BY <1>2
  <2>2. run[n] = Step(events, tray, run[n - 1]) /\ f[n] = Step(events, tray, f[n - 1])
    BY <1>6, <2>1 DEF RunOf
  <2> QED BY <1>8, <2>1, <2>2
<1>9. N \in S
  <2> HIDE DEF S
  <2>1. N \in 0..N
    BY <1>2
  <2> QED BY <1>2, <1>7, <1>8, <2>1, UpTo
<1> QED BY <1>1, <1>9 DEF N

LEMMA ProjectFolds ==
    ASSUME NEW events, Lawful(events), NEW tray
    PROVE  FoldInv(events, tray, Project(events, tray))
<1> DEFINE N == Steps(events)
<1>1. N \in Nat /\ N \in 0..N
  BY EventsFinite
<1> HIDE DEF N
<1>2. PICK f : RunOf(f, events, tray, N)
  BY <1>1, RunExists
<1>3. FoldInv(events, tray, f[N])
  BY <1>1, <1>2, RunFolds
<1>4. Project(events, tray) = f[N]
  BY <1>1, <1>2, ProjectRuns DEF N
<1> QED BY <1>3, <1>4

-----------------------------------------------------------------------------
(* What a device reads in a lawful mirror. *)

IdsOf(events) == {e.id : e \in events}

\* What still waits names a target that is not accepted.
OrphansWait(events, v) ==
    \A ev \in events :
        ev.id \in v.missing =>
            IF ev.type = "decision" THEN ev.entry \notin DOMAIN v.entries
            ELSE \/ ev.amends # NoEntry /\ ev.amends \notin DOMAIN v.entries
                 \/ ev.reverses # NoEntry /\ ev.reverses \notin DOMAIN v.entries

EntriesFrom(events, v) ==
    \A id \in DOMAIN v.entries :
        /\ v.entries[id].event \in events
        /\ v.entries[id].event.type = "entry" /\ v.entries[id].event.id = id

Books(events, v) ==
    /\ EntriesFrom(events, v)
    /\ v.refused \subseteq IdsOf(events)
    /\ LinesOnce(v.entries, v.applied)
    /\ ReversalsVoid(v.entries)
    /\ VoidedCount(v.entries)
    /\ OrphansWait(events, v)

LEMMA LawfulPart ==
    ASSUME NEW events, Lawful(events), NEW part \in SUBSET events
    PROVE  Lawful(part)
BY DEF Lawful

LEMMA RebuildIsSound ==
    ASSUME NEW stored, Lawful(Range(stored)), NEW q
    PROVE  Books(Range(stored), Rebuild(stored, q))
<1> DEFINE events == Range(stored)
           usable == {ev \in events : ev.id \notin q}
           tray == LateArrivals(stored, usable)
           st == Project(usable, tray)
           v == Rebuild(stored, q)
<1>1. /\ v.entries = st.entries /\ v.applied = st.applied
      /\ v.refused = st.refused \cup Orphans(st) /\ v.missing = Orphans(st)
  BY DEF Rebuild
<1>2. Lawful(usable) /\ usable \subseteq events
  BY LawfulPart
<1> HIDE DEF tray
<1>3. FoldInv(usable, tray, st)
  BY <1>2, ProjectFolds
<1> HIDE DEF usable, st, v
<1>4. /\ st \in FoldState(usable) /\ BooksInv(tray, st.entries, st.applied)
      /\ PlacesInv(st) /\ st.refused \subseteq IdsOf(usable)
  BY <1>3 DEF FoldInv, IdsOf
<1>5. /\ st.entries \in Partial(Ids, Row(usable)) /\ st.waiting \in [Ids -> Seq(usable)]
  BY <1>4 DEF FoldState
<1>6. \A id \in DOMAIN st.entries : st.entries[id].event \in usable
  <2>1. \A id \in DOMAIN st.entries : st.entries[id] \in Row(usable)
    BY <1>5, PartialTypes
  <2> QED BY <2>1 DEF Row
<1>7. EntriesFrom(events, v)
  BY <1>1, <1>2, <1>4, <1>6 DEF EntriesFrom, BooksInv, RowsNamed
<1>8. \A id \in Orphans(st) : \E t \in Ids, e \in usable :
        e.id = id /\ Dangling(st, e) = t
  <2>1. DOMAIN st.waiting = Ids /\ \A t \in Ids : Range(st.waiting[t]) \subseteq usable
    BY <1>5 DEF Range
  <2>2. SUFFICES ASSUME NEW id \in Orphans(st)
                 PROVE  \E t \in Ids, e \in usable : e.id = id /\ Dangling(st, e) = t
    OBVIOUS
  <2>3. PICK t \in Ids : \E e \in Range(st.waiting[t]) : e.id = id
    BY <2>1, <2>2 DEF Orphans
  <2>4. PICK e \in Range(st.waiting[t]) : e.id = id
    BY <2>3
  <2>5. Dangling(st, e) = t
    BY <1>4, <2>4 DEF PlacesInv
  <2> QED BY <2>1, <2>4, <2>5
<1>9. v.refused \subseteq IdsOf(events)
  BY <1>1, <1>2, <1>4, <1>8 DEF IdsOf
<1>10. OrphansWait(events, v)
  <2>1. SUFFICES ASSUME NEW ev \in events, ev.id \in v.missing
                 PROVE  IF ev.type = "decision" THEN ev.entry \notin DOMAIN v.entries
                        ELSE \/ ev.amends # NoEntry /\ ev.amends \notin DOMAIN v.entries
                             \/ ev.reverses # NoEntry /\ ev.reverses \notin DOMAIN v.entries
    BY DEF OrphansWait
  <2>2. PICK t \in Ids, e \in usable : e.id = ev.id /\ Dangling(st, e) = t
    BY <1>1, <1>8, <2>1
  <2>3. e = ev
    BY <1>2, <2>1, <2>2 DEF Lawful
  <2>4. t # NoEntry
    BY DEF Ids, NoEntry
  <2> QED BY <1>1, <2>2, <2>3, <2>4 DEF Dangling, Accepted
<1> QED BY <1>1, <1>4, <1>7, <1>9, <1>10 DEF Books, BooksInv, events, v

-----------------------------------------------------------------------------
(* A page is stored row by row. *)

\* The mirror after one row more.
StoredRow(s, e) == IF e \in Range(s) THEN s ELSE Append(s, e)

StoresRows(f, rows, page) ==
    /\ f[0] = rows /\ \A n \in 1..Len(page) : f[n] = StoredRow(f[n - 1], page[n])
    /\ Stored(rows, page) = f[Len(page)]

LEMMA RowStored ==
    ASSUME NEW S, NEW s \in Seq(S), NEW e \in S
    PROVE  StoredRow(s, e) \in Seq(S) /\ Range(StoredRow(s, e)) = Range(s) \cup {e}
<1>1. CASE e \in Range(s)
  BY <1>1 DEF StoredRow
<1>2. CASE e \notin Range(s)
  <2>1. <<e>> \in Seq(S) /\ Append(s, e) = s \o <<e>> /\ StoredRow(s, e) = Append(s, e)
    BY <1>2 DEF StoredRow
  <2>2. Range(<<e>>) = {e}
    BY DEF Range
  <2>3. s \o <<e>> \in Seq(S) /\ Range(s \o <<e>>) = Range(s) \cup Range(<<e>>)
    BY <2>1, RangeOfConcat
  <2> QED BY <2>1, <2>2, <2>3
<1> QED BY <1>1, <1>2

LEMMA StoredRuns ==
    ASSUME NEW S, NEW rows \in Seq(S), NEW page \in Seq(S)
    PROVE  \E f : StoresRows(f, rows, page)
<1> DEFINE N == Len(page)
           upTo[n \in 0..Len(page)] ==
                IF n = 0 THEN rows
                ELSE IF page[n] \in Range(upTo[n - 1]) THEN upTo[n - 1]
                ELSE Append(upTo[n - 1], page[n])
           one(n, s) == StoredRow(s, page[n])
           X == Seq(S)
           F == [p \in Nat \X X |-> IF p[1] \in 1..Len(page) THEN one(p[1], p[2]) ELSE p[2]]
<1>1. Stored(rows, page) = upTo[N]
  BY DEF Stored
<1>2. N \in Nat /\ \A n \in 1..N : page[n] \in S
  OBVIOUS
<1>3. \A n \in 1..N, s \in X : one(n, s) \in X
  BY <1>2, RowStored
<1> HIDE DEF N, one
<1>4. F \in [Nat \X X -> X]
  <2>1. ASSUME NEW p \in Nat \X X
        PROVE  (IF p[1] \in 1..Len(page) THEN one(p[1], p[2]) ELSE p[2]) \in X
    BY <1>3 DEF N
  <2> HIDE DEF X
  <2> QED BY <2>1
<1>5. \A n \in 1..N, s \in X : F[<<n, s>>] = one(n, s)
  BY <1>2 DEF N
<1>6. rows \in X
  OBVIOUS
<1> HIDE DEF X, F
<1>7. PICK f \in [0..N -> X] : f[0] = rows /\ \A n \in 1..N : f[n] = F[<<n, f[n - 1]>>]
  <2>1. StepMap(F, X)
    BY <1>4 DEF StepMap
  <2>2. \E f : Repeats(f, F, X, rows, N)
    BY <1>2, <1>6, <2>1, RepeatExists
  <2> QED BY <2>2 DEF Repeats
<1>8. \A n \in 0..N : f[n] = IF n = 0 THEN rows ELSE one(n, f[n - 1])
  <2>1. ASSUME NEW n \in 1..N PROVE f[n] = one(n, f[n - 1])
    <3>1. f[n - 1] \in X
      BY <1>2, <1>7
    <3> QED BY <1>5, <1>7, <3>1
  <2> QED BY <1>2, <1>7, <2>1
<1>9. f = [n \in 0..N |-> IF n = 0 THEN rows ELSE one(n, f[n - 1])]
  BY <1>8
<1>10. upTo = [n \in 0..N |-> IF n = 0 THEN rows ELSE one(n, upTo[n - 1])]
  <2>1. \E g : g = [n \in 0..N |-> IF n = 0 THEN rows ELSE one(n, g[n - 1])]
    BY <1>9
  <2> QED BY <2>1 DEF N, one, StoredRow
<1> HIDE DEF upTo
<1>11. \A n \in 0..N : upTo[n] = IF n = 0 THEN rows ELSE one(n, upTo[n - 1])
  <2> DEFINE g == [n \in 0..N |-> IF n = 0 THEN rows ELSE one(n, upTo[n - 1])]
  <2>1. upTo = g
    BY <1>10
  <2>2. \A n \in 0..N : g[n] = IF n = 0 THEN rows ELSE one(n, upTo[n - 1])
    OBVIOUS
  <2> HIDE DEF g
  <2> QED BY <2>1, <2>2
<1>12. StoresRows(upTo, rows, page)
  <2>1. 0 \in 0..N /\ \A n \in 1..N : n \in 0..N /\ n # 0
    BY <1>2
  <2> QED BY <1>1, <1>11, <2>1 DEF StoresRows, N, one
<1> QED BY <1>12

LEMMA StoredIs ==
    ASSUME NEW S, NEW rows \in Seq(S), NEW page \in Seq(S)
    PROVE  /\ Stored(rows, page) \in Seq(S)
           /\ Range(Stored(rows, page)) = Range(rows) \cup Range(page)
<1> DEFINE N == Len(page)
           first(n) == {page[i] : i \in 1..n}
<1>1. PICK f : StoresRows(f, rows, page)
  BY StoredRuns
<1>2. N \in Nat /\ \A n \in 1..N : page[n] \in S
  OBVIOUS
<1>3. first(0) = {} /\ first(N) = Range(page)
  BY DEF Range
<1>4. \A n \in 1..N : first(n) = first(n - 1) \cup {page[n]}
  <2>1. ASSUME NEW n \in 1..N PROVE 1..n = (1..(n - 1)) \cup {n}
    BY <1>2
  <2> QED BY <2>1
<1>5. f[0] = rows /\ Stored(rows, page) = f[N] /\ \A n \in 1..N : f[n] = StoredRow(f[n - 1], page[n])
  BY <1>1 DEF StoresRows
<1> HIDE DEF N, first
<1> DEFINE T == {n \in 0..N : f[n] \in Seq(S) /\ Range(f[n]) = Range(rows) \cup first(n)}
<1>6. 0 \in T
  BY <1>2, <1>3, <1>5
<1>7. ASSUME NEW n \in 1..N, n - 1 \in T PROVE n \in T
  <2>1. n \in 0..N /\ f[n] = StoredRow(f[n - 1], page[n]) /\ page[n] \in S
    BY <1>2, <1>5
  <2>2. f[n - 1] \in Seq(S) /\ Range(f[n - 1]) = Range(rows) \cup first(n - 1)
    BY <1>7
  <2>3. f[n] \in Seq(S) /\ Range(f[n]) = Range(f[n - 1]) \cup {page[n]}
    <3> DEFINE s == f[n - 1]
               e == page[n]
    <3>1. s \in Seq(S) /\ e \in S /\ f[n] = StoredRow(s, e)
      BY <2>1, <2>2
    <3> HIDE DEF s, e
    <3>2. StoredRow(s, e) \in Seq(S) /\ Range(StoredRow(s, e)) = Range(s) \cup {e}
      BY <3>1, RowStored
    <3>3. f[n] \in Seq(S) /\ Range(f[n]) = Range(s) \cup {e}
      BY <3>1, <3>2
    <3> QED BY <3>3 DEF s, e
  <2> QED BY <1>4, <2>1, <2>2, <2>3
<1> HIDE DEF T
<1>8. \A n \in 0..N : n \in T
  BY <1>2, <1>6, <1>7, UpTo
<1>9. N \in T
  BY <1>2, <1>8
<1> QED BY <1>3, <1>5, <1>9 DEF T

-----------------------------------------------------------------------------
(* The invariant of the devices. *)

\* Corrections and decisions name what has been written.
TargetsWritten(events) ==
    \A e \in events :
        /\ e.type = "entry" /\ e.amends # NoEntry => e.amends \in IdsOf(events)
        /\ e.type = "decision" => e.entry \in IdsOf(events)

Stamped(events) == \A e \in events : e.id = e.hlc

Orderly(events) == Lawful(events) /\ TargetsWritten(events) /\ Stamped(events)

\* What a device may write next, when events have been written.
Fits(events, e) ==
    /\ e \in Event /\ e.id = e.hlc /\ e.id \notin IdsOf(events)
    /\ e.type = "entry" =>
        /\ e.reverses # NoEntry => ~e.pending
        /\ e.amends # NoEntry =>
            \E f \in events : f.type = "entry" /\ f.id = e.amends /\ f.reverses = e.reverses
    /\ e.type = "decision" =>
        \E f \in events : f.type = "entry" /\ f.id = e.entry
                          /\ (e.decision = "reject" => ~f.pending)

\* The rows of each mirror are lawful books, as its device has projected them.
RowsInv ==
    /\ mirror \in [Device -> Seq(Event)]
    /\ DOMAIN view = Device /\ DOMAIN quarantined = Device
    /\ \A d \in Device :
        /\ Books(Range(mirror[d]), view[d])
        /\ quarantined[d] \subseteq IdsOf(Range(mirror[d]))

\* What a facade remembers, it has read in its mirror.
MemoInv ==
    /\ DOMAIN memo = Device
    /\ \A d \in Device : EntriesFrom(Range(mirror[d]), memo[d])

WrittenInv ==
    /\ log \in Seq(Event) /\ outbox \in [Device -> Seq(Event)]
    /\ Orderly(Written)
    /\ \A d \in Device : Range(mirror[d]) \subseteq Written

BooksKept == RowsInv /\ MemoInv /\ WrittenInv

CountersInv ==
    /\ clock \in [Device -> 0..MaxHlc] /\ restarts \in 0..MaxRestart
    /\ cursor \in [Device -> Nat] /\ \A d \in Device : cursor[d] <= Len(log)

LedgerInv == BooksKept /\ CountersInv

LEMMA OrderlyAdds ==
    ASSUME NEW W, Orderly(W), NEW e, Fits(W, e)
    PROVE  Orderly(W \cup {e})
<1> DEFINE N == W \cup {e}
<1>1. /\ Lawful(W) /\ TargetsWritten(W) /\ Stamped(W)
      /\ e \in Event /\ e.id = e.hlc /\ e.id \notin IdsOf(W)
  BY DEF Orderly, Fits
<1>2. \A f \in W : f.id \in IdsOf(W) /\ f.id # e.id
  BY <1>1 DEF IdsOf
<1>3. IdsOf(N) = IdsOf(W) \cup {e.id}
  BY DEF IdsOf
<1>4. TargetsWritten(N)
  <2>1. \A f \in W : /\ f.type = "entry" /\ f.amends # NoEntry => f.amends \in IdsOf(N)
                     /\ f.type = "decision" => f.entry \in IdsOf(N)
    BY <1>1, <1>3 DEF TargetsWritten
  <2>2. /\ e.type = "entry" /\ e.amends # NoEntry => e.amends \in IdsOf(W)
        /\ e.type = "decision" => e.entry \in IdsOf(W)
    BY <1>2 DEF Fits
  <2> QED BY <2>1, <2>2, <1>3 DEF TargetsWritten
<1>5. Stamped(N)
  BY <1>1 DEF Stamped
<1>6. N \subseteq Event /\ \A f, g \in N : f.id = g.id => f = g
  BY <1>1, <1>2 DEF Lawful
<1>7. \A f \in N : f.type = "entry" /\ f.reverses # NoEntry => ~f.pending
  BY <1>1 DEF Lawful, Fits
<1>8. \A f \in N, g \in N : f.type = "entry" /\ g.type = "entry" /\ f.amends = g.id
                                => f.reverses = g.reverses
  <2>1. SUFFICES ASSUME NEW f \in N, NEW g \in N,
                        f.type = "entry", g.type = "entry", f.amends = g.id
                 PROVE  f.reverses = g.reverses
    OBVIOUS
  <2>2. g.id # NoEntry
    <3>1. g.id \in Ids
      BY <1>6, LedgerAssumption DEF Event, Ids
    <3> QED BY <3>1 DEF Ids, NoEntry
  <2>3. CASE f \in W /\ g \in W
    BY <1>1, <2>1, <2>3 DEF Lawful
  <2>4. CASE f \in W /\ g = e
    BY <1>1, <2>1, <2>2, <2>4 DEF TargetsWritten
  <2>5. CASE f = e
    <3>1. PICK k \in W : k.type = "entry" /\ k.id = e.amends /\ k.reverses = e.reverses
      BY <2>1, <2>2, <2>5 DEF Fits
    <3>2. k = g
      BY <1>6, <2>1, <2>5, <3>1
    <3> QED BY <2>5, <3>1, <3>2
  <2> QED BY <2>3, <2>4, <2>5
<1>9. \A f \in N, g \in N :
        f.type = "decision" /\ g.type = "entry" /\ f.entry = g.id /\ f.decision = "reject"
            => ~g.pending
  <2>1. SUFFICES ASSUME NEW f \in N, NEW g \in N,
                        f.type = "decision", g.type = "entry", f.entry = g.id,
                        f.decision = "reject"
                 PROVE  ~g.pending
    OBVIOUS
  <2>2. CASE f \in W /\ g \in W
    BY <1>1, <2>1, <2>2 DEF Lawful
  <2>3. CASE f \in W /\ g = e
    BY <1>1, <2>1, <2>3 DEF TargetsWritten
  <2>4. CASE f = e
    <3>1. PICK k \in W : k.type = "entry" /\ k.id = e.entry /\ ~k.pending
      BY <2>1, <2>4 DEF Fits
    <3>2. k = g
      BY <1>6, <2>1, <2>4, <3>1
    <3> QED BY <3>1, <3>2
  <2> QED BY <2>2, <2>3, <2>4
<1>10. Lawful(N)
  BY <1>6, <1>7, <1>8, <1>9 DEF Lawful
<1> QED BY <1>4, <1>5, <1>10 DEF Orderly

LEMMA MoreEventsKnown ==
    ASSUME NEW events, NEW more, events \subseteq more, NEW v, EntriesFrom(events, v)
    PROVE  EntriesFrom(more, v)
BY DEF EntriesFrom

-----------------------------------------------------------------------------
(* A rebuild keeps the rows. *)

LEMMA RecomputedKeeps ==
    ASSUME RowsInv, NEW d \in Device, NEW stored \in Seq(Event), Lawful(Range(stored)),
           Range(mirror[d]) \subseteq Range(stored), Recomputed(d, stored)
    PROVE  /\ RowsInv'
           /\ mirror'[d] = stored /\ EntriesFrom(Range(stored), view'[d])
           /\ \A x \in Device : Range(mirror[x]) \subseteq Range(mirror'[x])
           /\ \A x \in Device \ {d} : mirror'[x] = mirror[x]
<1> DEFINE v == Rebuild(stored, quarantined[d])
<1>1. Books(Range(stored), v)
  BY RebuildIsSound
<1>2. /\ mirror' = [mirror EXCEPT ![d] = stored]
      /\ view' = [view EXCEPT ![d] = v]
      /\ quarantined' = [quarantined EXCEPT ![d] = @ \cup v.refused]
  BY DEF Recomputed
<1> HIDE DEF v
<1>3. /\ mirror' \in [Device -> Seq(Event)] /\ mirror'[d] = stored
      /\ \A x \in Device \ {d} : mirror'[x] = mirror[x]
  BY <1>2 DEF RowsInv
<1>4. /\ DOMAIN view' = Device /\ view'[d] = v
      /\ \A x \in Device \ {d} : view'[x] = view[x]
  BY <1>2 DEF RowsInv
<1>5. /\ DOMAIN quarantined' = Device /\ quarantined'[d] = quarantined[d] \cup v.refused
      /\ \A x \in Device \ {d} : quarantined'[x] = quarantined[x]
  BY <1>2 DEF RowsInv
<1>6. \A x \in Device : Range(mirror[x]) \subseteq Range(mirror'[x])
  BY <1>3
<1>7. quarantined'[d] \subseteq IdsOf(Range(stored))
  <2>1. quarantined[d] \subseteq IdsOf(Range(mirror[d]))
    BY DEF RowsInv
  <2>2. IdsOf(Range(mirror[d])) \subseteq IdsOf(Range(stored))
    BY DEF IdsOf
  <2>3. v.refused \subseteq IdsOf(Range(stored))
    BY <1>1 DEF Books
  <2> QED BY <1>5, <2>1, <2>2, <2>3
<1>8. ASSUME NEW x \in Device
      PROVE  /\ Books(Range(mirror'[x]), view'[x])
             /\ quarantined'[x] \subseteq IdsOf(Range(mirror'[x]))
  <2>1. CASE x = d
    BY <1>1, <1>3, <1>4, <1>7, <2>1
  <2>2. CASE x # d
    <3>1. Books(Range(mirror[x]), view[x]) /\ quarantined[x] \subseteq IdsOf(Range(mirror[x]))
      BY DEF RowsInv
    <3> QED BY <1>3, <1>4, <1>5, <2>2, <3>1
  <2> QED BY <2>1, <2>2
<1>9. RowsInv'
  BY <1>3, <1>4, <1>5, <1>8 DEF RowsInv
<1>10. EntriesFrom(Range(stored), view'[d])
  BY <1>1, <1>4 DEF Books
<1> QED BY <1>3, <1>6, <1>9, <1>10

-----------------------------------------------------------------------------
(* A device writes. *)

LEMMA MemoKept ==
    ASSUME MemoInv, NEW d \in Device,
           \A x \in Device : Range(mirror[x]) \subseteq Range(mirror'[x]),
           memo' = memo \/ \E v : memo' = [memo EXCEPT ![d] = v] /\ EntriesFrom(Range(mirror'[d]), v)
    PROVE  MemoInv'
<1>1. \A x \in Device : EntriesFrom(Range(mirror'[x]), memo[x])
  BY MoreEventsKnown DEF MemoInv
<1>2. CASE memo' = memo
  BY <1>1, <1>2 DEF MemoInv
<1>3. CASE memo' # memo
  <2>1. PICK v : memo' = [memo EXCEPT ![d] = v] /\ EntriesFrom(Range(mirror'[d]), v)
    BY <1>3
  <2>2. DOMAIN memo' = Device /\ memo'[d] = v /\ \A x \in Device \ {d} : memo'[x] = memo[x]
    BY <2>1 DEF MemoInv
  <2> QED BY <1>1, <2>1, <2>2 DEF MemoInv
<1> QED BY <1>2, <1>3

LEMMA AppendOwnKeeps ==
    ASSUME BooksKept, NEW d \in Device, NEW events \in Seq(Event),
           Orderly(Written \cup Range(events)), AppendOwn(d, events)
    PROVE  BooksKept' /\ mirror'[d] \in Seq(Event) /\ log' = log /\ cursor' = cursor
<1> DEFINE stored == mirror[d] \o events
           N == Written \cup Range(events)
<1>1. mirror[d] \in Seq(Event) /\ Range(mirror[d]) \subseteq Written
  BY DEF BooksKept, RowsInv, WrittenInv
<1>2. stored \in Seq(Event) /\ Range(stored) = Range(mirror[d]) \cup Range(events)
  BY <1>1, RangeOfConcat
<1>3. /\ Recomputed(d, stored) /\ memo' = [memo EXCEPT ![d] = view'[d]]
      /\ outbox' = [outbox EXCEPT ![d] = @ \o events]
      /\ log' = log /\ cursor' = cursor
  BY DEF AppendOwn
<1> HIDE DEF stored
<1>4. Lawful(Range(stored))
  <2>1. Range(stored) \in SUBSET N
    BY <1>1, <1>2
  <2> QED BY <2>1, LawfulPart DEF Orderly
<1>5. /\ RowsInv' /\ mirror'[d] = stored /\ EntriesFrom(Range(stored), view'[d])
      /\ \A x \in Device : Range(mirror[x]) \subseteq Range(mirror'[x])
      /\ \A x \in Device \ {d} : mirror'[x] = mirror[x]
  BY <1>1, <1>2, <1>3, <1>4, RecomputedKeeps DEF BooksKept
<1>6. MemoInv'
  BY <1>3, <1>5, MemoKept DEF BooksKept
<1>7. /\ outbox' \in [Device -> Seq(Event)]
      /\ Range(outbox'[d]) = Range(outbox[d]) \cup Range(events)
      /\ \A x \in Device \ {d} : outbox'[x] = outbox[x]
  <2>1. outbox \in [Device -> Seq(Event)]
    BY DEF BooksKept, WrittenInv
  <2>2. /\ outbox[d] \o events \in Seq(Event)
        /\ Range(outbox[d] \o events) = Range(outbox[d]) \cup Range(events)
    BY <2>1, RangeOfConcat
  <2> QED BY <1>3, <2>1, <2>2
<1>8. Written' = N
  <2>1. UNION {Range(outbox'[x]) : x \in Device}
            = (UNION {Range(outbox[x]) : x \in Device}) \cup Range(events)
    <3>1. \A x \in Device : Range(outbox'[x]) = IF x = d THEN Range(outbox[d]) \cup Range(events)
                                                ELSE Range(outbox[x])
      BY <1>7
    <3> QED BY <3>1
  <2> QED BY <1>3, <2>1 DEF Written
<1>9. \A x \in Device : Range(mirror'[x]) \subseteq N
  <2>1. \A x \in Device : Range(mirror[x]) \subseteq Written
    BY DEF BooksKept, WrittenInv
  <2> QED BY <1>2, <1>5, <2>1
<1>10. WrittenInv'
  <2>1. log' \in Seq(Event) /\ Orderly(N)
    BY <1>3 DEF BooksKept, WrittenInv
  <2> HIDE DEF N
  <2> QED BY <1>7, <1>8, <1>9, <2>1 DEF WrittenInv
<1> QED BY <1>2, <1>3, <1>5, <1>6, <1>10 DEF BooksKept

LEMMA TicksAreNew ==
    ASSUME LedgerInv, NEW d \in Device, NEW h \in Ticks(d)
    PROVE  /\ h \in Ids /\ h \in 0..MaxHlc /\ MaxHlc \in Nat
           /\ h \notin IdsOf(Written)
<1>1. clock[d] \in 0..MaxHlc /\ MaxHlc \in Nat
  BY LedgerAssumption DEF LedgerInv, CountersInv
<1>2. h \in (clock[d] + 1)..MaxHlc /\ h \notin {e.hlc : e \in Written}
  BY DEF Ticks
<1>3. \A e \in Written : e.id = e.hlc
  BY DEF LedgerInv, BooksKept, WrittenInv, Orderly, Stamped
<1>4. h \notin IdsOf(Written)
  BY <1>2, <1>3 DEF IdsOf
<1> QED BY <1>1, <1>2, <1>4 DEF Ids

LEMMA WriteOneKeeps ==
    ASSUME LedgerInv, NEW d \in Device, NEW e, Fits(Written, e), Write(d, <<e>>)
    PROVE  LedgerInv'
<1>1. <<e>> \in Seq(Event) /\ Range(<<e>>) = {e} /\ Last(<<e>>) = e /\ e.hlc \in 0..MaxHlc
  <2>1. e \in Event
    BY DEF Fits
  <2>2. e.hlc \in 0..MaxHlc
    BY <2>1, LedgerAssumption DEF Event
  <2> QED BY <2>1, <2>2 DEF Range, Last
<1>2. /\ AppendOwn(d, <<e>>) /\ restarts' = restarts
      /\ clock' = [clock EXCEPT ![d] = e.hlc]
  BY <1>1 DEF Write
<1>3. Orderly(Written \cup {e})
  BY OrderlyAdds DEF LedgerInv, BooksKept, WrittenInv
<1>4. BooksKept' /\ log' = log /\ cursor' = cursor
  BY <1>1, <1>2, <1>3, AppendOwnKeeps DEF LedgerInv
<1> QED BY <1>1, <1>2, <1>4 DEF LedgerInv, CountersInv

LEMMA WriteTwoKeeps ==
    ASSUME LedgerInv, NEW d \in Device, NEW e, NEW f,
           Fits(Written, e), Fits(Written \cup {e}, f), Write(d, <<e, f>>)
    PROVE  LedgerInv'
<1> DEFINE s == <<e, f>>
<1>1. s \in Seq(Event) /\ Range(s) = {e, f} /\ Last(s) = f /\ f.hlc \in 0..MaxHlc
  <2>1. e \in Event /\ f \in Event
    BY DEF Fits
  <2>2. f.hlc \in 0..MaxHlc
    BY <2>1, LedgerAssumption DEF Event
  <2>3. s \in Seq(Event) /\ DOMAIN s = 1..2 /\ s[1] = e /\ s[2] = f /\ Len(s) = 2
    BY <2>1
  <2>4. Range(s) = {s[1], s[2]}
    BY <2>3 DEF Range
  <2> QED BY <2>2, <2>3, <2>4 DEF Last
<1>2. /\ AppendOwn(d, s) /\ restarts' = restarts
      /\ clock' = [clock EXCEPT ![d] = f.hlc]
  BY <1>1 DEF Write
<1>3. Orderly((Written \cup {e}) \cup {f})
  <2>1. Orderly(Written \cup {e})
    BY OrderlyAdds DEF LedgerInv, BooksKept, WrittenInv
  <2> QED BY <2>1, OrderlyAdds
<1>4. (Written \cup {e}) \cup {f} = Written \cup Range(s)
  BY <1>1
<1> HIDE DEF s
<1>5. BooksKept' /\ log' = log /\ cursor' = cursor
  BY <1>1, <1>2, <1>3, <1>4, AppendOwnKeeps DEF LedgerInv
<1> QED BY <1>1, <1>2, <1>5 DEF LedgerInv, CountersInv

LEMMA StateKnows ==
    ASSUME LedgerInv, NEW d \in Device
    PROVE  /\ \A id \in DOMAIN StateOf(d).entries :
                LET of == StateOf(d).entries[id].event IN
                of \in Written /\ of.type = "entry" /\ of.id = id
           /\ \A id : Known(d, id) => id \in DOMAIN StateOf(d).entries
<1>1. EntriesFrom(Range(mirror[d]), StateOf(d))
  BY DEF LedgerInv, BooksKept, RowsInv, MemoInv, Books, StateOf
<1>2. Range(mirror[d]) \subseteq Written
  BY DEF LedgerInv, BooksKept, WrittenInv
<1> QED BY <1>1, <1>2 DEF EntriesFrom, Known, Accepted

-----------------------------------------------------------------------------
(* What the facade writes fits. *)

LEMMA EventForms ==
    ASSUME NEW d \in Device, NEW h \in Ids, NEW m \in Month, NEW pending \in BOOLEAN
    PROVE  /\ Entry(d, h, m, pending) \in Event
           /\ \A id \in Ids, decision \in Decisions : Decision(d, h, id, decision) \in Event
           /\ [type |-> "lock", id |-> h, by |-> d, hlc |-> h, month |-> m] \in Event
           /\ [type |-> "unlock", id |-> h, by |-> d, hlc |-> h, month |-> m] \in Event
<1>1. NoEntry \in 0..MaxHlc /\ (~pending /\ d \in Limited) \in BOOLEAN
  BY LedgerAssumption DEF NoEntry
<1> QED BY <1>1 DEF Entry, Decision, Event, Ids

LEMMA PlainFits ==
    ASSUME LedgerInv, NEW d \in Device, NEW h \in Ticks(d), NEW m \in Month,
           NEW pending \in BOOLEAN
    PROVE  Fits(Written, Entry(d, h, m, pending))
BY TicksAreNew, EventForms DEF Fits, Entry

LEMMA AmendmentFits ==
    ASSUME LedgerInv, NEW d \in Device, NEW h \in Ticks(d), NEW m \in Month,
           NEW of \in Written, of.type = "entry"
    PROVE  Fits(Written, Amendment(d, h, m, of))
<1> DEFINE e == Entry(d, h, m, of.pending)
           a == Amendment(d, h, m, of)
<1>1. h \in Ids /\ h \notin IdsOf(Written)
  BY TicksAreNew
<1>2. of \in Event /\ (of.reverses # NoEntry => ~of.pending)
  BY DEF LedgerInv, BooksKept, WrittenInv, Orderly, Lawful
<1>3. /\ of.pending \in BOOLEAN /\ of.id \in 0..MaxHlc /\ of.reverses \in 0..MaxHlc
      /\ of.id # NoEntry
  BY <1>2, LedgerAssumption DEF Event, NoEntry
<1>4. e \in Event /\ e.type = "entry" /\ e.id = h /\ e.hlc = h /\ e.pending = of.pending
  BY <1>1, <1>3, EventForms DEF Entry
<1>5. a = [e EXCEPT !.flagged = (@ /\ of.reverses = NoEntry) \/ of.flagged, !.amends = of.id,
                    !.reverses = of.reverses]
  BY DEF Amendment
<1>6. /\ a \in Event /\ a.type = "entry" /\ a.id = h /\ a.hlc = h /\ a.pending = of.pending
      /\ a.amends = of.id /\ a.reverses = of.reverses
  <2>1. ((e.flagged /\ of.reverses = NoEntry) \/ of.flagged) \in BOOLEAN
    OBVIOUS
  <2> HIDE DEF e, a
  <2> QED BY <1>3, <1>4, <1>5, <2>1 DEF Event
<1> QED BY <1>1, <1>2, <1>6 DEF Fits

LEMMA ReversalFits ==
    ASSUME LedgerInv, NEW d \in Device, NEW W, NEW h \in Ids, h \notin IdsOf(W),
           NEW m \in Month, NEW of \in Written, of.type = "entry"
    PROVE  Fits(W, Reversal(d, h, m, of))
<1> DEFINE e == Entry(d, h, m, FALSE)
           a == Reversal(d, h, m, of)
<1>1. of \in Event
  BY DEF LedgerInv, BooksKept, WrittenInv, Orderly, Lawful
<1>2. of.id \in 0..MaxHlc
  BY <1>1, LedgerAssumption DEF Event
<1>3. /\ e \in Event /\ e.type = "entry" /\ e.id = h /\ e.hlc = h /\ e.pending = FALSE
      /\ e.amends = NoEntry
  BY EventForms DEF Entry
<1>4. a = [e EXCEPT !.flagged = FALSE, !.reverses = of.id]
  BY DEF Reversal
<1>5. /\ a \in Event /\ a.type = "entry" /\ a.id = h /\ a.hlc = h /\ a.pending = FALSE
      /\ a.amends = NoEntry
  <2> HIDE DEF e, a
  <2> QED BY <1>2, <1>3, <1>4 DEF Event
<1> QED BY <1>5 DEF Fits

LEMMA DecisionFits ==
    ASSUME LedgerInv, NEW d \in Device, NEW h \in Ticks(d), NEW of \in Written,
           of.type = "entry", NEW decision \in Decisions,
           decision = "reject" => ~of.pending
    PROVE  Fits(Written, Decision(d, h, of.id, decision))
<1>1. of \in Event
  BY DEF LedgerInv, BooksKept, WrittenInv, Orderly, Lawful
<1>2. of.id \in Ids
  BY <1>1, LedgerAssumption DEF Event, Ids
<1>3. h \in Ids /\ h \notin IdsOf(Written)
  BY TicksAreNew
<1>4. Decision(d, h, of.id, decision) \in Event
  BY <1>1, <1>2, <1>3 DEF Decision, Event, Ids
<1> QED BY <1>3, <1>4 DEF Fits, Decision

LEMMA ClosingFits ==
    ASSUME LedgerInv, NEW d \in Device, NEW h \in Ticks(d), NEW m \in Month,
           NEW type \in {"lock", "unlock"}
    PROVE  Fits(Written, [type |-> type, id |-> h, by |-> d, hlc |-> h, month |-> m])
<1>1. h \in Ids /\ h \notin IdsOf(Written)
  BY TicksAreNew
<1>2. [type |-> type, id |-> h, by |-> d, hlc |-> h, month |-> m] \in Event
  BY <1>1 DEF Event, Ids
<1> QED BY <1>1, <1>2 DEF Fits

-----------------------------------------------------------------------------
(* Every step keeps the invariant. *)

LEMMA GreatestInRange ==
    ASSUME NEW N \in Nat, NEW S \in SUBSET (0..N), S # {}
    PROVE  Max(S) \in S
<1> DEFINE gaps == {n \in 0..N : N - n \in S}
<1>1. gaps \in SUBSET Nat /\ gaps # {}
  <2>1. gaps \in SUBSET Nat
    OBVIOUS
  <2>2. PICK x \in S : x \in 0..N
    OBVIOUS
  <2>3. N - x \in 0..N /\ N - (N - x) = x
    BY <2>2
  <2>4. N - x \in gaps
    BY <2>2, <2>3
  <2> QED BY <2>1, <2>4
<1>2. PICK m \in gaps : \A n \in gaps : m <= n
  BY <1>1, LeastNumber
<1>3. \A y \in S : N - m >= y
  <2>1. \A y \in S : N - y \in 0..N /\ N - (N - y) = y
    OBVIOUS
  <2>2. \A y \in S : m <= N - y
    BY <1>2, <2>1
  <2> QED BY <1>2, <2>2
<1>4. \E x \in S : \A y \in S : x >= y
  BY <1>2, <1>3
<1> QED BY <1>4 DEF Max

LEMMA SeededClockIs ==
    ASSUME NEW stored \in Seq(Event)
    PROVE  SeededClock(stored) \in 0..MaxHlc
<1> DEFINE S == {e.hlc : e \in Range(stored)} \cup {0}
<1>1. MaxHlc \in Nat
  BY LedgerAssumption
<1>2. Range(stored) \subseteq Event
  BY DEF Range
<1>3. S \in SUBSET (0..MaxHlc) /\ S # {}
  BY <1>1, <1>2 DEF Event
<1> HIDE DEF S
<1>4. Max(S) \in S
  BY <1>1, <1>3, GreatestInRange
<1>5. SeededClock(stored) = Max(S)
  BY DEF SeededClock, S
<1> QED BY <1>3, <1>4, <1>5

LEMMA InitKeeps == Init => LedgerInv
<1> SUFFICES ASSUME Init PROVE LedgerInv
  OBVIOUS
<1>1. /\ mirror = [d \in Device |-> <<>>] /\ quarantined = [d \in Device |-> {}]
      /\ view = [d \in Device |-> NoRows] /\ memo = [d \in Device |-> Nothing]
      /\ clock = [d \in Device |-> 0] /\ outbox = [d \in Device |-> <<>>]
      /\ cursor = [d \in Device |-> 0] /\ log = <<>> /\ restarts = 0
  BY DEF Init
<1>2. <<>> \in Seq(Event) /\ Range(<<>>) = {} /\ Len(<<>>) = 0
  BY DEF Range
<1>3. Lawful({}) /\ Orderly({})
  BY DEF Orderly, Lawful, TargetsWritten, Stamped
<1>4. Books({}, NoRows)
  BY <1>2, <1>3, RebuildIsSound DEF NoRows
<1>5. EntriesFrom({}, Nothing)
  BY DEF EntriesFrom, Nothing
<1>6. RowsInv
  BY <1>1, <1>2, <1>4 DEF RowsInv
<1>7. MemoInv
  BY <1>1, <1>2, <1>5 DEF MemoInv
<1>8. Written = {}
  BY <1>1, <1>2 DEF Written
<1>9. WrittenInv
  BY <1>1, <1>2, <1>3, <1>8 DEF WrittenInv
<1>10. CountersInv
  BY <1>1, <1>2, LedgerAssumption DEF CountersInv
<1> QED BY <1>6, <1>7, <1>9, <1>10 DEF LedgerInv, BooksKept

LEMMA FacadeWrites ==
    ASSUME LedgerInv, NEW d \in Device,
           \/ Post(d) \/ Amend(d) \/ ReverseEntry(d) \/ ApproveAdvance(d) \/ ApproveEntry(d)
           \/ LockMonth(d) \/ UnlockMonth(d)
    PROVE  \E e : Fits(Written, e) /\ Write(d, <<e>>)
<1> DEFINE event(id) == StateOf(d).entries[id].event
<1>1. /\ \A id \in DOMAIN StateOf(d).entries :
            event(id) \in Written /\ event(id).type = "entry" /\ event(id).id = id
      /\ \A id : Known(d, id) => id \in DOMAIN StateOf(d).entries
  BY StateKnows
<1>2. ASSUME Post(d) PROVE \E e : Fits(Written, e) /\ Write(d, <<e>>)
  <2>1. PICK h \in Ticks(d), m \in Month, pending \in BOOLEAN :
            Write(d, <<Entry(d, h, m, pending)>>)
    BY <1>2 DEF Post
  <2> QED BY <2>1, PlainFits
<1>3. ASSUME Amend(d) PROVE \E e : Fits(Written, e) /\ Write(d, <<e>>)
  <2>1. PICK id \in DOMAIN view[d].entries, h \in Ticks(d), m \in Month :
            Known(d, id) /\ Write(d, <<Amendment(d, h, m, event(id))>>)
    BY <1>3 DEF Amend
  <2>2. event(id) \in Written /\ event(id).type = "entry"
    BY <1>1, <2>1
  <2> HIDE DEF event
  <2> QED BY <2>1, <2>2, AmendmentFits
<1>4. ASSUME ReverseEntry(d) PROVE \E e : Fits(Written, e) /\ Write(d, <<e>>)
  <2>1. PICK id \in DOMAIN view[d].entries, h \in Ticks(d), m \in Month :
            Known(d, id) /\ Write(d, <<Reversal(d, h, m, event(id))>>)
    BY <1>4 DEF ReverseEntry
  <2>2. event(id) \in Written /\ event(id).type = "entry"
    BY <1>1, <2>1
  <2>3. h \in Ids /\ h \notin IdsOf(Written)
    BY TicksAreNew
  <2> HIDE DEF event
  <2> QED BY <2>1, <2>2, <2>3, ReversalFits
<1>5. ASSUME ApproveAdvance(d) \/ ApproveEntry(d) PROVE \E e : Fits(Written, e) /\ Write(d, <<e>>)
  <2>1. PICK id \in DOMAIN view[d].entries, h \in Ticks(d) :
            Known(d, id) /\ Write(d, <<Decision(d, h, id, "approve")>>)
    BY <1>5 DEF ApproveAdvance, ApproveEntry, OpenFlag
  <2>2. event(id) \in Written /\ event(id).type = "entry" /\ event(id).id = id
    BY <1>1, <2>1
  <2>3. Fits(Written, Decision(d, h, event(id).id, "approve"))
    <3> HIDE DEF event
    <3> QED BY <2>2, DecisionFits DEF Decisions
  <2> HIDE DEF event
  <2> QED BY <2>1, <2>2, <2>3
<1>6. ASSUME LockMonth(d) \/ UnlockMonth(d) PROVE \E e : Fits(Written, e) /\ Write(d, <<e>>)
  <2>1. PICK h \in Ticks(d), m \in Month, type \in {"lock", "unlock"} :
            Write(d, <<[type |-> type, id |-> h, by |-> d, hlc |-> h, month |-> m]>>)
    BY <1>6 DEF LockMonth, UnlockMonth
  <2> QED BY <2>1, ClosingFits
<1> QED BY <1>2, <1>3, <1>4, <1>5, <1>6

LEMMA RejectWrites ==
    ASSUME LedgerInv, NEW d \in Device, RejectEntry(d)
    PROVE  \E e, f : /\ Fits(Written, e) /\ Fits(Written \cup {e}, f)
                     /\ Write(d, <<e, f>>)
<1> DEFINE event(id) == StateOf(d).entries[id].event
<1>1. PICK id \in DOMAIN view[d].entries, h \in Ticks(d), m \in Month, h2 \in Ticks(d) :
        /\ h2 > h /\ OpenFlag(d, id)
        /\ Write(d, <<Decision(d, h, id, "reject"), Reversal(d, h2, m, event(id))>>)
  BY DEF RejectEntry
<1>2. /\ event(id) \in Written /\ event(id).type = "entry" /\ event(id).id = id
      /\ ~event(id).pending
  BY <1>1, StateKnows DEF OpenFlag
<1>3. h \in Ids /\ h2 \in Ids /\ h2 # h /\ h2 \notin IdsOf(Written)
  BY <1>1, TicksAreNew DEF Ids
<1> HIDE DEF event
<1> DEFINE e == Decision(d, h, id, "reject")
<1>4. Fits(Written, e)
  BY <1>2, DecisionFits DEF Decisions
<1>5. h2 \notin IdsOf(Written \cup {e})
  <2>1. e.id = h
    BY DEF Decision
  <2> QED BY <1>3, <2>1 DEF IdsOf
<1>6. Fits(Written \cup {e}, Reversal(d, h2, m, event(id)))
  BY <1>2, <1>3, <1>5, ReversalFits
<1> QED BY <1>1, <1>4, <1>6

LEMMA RejectHalfWrites ==
    ASSUME LedgerInv, NEW d \in Device, RejectHalf(d)
    PROVE  \E e : Fits(Written, e) /\ AppendOwn(d, <<e>>)
<1> DEFINE event(id) == StateOf(d).entries[id].event
<1>1. PICK id \in DOMAIN view[d].entries, h \in Ticks(d) :
        OpenFlag(d, id) /\ AppendOwn(d, <<Decision(d, h, id, "reject")>>)
  BY DEF RejectHalf
<1>2. /\ event(id) \in Written /\ event(id).type = "entry" /\ event(id).id = id
      /\ ~event(id).pending
  BY <1>1, StateKnows DEF OpenFlag
<1> HIDE DEF event
<1> DEFINE e == Decision(d, h, id, "reject")
<1>3. Fits(Written, e)
  BY <1>2, DecisionFits DEF Decisions
<1>4. AppendOwn(d, <<e>>)
  BY <1>1
<1> QED BY <1>3, <1>4

LEMMA RejectHalfKeeps ==
    ASSUME LedgerInv, NEW d \in Device, RejectHalf(d)
    PROVE  LedgerInv'
<1>1. PICK e : Fits(Written, e) /\ AppendOwn(d, <<e>>)
  BY RejectHalfWrites
<1>2. /\ restarts < MaxRestart /\ restarts' = restarts + 1
      /\ clock' = [clock EXCEPT ![d] = SeededClock(mirror'[d])]
  BY DEF RejectHalf
<1>3. <<e>> \in Seq(Event) /\ Range(<<e>>) = {e} /\ Orderly(Written \cup {e})
  <2>1. e \in Event
    BY <1>1 DEF Fits
  <2>2. Orderly(Written \cup {e})
    BY <1>1, OrderlyAdds DEF LedgerInv, BooksKept, WrittenInv
  <2> QED BY <2>1, <2>2 DEF Range
<1>4. BooksKept' /\ mirror'[d] \in Seq(Event) /\ log' = log /\ cursor' = cursor
  BY <1>1, <1>3, AppendOwnKeeps DEF LedgerInv
<1>5. SeededClock(mirror'[d]) \in 0..MaxHlc
  BY <1>4, SeededClockIs
<1>6. CountersInv'
  BY <1>2, <1>4, <1>5, LedgerAssumption DEF LedgerInv, CountersInv
<1> QED BY <1>4, <1>6 DEF LedgerInv

LEMMA EngineKeeps ==
    ASSUME LedgerInv, NEW d \in Device, Push(d) \/ Pull(d) \/ Show(d) \/ Restart(d)
    PROVE  LedgerInv'
<1>1. /\ log \in Seq(Event) /\ outbox \in [Device -> Seq(Event)]
      /\ mirror \in [Device -> Seq(Event)]
      /\ Orderly(Written) /\ Lawful(Written)
      /\ \A x \in Device : Range(mirror[x]) \subseteq Written
      /\ cursor \in [Device -> Nat] /\ \A x \in Device : cursor[x] <= Len(log)
  BY DEF LedgerInv, BooksKept, RowsInv, WrittenInv, CountersInv, Orderly
<1>2. ASSUME Push(d) PROVE LedgerInv'
  <2>1. /\ outbox[d] # <<>> /\ outbox[d] \in Seq(Event)
        /\ log' = Append(log, Head(outbox[d]))
        /\ outbox' = [outbox EXCEPT ![d] = Tail(@)]
        /\ UNCHANGED <<mirror, quarantined, view, memo, clock, cursor, restarts>>
    BY <1>1, <1>2 DEF Push
  <2> DEFINE sent == Head(outbox[d])
  <2>2. /\ sent \in Range(outbox[d]) /\ sent \in Event
        /\ outbox[d] = <<sent>> \o Tail(outbox[d]) /\ Tail(outbox[d]) \in Seq(Event)
        /\ <<sent>> \in Seq(Event) /\ Append(log, sent) = log \o <<sent>>
    BY <1>1, <2>1 DEF Range
  <2> HIDE DEF sent
  <2>3. Range(outbox[d]) = {sent} \cup Range(Tail(outbox[d]))
    <3>1. Range(<<sent>>) = {sent}
      BY DEF Range
    <3> DEFINE rest == Tail(outbox[d])
    <3>0. rest \in Seq(Event) /\ <<sent>> \in Seq(Event)
      BY <2>2
    <3> HIDE DEF rest
    <3>2. Range(<<sent>> \o rest) = Range(<<sent>>) \cup Range(rest)
      BY <3>0, RangeOfConcat
    <3>3. Range(<<sent>> \o Tail(outbox[d])) = Range(<<sent>>) \cup Range(Tail(outbox[d]))
      BY <3>2 DEF rest
    <3> QED BY <2>2, <3>1, <3>3
  <2>4. log' \in Seq(Event) /\ Range(log') = Range(log) \cup {sent} /\ Len(log') = Len(log) + 1
    <3>1. Range(<<sent>>) = {sent} /\ log' = log \o <<sent>>
      BY <2>1, <2>2 DEF Range, sent
    <3>2. /\ log \o <<sent>> \in Seq(Event)
          /\ Range(log \o <<sent>>) = Range(log) \cup Range(<<sent>>)
      BY <1>1, <2>2, RangeOfConcat
    <3>3. Len(log \o <<sent>>) = Len(log) + 1
      BY <1>1, <2>2
    <3> QED BY <3>1, <3>2, <3>3
  <2>5. /\ outbox' \in [Device -> Seq(Event)]
        /\ \A x \in Device : outbox'[x] = IF x = d THEN Tail(outbox[d]) ELSE outbox[x]
    BY <1>1, <2>1, <2>2
  <2>6. Written' = Written
    <3>1. \A x \in Device : Range(outbox[x]) \subseteq Range(outbox'[x]) \cup {sent}
      BY <2>3, <2>5
    <3>2. \A x \in Device : Range(outbox'[x]) \subseteq Range(outbox[x])
      BY <2>3, <2>5
    <3>3. \A e \in Written' : e \in Written
      BY <2>2, <2>4, <3>2 DEF Written
    <3>4. \A e \in Written : e \in Written'
      BY <2>4, <3>1 DEF Written
    <3> QED BY <3>3, <3>4
  <2>7. RowsInv' /\ MemoInv'
    BY <2>1 DEF LedgerInv, BooksKept, RowsInv, MemoInv
  <2>8. WrittenInv'
    BY <1>1, <2>1, <2>4, <2>5, <2>6 DEF WrittenInv
  <2>9. CountersInv'
    <3>1. Len(log) \in Nat
      BY <1>1
    <3> QED BY <1>1, <2>1, <2>4, <3>1 DEF LedgerInv, CountersInv
  <2> QED BY <2>7, <2>8, <2>9 DEF LedgerInv, BooksKept
<1>3. ASSUME Pull(d) PROVE LedgerInv'
  <2> DEFINE page == SubSeq(log, cursor[d] + 1, Len(log))
             stored == Stored(mirror[d], page)
  <2>1. /\ cursor[d] < Len(log) /\ Recomputed(d, stored)
        /\ cursor' = [cursor EXCEPT ![d] = Len(log)]
        /\ UNCHANGED <<memo, clock, outbox, log, restarts>>
    BY <1>3 DEF Pull
  <2>2. page \in Seq(Event) /\ Range(page) \subseteq Range(log)
    <3>1. cursor[d] \in Nat /\ Len(log) \in Nat /\ cursor[d] + 1 \in 1..Len(log)
      BY <1>1, <2>1
    <3> DEFINE k == cursor[d] + 1
    <3>2. k \in 1..Len(log)
      BY <3>1
    <3> HIDE DEF k
    <3>3. /\ SubSeq(log, k, Len(log)) \in Seq(Event)
          /\ Len(SubSeq(log, k, Len(log))) = Len(log) - k + 1
          /\ \A i \in 1..(Len(log) - k + 1) : SubSeq(log, k, Len(log))[i] = log[k + i - 1]
      BY <1>1, <3>1, <3>2
    <3>4. \A i \in 1..(Len(log) - k + 1) : k + i - 1 \in 1..Len(log)
      BY <3>1, <3>2
    <3>5. page = SubSeq(log, k, Len(log))
      BY DEF k
    <3> HIDE DEF page
    <3>6. DOMAIN page = 1..(Len(log) - k + 1) /\ DOMAIN log = 1..Len(log)
      BY <1>1, <3>3, <3>5
    <3> QED BY <3>3, <3>4, <3>5, <3>6 DEF Range
  <2> HIDE DEF page
  <2>3. mirror[d] \in Seq(Event) /\ Range(mirror[d]) \subseteq Written
    BY <1>1
  <2>4. /\ stored \in Seq(Event)
        /\ Range(stored) = Range(mirror[d]) \cup Range(page)
    BY <2>2, <2>3, StoredIs
  <2> HIDE DEF stored
  <2>5. Range(stored) \subseteq Written
    BY <2>2, <2>3, <2>4 DEF Written
  <2>6. Lawful(Range(stored))
    BY <1>1, <2>5, LawfulPart
  <2>7. /\ RowsInv' /\ mirror'[d] = stored
        /\ \A x \in Device : Range(mirror[x]) \subseteq Range(mirror'[x])
        /\ \A x \in Device \ {d} : mirror'[x] = mirror[x]
    BY <2>1, <2>4, <2>6, RecomputedKeeps DEF LedgerInv, BooksKept
  <2>8. MemoInv'
    BY <2>1, <2>7, MemoKept DEF LedgerInv, BooksKept
  <2>9. Written' = Written
    BY <2>1 DEF Written
  <2>10. WrittenInv'
    BY <1>1, <2>1, <2>5, <2>7, <2>9 DEF WrittenInv
  <2>11. CountersInv'
    <3>1. Len(log) \in Nat
      BY <1>1
    <3> QED BY <1>1, <2>1, <3>1 DEF LedgerInv, CountersInv
  <2> QED BY <2>7, <2>8, <2>10, <2>11 DEF LedgerInv, BooksKept
<1>4. ASSUME Show(d) PROVE LedgerInv'
  <2>1. /\ memo' = [memo EXCEPT ![d] = view[d]]
        /\ UNCHANGED <<mirror, quarantined, view, clock, outbox, cursor, log, restarts>>
    BY <1>4 DEF Show
  <2>2. EntriesFrom(Range(mirror'[d]), view[d])
    BY <2>1 DEF LedgerInv, BooksKept, RowsInv, Books
  <2>3. MemoInv'
    BY <2>1, <2>2, MemoKept DEF LedgerInv, BooksKept
  <2>4. RowsInv' /\ CountersInv'
    BY <2>1 DEF LedgerInv, BooksKept, RowsInv, CountersInv
  <2>5. WrittenInv'
    <3>1. Written' = Written
      BY <2>1 DEF Written
    <3> QED BY <1>1, <2>1, <3>1 DEF WrittenInv
  <2> QED BY <2>3, <2>4, <2>5 DEF LedgerInv, BooksKept
<1>5. ASSUME Restart(d) PROVE LedgerInv'
  <2>1. /\ restarts < MaxRestart /\ restarts' = restarts + 1
        /\ clock' = [clock EXCEPT ![d] = SeededClock(mirror[d])]
        /\ Recomputed(d, mirror[d])
        /\ memo' = [memo EXCEPT ![d] = IF mirror[d] = <<>> THEN Nothing ELSE view'[d]]
        /\ UNCHANGED <<outbox, cursor, log>>
    BY <1>5 DEF Restart
  <2>2. mirror[d] \in Seq(Event) /\ Lawful(Range(mirror[d]))
    BY <1>1, LawfulPart
  <2>3. /\ RowsInv' /\ mirror'[d] = mirror[d] /\ EntriesFrom(Range(mirror[d]), view'[d])
        /\ \A x \in Device : Range(mirror[x]) \subseteq Range(mirror'[x])
        /\ \A x \in Device \ {d} : mirror'[x] = mirror[x]
    BY <2>1, <2>2, RecomputedKeeps DEF LedgerInv, BooksKept
  <2>4. EntriesFrom(Range(mirror'[d]), IF mirror[d] = <<>> THEN Nothing ELSE view'[d])
    <3>1. EntriesFrom(Range(mirror'[d]), Nothing)
      BY DEF EntriesFrom, Nothing
    <3> QED BY <2>3, <3>1
  <2>5. MemoInv'
    BY <2>1, <2>3, <2>4, MemoKept DEF LedgerInv, BooksKept
  <2>6. WrittenInv'
    <3>1. Written' = Written
      BY <2>1 DEF Written
    <3> QED BY <1>1, <2>1, <2>3, <3>1 DEF WrittenInv
  <2>7. CountersInv'
    <3>1. SeededClock(mirror[d]) \in 0..MaxHlc
      BY <2>2, SeededClockIs
    <3> QED BY <2>1, <3>1, LedgerAssumption DEF LedgerInv, CountersInv
  <2> QED BY <2>3, <2>5, <2>6, <2>7 DEF LedgerInv, BooksKept
<1> QED BY <1>2, <1>3, <1>4, <1>5

THEOREM LedgerInvHolds == Spec => []LedgerInv
<1>1. ASSUME LedgerInv, [Next]_vars PROVE LedgerInv'
  <2>1. CASE Next
    <3>1. PICK d \in Device :
            \/ Post(d) \/ Amend(d) \/ ReverseEntry(d)
            \/ ApproveAdvance(d) \/ ApproveEntry(d) \/ RejectEntry(d) \/ RejectHalf(d)
            \/ LockMonth(d) \/ UnlockMonth(d)
            \/ Push(d) \/ Pull(d) \/ Show(d) \/ Restart(d)
      BY <2>1 DEF Next
    <3> QED BY <1>1, <3>1, FacadeWrites, RejectWrites, WriteOneKeeps, WriteTwoKeeps,
               RejectHalfKeeps, EngineKeeps
  <2>2. CASE UNCHANGED vars
    <3>1. /\ UNCHANGED <<mirror, quarantined, view, memo, clock, outbox, cursor, log, restarts>>
          /\ Written' = Written
      BY <2>2 DEF vars, Written
    <3> QED BY <1>1, <3>1
          DEF LedgerInv, BooksKept, RowsInv, MemoInv, WrittenInv, CountersInv
  <2> QED BY <1>1, <2>1, <2>2
<1> QED BY <1>1, InitKeeps, PTL DEF Spec

\* A device's books are about what it holds: its rows, the rows it has set aside
\* and the entries it shows are of events it stored, its clock and its cursor
\* stay in range (local_ledger.dart, mirror.dart, engine.dart).
THEOREM LedgerTypeOK == Spec => []TypeOK
<1>1. LedgerInv => TypeOK
  <2> SUFFICES ASSUME LedgerInv PROVE TypeOK
    OBVIOUS
  <2>1. log \in Seq(Event) /\ restarts \in 0..MaxRestart /\ Len(log) \in Nat
    BY DEF LedgerInv, BooksKept, WrittenInv, CountersInv
  <2>2. SUFFICES ASSUME NEW d \in Device
        PROVE  /\ mirror[d] \in Seq(Event) /\ outbox[d] \in Seq(Event)
               /\ quarantined[d] \subseteq IdsOf(Range(mirror[d]))
               /\ DOMAIN view[d].entries \cup view[d].refused \subseteq IdsOf(Range(mirror[d]))
               /\ clock[d] \in 0..MaxHlc /\ cursor[d] \in 0..Len(log)
    BY <2>1 DEF TypeOK, IdsOf
  <2>3. /\ mirror[d] \in Seq(Event) /\ outbox[d] \in Seq(Event)
        /\ quarantined[d] \subseteq IdsOf(Range(mirror[d])) /\ Books(Range(mirror[d]), view[d])
    BY DEF LedgerInv, BooksKept, RowsInv, WrittenInv
  <2>4. DOMAIN view[d].entries \cup view[d].refused \subseteq IdsOf(Range(mirror[d]))
    BY <2>3 DEF Books, EntriesFrom, IdsOf
  <2>5. clock[d] \in 0..MaxHlc /\ cursor[d] \in 0..Len(log)
    BY <2>1 DEF LedgerInv, CountersInv
  <2> QED BY <2>3, <2>4, <2>5
<1> QED BY <1>1, LedgerInvHolds, PTL

LEMMA ShownBooks ==
    ASSUME LedgerInv, NEW d \in Device
    PROVE  Books(Range(mirror[d]), view[d])
BY DEF LedgerInv, BooksKept, RowsInv

\* However late and in whatever order amendments, reversals and decisions
\* arrive, each entry that counts has its lines in the balances once, and no
\* other entry has any (projection.dart: apply).
THEOREM BalanceIsCountedHolds == Spec => []BalanceIsCounted
<1>1. LedgerInv => BalanceIsCounted
  BY ShownBooks DEF BalanceIsCounted, Books, LinesOnce
<1> QED BY <1>1, LedgerInvHolds, PTL

\* What is refused for want of a target names an entry the books do not show:
\* a target that folds later releases what waits for it
\* (projection.dart: defer, release).
THEOREM OrphansHaveNoTargetHolds == Spec => []OrphansHaveNoTarget
<1>1. LedgerInv => OrphansHaveNoTarget
  BY ShownBooks DEF OrphansHaveNoTarget, Books, OrphansWait, Accepted
<1> QED BY <1>1, LedgerInvHolds, PTL

\* A reversed entry and its reversal name each other and net to zero: both
\* count, unless the reversal itself waits in the tray (projection.dart: Void).
THEOREM PairsNetToZeroHolds == Spec => []PairsNetToZero
<1>1. ASSUME LedgerInv PROVE PairsNetToZero
  <2>1. SUFFICES ASSUME NEW d \in Device, NEW id \in DOMAIN view[d].entries,
                        view[d].entries[id].reversedBy # NoEntry
        PROVE  LET r == view[d].entries[id].reversedBy IN
               /\ Accepted(view[d], r) /\ view[d].entries[r].event.reverses = id
               /\ IsCounted(view[d].entries[id])
               /\ view[d].entries[r].status \in {"posted", "voided", "inTray"}
    BY DEF PairsNetToZero
  <2> DEFINE rows == view[d].entries
             r == rows[id].reversedBy
  <2>2. /\ Books(Range(mirror[d]), view[d]) /\ Range(mirror[d]) \subseteq Event
        /\ EntriesFrom(Range(mirror[d]), view[d]) /\ ReversalsVoid(rows) /\ VoidedCount(rows)
    <3>1. Range(mirror[d]) \subseteq Event
      BY <1>1 DEF LedgerInv, BooksKept, WrittenInv, Orderly, Lawful
    <3> QED BY <1>1, <3>1, ShownBooks DEF Books
  <2>3. r \in DOMAIN rows /\ rows[r].event.reverses = id /\ IsCounted(rows[id])
    BY <2>1, <2>2 DEF VoidedCount
  <2>4. id # NoEntry
    <3>1. rows[id].event \in Event /\ rows[id].event.id = id
      BY <2>1, <2>2 DEF EntriesFrom
    <3> QED BY <3>1, LedgerAssumption DEF Event, NoEntry
  <2>5. rows[r].status \in {"posted", "voided", "inTray"}
    BY <2>2, <2>3, <2>4 DEF ReversalsVoid
  <2> QED BY <2>3, <2>5 DEF Accepted
<1> QED BY <1>1, LedgerInvHolds, PTL
=============================================================================
