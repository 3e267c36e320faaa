----------------------------- MODULE RefFamily -----------------------------
(***************************************************************************)
(* The books of one case side by side: money that moves between two books  *)
(* is written in both, in accounts named after the other book.  First what *)
(* build.py prints of every such pair, with what it asserts; then what     *)
(* check_md.py reads back.  bks maps the names of the case's books, in the *)
(* order `names`, to the posted books.                                     *)
(***************************************************************************)
EXTENDS RefReports, RefCheck

-----------------------------------------------------------------------------
(* The pairs *)

AccountsFor(bk, other) == Accounts(bk, LAMBDA n : bk.acct[n].faces = other)
\* The accounts whose whole name is the other book's: not its income, capital or drawings.
Linked(bk, other) == \E n \in ToSet(AccountsFor(bk, other)) : Kind(bk, n) \notin Nominal \cup {"capital", "drawings"}

LinkPairs(names, bks) ==
  LET of(i) == SelectSeq(names, LAMBDA o : Linked(bks[names[i]], o))
      row(i) == [k \in DOMAIN of(i) |-> <<names[i], of(i)[k]>>]
      add(pairs, p) == IF \E q \in ToSet(pairs) : {q[1], q[2]} = {p[1], p[2]} THEN pairs ELSE Append(pairs, p)
  IN  FoldLeft(add, << >>, FlattenSeq([i \in DOMAIN names |-> row(i)]))

OpeningFor(bk, ns) == SumOf(ns, LAMBDA n : IF IsBs(bk, n) THEN bk.acct[n].opening ELSE 0)
\* A pair's entries in one book, by date and number.
PairRows(bk, ns) ==
  SortSeq(FlattenSeq([i \in DOMAIN ns |-> bk.posts[ns[i]]]),
          LAMBDA p, q : p.date < q.date \/ (p.date = q.date /\ p.vid < q.vid))
HowMany(rows, d, a) == Len(SelectSeq(rows, LAMBDA p : p.date = d /\ p.a = a))
\* What one book gave on a day the other received on that day, entry for entry.
Mirrored(rows, others) ==
  /\ Len(rows) = Len(others)
  /\ \A p \in ToSet(rows) : HowMany(rows, p.date, p.a) = HowMany(others, p.date, -p.a)

-----------------------------------------------------------------------------
(* The account between two books, and the summary of the pairs *)

\* The number in the other book of the i-th row: the first one not yet taken.
OtherNumber(rows, others, i) ==
  LET same == SelectSeq(others, LAMBDA q : q.date = rows[i].date /\ q.a = -rows[i].a)
  IN  same[HowMany(SubSeq(rows, 1, i), rows[i].date, rows[i].a)].vid

\* The close entries on the pair's accounts, net per entry: [y, a].
CloseNet(close, ns) ==
  LET net(y) == SumOf(ns, LAMBDA n : On(close[y].lines, n))
  IN  SelectSeq([y \in DOMAIN close |-> [y |-> y, a |-> net(y)]], LAMBDA c : c.a # 0)

PairSection(bks, b, o) ==
  LET mine == AccountsFor(bks[b], o)     theirs == AccountsFor(bks[o], b)
      rows == PairRows(bks[b], mine)     others == PairRows(bks[o], theirs)
      cm == CloseNet(bks[b].close, mine)
      ct == CloseNet(bks[o].close, theirs)
      op == <<OpeningFor(bks[b], mine), OpeningFor(bks[o], theirs)>>
      sum == SumOf(rows, LAMBDA p : p.a)
  IN  <<Row(<<"b/f">>, op)>>
      \o [i \in DOMAIN rows |-> Row(<<"entry", rows[i].date, rows[i].vid, OtherNumber(rows, others, i)>>, <<rows[i].a, -rows[i].a>>)]
      \o [i \in DOMAIN cm |-> Row(<<"close", b, cm[i].y>>, <<cm[i].a, 0>>)]
      \o [i \in DOMAIN ct |-> Row(<<"close", o, ct[i].y>>, <<0, ct[i].a>>)]
      \o <<Row(<<"closing">>, <<op[1] + sum + SumOf(cm, LAMBDA c : c.a), op[2] - sum + SumOf(ct, LAMBDA c : c.a)>>)>>

\* (mutant) The owner is given the whole result, whoever his partners are.
WholeResult(bus, ownName) == Result(bus)

\* ownName's part of the year of bus: its result, or its partner's interest and share.
PartOfResult(bus, ownName) ==
  LET ap == Appropriation(bus)
  IN  IF bus.partners = << >> THEN Result(bus)
      ELSE SumSeq([i \in DOMAIN ap |-> IF bus.acct[bus.partners[i].current].faces = ownName THEN ap[i].interest + ap[i].share ELSE 0])

\* own holds the business bus: [held, put in, result, taken home], where held is
\* own's money in the business after the close and result own's part of its year.
HasStake(bk, ns) == \E n \in ToSet(ns) : Kind(bk, n) = "stake"
StakeFigures(own, bus, ownName, busName) ==
  LET oa == AccountsFor(own, busName)  ba == AccountsFor(bus, ownName)
  IN  [held  |-> -SumOf(ba, LAMBDA n : IF IsEquity(bus, n) THEN bus.pcb[n] ELSE 0),
       put   |-> SumOf(oa, LAMBDA n : IF Kind(own, n) = "stake" THEN own.closing[n] ELSE 0),
       result |-> PartOfResult(bus, ownName),
       taken |-> -SumOf(oa, LAMBDA n : IF Kind(own, n) = "income" THEN own.closing[n] ELSE 0)]
Stakes(bks, b, o) ==
  LET of(x, y) == IF HasStake(bks[x], AccountsFor(bks[x], y)) THEN <<[own |-> x, bus |-> y, fig |-> StakeFigures(bks[x], bks[y], x, y)]>> ELSE << >>
  IN  of(b, o) \o of(o, b)

KeptRows(stakes) ==
  [i \in DOMAIN stakes |->
     LET f == stakes[i].fig
     IN  Row(<<"kept", stakes[i].own, stakes[i].bus, f.held >= f.put>>,
             <<f.held, f.put, f.held - f.put, f.result, f.taken, f.result - f.taken>>)]
SummaryRows(bks, b, o) ==
  LET mine == AccountsFor(bks[b], o)  theirs == AccountsFor(bks[o], b)
      rows == PairRows(bks[b], mine)
      gave == SumOf(rows, LAMBDA p : Pos(p.a))   got == SumOf(rows, LAMBDA p : Neg(p.a))
  IN  <<Row(<<"pair", b, o, mine, theirs>>,
            <<OpeningFor(bks[b], mine), gave, got, OpeningFor(bks[o], theirs), got, gave, Len(rows)>>)>>
      \o KeptRows(Stakes(bks, b, o))

\* Every assertion met while the pairs are printed.
PairMirrors(bks, b, o) ==
  LET mine == AccountsFor(bks[b], o)  theirs == AccountsFor(bks[o], b)
  IN  /\ theirs # << >>
      /\ OpeningFor(bks[b], mine) = -OpeningFor(bks[o], theirs)
      /\ Mirrored(PairRows(bks[b], mine), PairRows(bks[o], theirs))
StakesHold(stakes) == \A i \in DOMAIN stakes : LET f == stakes[i].fig IN f.held - f.put = f.result - f.taken
ClosingIs(closing, m, t, held) == closing = <<m, t>> /\ (~held => m = -t)
PairCloses(bks, b, o) ==
  LET mine == AccountsFor(bks[b], o)  theirs == AccountsFor(bks[o], b)
      at(x, ns) == SumOf(ns, LAMBDA n : bks[x].pcb[n])
  IN  /\ StakesHold(Stakes(bks, b, o))
      /\ ClosingIs(Last(PairSection(bks, b, o)).f, at(b, mine), at(o, theirs), HasStake(bks[b], mine) \/ HasStake(bks[o], theirs))

\* The summary and the sections of the pairs.
PairsPage(bks, ps) ==
  [summary |-> FlattenSeq([i \in DOMAIN ps |-> SummaryRows(bks, ps[i][1], ps[i][2])]),
   between |-> [i \in DOMAIN ps |-> PairSection(bks, ps[i][1], ps[i][2])]]
FamilyPage(names, bks) == PairsPage(bks, LinkPairs(names, bks))

-----------------------------------------------------------------------------
(* The reader: cks maps the books' names to what was derived of their pages *)

NamedAfter(ck, other) == {n \in ck.names : ck.faces[n] = other}
Standing(ck, S) == {n \in S : IsBsWord(ck, n)}
PostsOf(ck, S) == UNION {{[n |-> n, vid |-> p.vid, date |-> p.date, a |-> p.a] : p \in ToSet(ck.post[n])} : n \in S}
NetClose(ck, S, y) == SumOn(S, LAMBDA n : SumOf(ck.cposts[n], LAMBDA p : IF p.y = y THEN p.a ELSE 0))
WordsStake == "Money in a business"

SectionBetweenAgrees(b, cb, o, co, rows) ==
  LET mine == NamedAfter(cb, o)  theirs == NamedAfter(co, b)
      body == SubSeq(rows, 2, Len(rows) - 1)
      entries == With(body, "entry")
      got(j, sg) == {[vid |-> r.k[j], date |-> r.k[2], a |-> sg * r.f[1]] : r \in ToSet(entries)}
      want(ck, S) == {[vid |-> p.vid, date |-> p.date, a |-> p.a] : p \in PostsOf(ck, S)}
      closeRows(x) == SelectSeq(body, LAMBDA r : r.k[1] = "close" /\ r.k[2] = x)
      closeSeen(x, ck, S, j) ==
        \A y \in DOMAIN ck.close :
          LET at == SelectSeq(closeRows(x), LAMBDA r : r.k[3] = y)
          IN  NetClose(ck, S, y) = (IF at = << >> THEN 0 ELSE at[1].f[j])
      op(ck, S) == SumOn(Standing(ck, S), LAMBDA n : ck.opening[n])
      pcb(ck, S) == SumOn(S, LAMBDA n : ck.pcb[n])
      bal(j) == rows[1].f[j] + Column(body, j)
  IN  /\ rows[1].f = <<op(cb, mine), op(co, theirs)>>
      /\ EverySeq(entries, LAMBDA r : r.f[1] = -r.f[2] /\ r.f[1] # 0)
      /\ got(3, 1) = want(cb, mine) /\ got(4, -1) = want(co, theirs)
      /\ closeSeen(b, cb, mine, 1) /\ closeSeen(o, co, theirs, 2)
      /\ Last(rows).f = <<pcb(cb, mine), pcb(co, theirs)>> /\ Last(rows).f = <<bal(1), bal(2)>>
      /\ (\E n \in mine : cb.type[n] = WordsStake) \/ (\E n \in theirs : co.type[n] = WordsStake)
           \/ pcb(cb, mine) = -pcb(co, theirs)

\* What own's books and the business's say of the profit kept.
KeptAgrees(own, co, bus, cb, page, rows) ==
  LET oa == NamedAfter(co, bus)  ba == NamedAfter(cb, own)
      held == -SumOn({n \in ba : cb.type[n] \in WordsEquity}, LAMBDA n : cb.pcb[n])
      put == SumOn({n \in oa : co.type[n] = WordsStake}, LAMBDA n : co.closing[n])
      taken == -SumOn({n \in oa : co.type[n] = "Income"}, LAMBDA n : co.closing[n])
      sh == SelectSeq(Shares(page), LAMBDA r : r.k[2] \in ba)
      part == IF Shares(page) = << >> THEN ResultOf(cb) ELSE SumOf(sh, LAMBDA r : r.f[1] + InterestRead(cb, page, r.k[2]))
      line == SelectSeq(rows, LAMBDA r : r.k[1] = "kept" /\ r.k[2] = own /\ r.k[3] = bus)
  IN  /\ Len(line) = 1 /\ line[1].k[4] = (held >= put)
      /\ line[1].f = <<held, put, held - put, part, taken, part - taken>> /\ held - put = part - taken

SummaryAgrees(cks, pages, rows, r) ==
  LET b == r.k[2]  o == r.k[3]
      mine == NamedAfter(cks[b], o)  theirs == NamedAfter(cks[o], b)
      op == SumOn(Standing(cks[b], mine), LAMBDA n : cks[b].opening[n])
      ps == PostsOf(cks[b], mine)
      gave == SumOn(ps, LAMBDA p : Max0(p.a))  got == SumOn(ps, LAMBDA p : Max0(-p.a))
      count(S, d, a) == Cardinality({p \in S : p.date = d /\ p.a = a})
      owns(x, y) == \E n \in NamedAfter(cks[x], y) : cks[x].type[n] = WordsStake
  IN  /\ ToSet(r.k[4]) = mine /\ ToSet(r.k[5]) = theirs
      /\ r.f = <<op, gave, got, -op, got, gave, Cardinality(ps)>>
      /\ SumOn(Standing(cks[o], theirs), LAMBDA n : cks[o].opening[n]) = -op
      /\ LET qs == PostsOf(cks[o], theirs)
         IN  Cardinality(ps) = Cardinality(qs) /\ \A p \in ps : count(ps, p.date, p.a) = count(qs, p.date, -p.a)
      /\ IF owns(b, o) THEN KeptAgrees(b, cks[b], o, cks[o], pages[o], rows)
         ELSE IF owns(o, b) THEN KeptAgrees(o, cks[o], b, cks[b], pages[b], rows)
         ELSE SumOn(mine, LAMBDA n : cks[b].closing[n]) = -SumOn(theirs, LAMBDA n : cks[o].closing[n])

FamilyAgreesWith(names, pages, cks, family) ==
  LET rows == family.summary
      pairs == With(rows, "pair")
      linked(b, o) == \E n \in NamedAfter(cks[b], o) : cks[b].type[n] \notin WordsHeads \cup {"Own money", "Drawings"}
      want == {{p[1], p[2]} : p \in {q \in ToSet(names) \X ToSet(names) : linked(q[1], q[2])}}
  IN  /\ Len(pairs) = Cardinality(want) /\ {{r.k[2], r.k[3]} : r \in ToSet(pairs)} = want
      /\ \A i \in DOMAIN pairs :
           /\ SummaryAgrees(cks, pages, rows, pairs[i])
           /\ SectionBetweenAgrees(pairs[i].k[2], cks[pairs[i].k[2]], pairs[i].k[3], cks[pairs[i].k[3]], family.between[i])
FamilyAgrees(names, pages, family) ==
  FamilyAgreesWith(names, pages, [b \in ToSet(names) |-> Derived(pages[b])], family)
=============================================================================
