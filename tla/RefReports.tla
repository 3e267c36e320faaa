---------------------------- MODULE RefReports ----------------------------
(***************************************************************************)
(* What docs/accounting/reference-books/build.py prints of one posted and  *)
(* closed book: the reports, each a sequence of rows.  A row is            *)
(*   k  its labels (what kind of row, the account, the entry, the day)     *)
(*   f  its figures, in the order of the columns                           *)
(* A figure printed with its side (Dr / Cr) is one signed integer, + is    *)
(* Dr.  Rows of words only (headings, notes) are left out.                 *)
(***************************************************************************)
EXTENDS RefBook

Row(k, f) == [k |-> k, f |-> f]
TwoSides(x) == <<Pos(x), Neg(x)>>
\* One row for each account of the book that satisfies P, in the book's order.
RowsOf(bk, P(_), row(_)) ==
  LET ns == Accounts(bk, P) IN [i \in DOMAIN ns |-> row(ns[i])]
\* <<Dr, Cr>> totals of the signed amounts f(n) of the accounts satisfying P.
Totals(bk, P(_), f(_)) ==
  LET ns == {n \in Names(bk) : P(n)}
  IN  <<SumOn(ns, LAMBDA n : Pos(f(n))), SumOn(ns, LAMBDA n : Neg(f(n)))>>
Each(n) == TRUE

-----------------------------------------------------------------------------
(* Section 1: the chart and the opening balances; an account's name says which
   book it is named after *)

Chart(bk) ==
  RowsOf(bk, Each, LAMBDA n : Row(<<n, bk.acct[n].group, bk.acct[n].faces>>, TwoSides(bk.acct[n].opening)))
    \o <<Row(<<"total">>, Totals(bk, Each, LAMBDA n : bk.acct[n].opening))>>

-----------------------------------------------------------------------------
(* The Day Book: a side of several accounts shows each with its amount *)

SideCell(lines) == [names |-> [i \in DOMAIN lines |-> lines[i].n],
                    parts |-> IF Len(lines) = 1 THEN << >> ELSE [i \in DOMAIN lines |-> Abs(lines[i].a)]]
EntryRow(no, date, words, lines) ==
  LET dr == SideCell(Drs(lines)) cr == SideCell(Crs(lines))
  IN  Row(<<"entry", no, date, words, dr.names, cr.names>>, <<Amount(lines)>> \o dr.parts \o cr.parts)

\* What a correction's note names: the entry, by its number, and its date.
NamedEntry(bk, v) ==
  IF v.ref = 0 THEN << >>
  ELSE LET j == CHOOSE i \in DOMAIN bk.vouchers : bk.vouchers[i].seq = v.ref IN <<j, bk.vouchers[j].date>>

Daybook(bk) ==
  [i \in DOMAIN bk.vouchers |->
     LET v == bk.vouchers[i]
     IN  EntryRow(i, v.date,
                  [vtype |-> PlainVType[v.vtype], moved |-> \E ln \in ToSet(v.lines) : IsMoney(bk, ln.n),
                   names |-> NamedEntry(bk, v)],
                  v.lines)]
  \o <<Row(<<"foot">>, <<Len(bk.vouchers)>>)>>

-----------------------------------------------------------------------------
(* Section 2: the ledgers *)

\* The rows of n's entries from the balance `start`, and those of its close entries.
PostRows(ps, n, start) ==
  [i \in DOMAIN ps |-> Row(<<"post", n, ps[i].vid, ps[i].date>>,
                           TwoSides(ps[i].a) \o <<start + SumOf(SubSeq(ps, 1, i), LAMBDA p : p.a)>>)]
CloseRows(cs, n, start, nil) ==
  [i \in DOMAIN cs |-> Row(<<"close", n, cs[i].y>>,
                           TwoSides(cs[i].a) \o <<IF nil THEN 0 ELSE start + SumOf(SubSeq(cs, 1, i), LAMBDA p : p.a)>>)]

\* An account that carries a balance: b/f, the rows, c/d, the level totals and,
\* in its own ledger, the balance b/d.
CarriedLedger(bk, n, cs, showBd) ==
  LET o     == bk.acct[n].opening
      c     == bk.closing[n] + SumOf(cs, LAMBDA p : p.a)
      went(side(_)) == SumOf(bk.posts[n], LAMBDA p : side(p.a)) + SumOf(cs, LAMBDA p : side(p.a))
  IN  <<Row(<<"b/f", n>>, TwoSides(o) \o <<o>>)>> \o PostRows(bk.posts[n], n, o) \o CloseRows(cs, n, bk.closing[n], FALSE)
      \o <<Row(<<"c/d", n>>, TwoSides(-c)),
           Row(<<"total", n>>, <<went(Pos) + Pos(o) + Neg(c), went(Neg) + Neg(o) + Pos(c)>>)>>
      \o (IF showBd THEN <<Row(<<"b/d", n>>, TwoSides(c) \o <<c>>)>> ELSE << >>)

\* A head: the rows, the year's total, then the close entries that take it to nil.
HeadLedger(bk, n, cs) ==
  PostRows(bk.posts[n], n, bk.acct[n].opening)
    \o <<Row(<<"year", n>>, <<SumOf(bk.posts[n], LAMBDA p : Pos(p.a)), SumOf(bk.posts[n], LAMBDA p : Neg(p.a)), bk.closing[n]>>)>>
    \o CloseRows(cs, n, 0, TRUE)

\* An account with no entry and no opening balance prints one line of words.
Ledger(bk, n) ==
  IF bk.posts[n] = << >> /\ bk.acct[n].opening = 0 THEN <<Row(<<"none", n>>, << >>)>>
  ELSE IF IsBs(bk, n) THEN CarriedLedger(bk, n, ClosePosts(bk.close, n), TRUE)
  ELSE HeadLedger(bk, n, ClosePosts(bk.close, n))

Ledgers(bk) ==
  FlattenSeq([i \in DOMAIN bk.order |-> Ledger(bk, bk.order[i])])

FundStatements(bk) ==
  FlattenSeq(RowsOf(bk, LAMBDA n : Kind(bk, n) = "fund", LAMBDA n : CarriedLedger(bk, n, << >>, FALSE)))

-----------------------------------------------------------------------------
(* The Cash Book: cash, gollak and bank side by side *)

CashColumns(bk) ==
  LET of(k) == Accounts(bk, LAMBDA n : Kind(bk, n) = k) IN of("cash") \o of("gollak") \o of("bank")

CashBook(bk) ==
  LET ns      == CashColumns(bk)
      cols(f(_)) == [i \in DOMAIN ns |-> f(ns[i])]
      touches(v) == \E ln \in ToSet(v.lines) : ln.n \in ToSet(ns)
      ids(m)  == SelectSeq([i \in DOMAIN bk.vouchers |-> i],
                           LAMBDA i : MonthOf(bk.vouchers[i].date) = m /\ touches(bk.vouchers[i]))
      \* Balance of n after entry i of the book.
      after(n, i) == bk.acct[n].opening + SumOf(bk.posts[n], LAMBDA p : IF p.vid <= i THEN p.a ELSE 0)
      entry(i) == LET on(n) == On(bk.vouchers[i].lines, n)
                  IN  Row(<<"entry", i, bk.vouchers[i].date>>,
                          cols(LAMBDA n : Pos(on(n))) \o cols(LAMBDA n : Neg(on(n))) \o cols(LAMBDA n : after(n, i)))
      month(m, last) ==
        LET mv(n) == Movement(bk, n, MonthStart[m], MonthEnd(m))
        IN  Row(<<"month", m>>, cols(LAMBDA n : mv(n)[1]) \o cols(LAMBDA n : mv(n)[2]) \o cols(LAMBDA n : after(n, last)))
      rows(m) == LET here == ids(m)
                 IN  IF here = << >> THEN << >> ELSE [k \in DOMAIN here |-> entry(here[k])] \o <<month(m, Last(here))>>
      open(n) == bk.acct[n].opening
  IN  <<Row(<<"columns", ns>>, << >>),
        Row(<<"b/f">>, cols(LAMBDA n : Pos(open(n))) \o cols(LAMBDA n : Neg(open(n))) \o cols(open))>>
      \o FlattenSeq([m \in 1..12 |-> rows(m)])
      \o <<Row(<<"foot">>, cols(LAMBDA n : bk.closing[n]))>>

-----------------------------------------------------------------------------
(* Section 3: the bank statement, the ageing, the positions, one month, one account *)

Extract(bk) ==
  IF bk.extract = << >> THEN << >>
  ELSE LET n == bk.extract[1]  m == bk.extract[2]
           before == BalanceAt(bk, n, MonthStart[m] - 1)
           ps == SelectSeq(bk.posts[n], LAMBDA p : MonthOf(p.date) = m)
       IN  <<Row(<<"open">>, <<before>>)>>
           \o [i \in DOMAIN ps |-> Row(<<"post", ps[i].vid, ps[i].date>>,
                                       <<Neg(ps[i].a), Pos(ps[i].a), before + SumOf(SubSeq(ps, 1, i), LAMBDA p : p.a)>>)]
           \o <<Row(<<"close">>, <<BalanceAt(bk, n, MonthEnd(m))>>)>>

\* (mutant) What is left of the open items after an amount of the other side is one
\* item, of the newest date.
FifoStepNewest(items, p) ==
  LET left == p.a + SumOf(items, LAMBDA it : it.a)
  IN  IF items = << >> \/ (items[1].a > 0) = (p.a > 0) THEN Append(items, p)
      ELSE IF left = 0 THEN << >> ELSE <<[date |-> Last(items).date, a |-> left]>>

\* Open items on the last day: an amount settles the oldest items of the other
\* side first, and what is left of it opens an item of its own.
FifoStep(items, p) ==
  LET unlike == {i \in DOMAIN items : (items[i].a > 0) # (p.a > 0)}
      \* the items a list holds at any time are all of one side
      upto(i) == SumOf(SubSeq(items, 1, i), LAMBDA it : Abs(it.a))
      gone  == {i \in unlike : upto(i) <= Abs(p.a)}
      left  == IF unlike = {} THEN Abs(p.a) ELSE Abs(p.a) - upto(Len(items))
      rest  == SubSeq(items, Cardinality(gone) + 1, Len(items))
      sign  == IF p.a > 0 THEN 1 ELSE -1
  IN  CASE unlike = {} -> Append(items, p)
        [] unlike # {} /\ left > 0 -> <<[date |-> p.date, a |-> sign * left]>>
        [] OTHER -> IF rest = << >> THEN << >>
                    ELSE [rest EXCEPT ![1].a = @ + sign * (Abs(p.a) - upto(Cardinality(gone)))]

FifoOpenItems(bk, n) ==
  LET o == bk.acct[n].opening
      ps == bk.posts[n]
      amounts == [i \in DOMAIN ps |-> [date |-> ps[i].date, a |-> ps[i].a]]
  IN  FoldLeft(FifoStep, IF o = 0 THEN << >> ELSE <<[date |-> FyStart, a |-> o]>>, amounts)

AgeOf(d) == LET days == FyEnd - d IN IF days <= 30 THEN 1 ELSE IF days <= 90 THEN 2 ELSE 3
Buckets(items) == [k \in 1..3 |-> SumOf(items, LAMBDA it : IF AgeOf(it.date) = k THEN Abs(it.a) ELSE 0)]

Ageing(bk) ==
  LET party(sg) == Accounts(bk, LAMBDA n : Kind(bk, n) = "party" /\ sg * bk.closing[n] > 0)
      row(n)  == LET it == FifoOpenItems(bk, n) IN Row(<<n, it[1].date>>, <<bk.closing[n]>> \o Buckets(it))
      rows(sg) == LET ns == party(sg) IN [i \in DOMAIN ns |-> row(ns[i])]
      total(sg) == <<Row(<<"total", sg>>, [j \in 1..4 |-> SumOf(rows(sg), LAMBDA r : Abs(r.f[j]))])>>
  IN  rows(1) \o total(1) \o rows(-1) \o total(-1)

\* (mutant) An account is placed by its kind, whatever the side of its balance.
PlaceByKind(bk, n, bal) ==
  LET k == Kind(bk, n)
  IN  CASE k \in HaveKinds -> "have" [] k \in {"party", "link"} -> "get" [] k = "fund" -> "fund" [] OTHER -> "give"

\* Where a balance stands in the position; own-money accounts are not placed.
Place(bk, n, bal) ==
  LET k == Kind(bk, n)
  IN  CASE k \in HaveKinds -> IF bal >= 0 THEN "have" ELSE "give"
        [] k \in {"party", "link"} -> IF bal > 0 THEN "get" ELSE "give"
        [] k = "fund" -> "fund"
        [] OTHER -> IF bal <= 0 THEN "give" ELSE "have"

\* The accounts placed in group g on day d.
Placed(bk, g, d) ==
  Accounts(bk, LAMBDA n : /\ IsBs(bk, n) /\ ~IsEquity(bk, n)
                          /\ BalanceAt(bk, n, d) # 0 /\ Place(bk, n, BalanceAt(bk, n, d)) = g)
PlacedTotal(bk, g, d) == SumOf(Placed(bk, g, d), LAMBDA n : Abs(BalanceAt(bk, n, d)))

NetPosition(bk, d) ==
  PlacedTotal(bk, "have", d) + PlacedTotal(bk, "get", d) - PlacedTotal(bk, "give", d) - PlacedTotal(bk, "fund", d)
OwnNow(bk, d) ==
  LET q == EquityParts(bk, d)  r == ResultTo(bk, d) IN q.start + q.put - q.taken + r[1] - r[2]
\* The generator asserts that the make-up of the own money is the position.
MakeUpIsPosition(bk, d) == OwnNow(bk, d) = NetPosition(bk, d)

Position(bk, d) ==
  LET q == EquityParts(bk, d)
      r == ResultTo(bk, d)
      rows(g) == LET ns == Placed(bk, g, d)
                 IN  [i \in DOMAIN ns |-> Row(<<g, ns[i]>>, <<Abs(BalanceAt(bk, ns[i], d))>>)]
      total(g) == <<Row(<<"total", g>>, <<PlacedTotal(bk, g, d)>>)>>
      up(word, x) == Row(<<"make-up", word>>, <<x>>)
      res == Abs(r[1] - r[2])
  IN  <<Row(<<"day", d>>, << >>)>>
      \o rows("have") \o total("have") \o rows("get") \o total("get") \o rows("give") \o total("give")
      \o (IF rows("fund") = << >> THEN << >> ELSE rows("fund") \o total("fund"))
      \o <<Row(<<"net">>, <<NetPosition(bk, d)>>),
           up("income", r[1]), up("spent", r[2]), up("result", res),
           up("start", q.start), up("put in", q.put), up("taken out", q.taken),
           up(IF r[1] >= r[2] THEN "+ result" ELSE "- result", res), up("own", OwnNow(bk, d))>>

\* One month, account by account, and the line that sums it up.
MonthSummary(bk) ==
  LET s == MonthStart[StatementMonth]  e == MonthEnd(StatementMonth)
      mv(n) == Movement(bk, n, s, e)
      went(K, side, other) == SumOn(OfKind(bk, {K}), LAMBDA n : mv(n)[side] - mv(n)[other])
      moved(n) == BalanceAt(bk, n, s - 1) # 0 \/ mv(n) # <<0, 0>>
      inc == went("income", 2, 1)
      exp == went("expense", 1, 2)
  IN  RowsOf(bk, moved, LAMBDA n : Row(<<n>>, <<BalanceAt(bk, n, s - 1)>> \o mv(n) \o <<BalanceAt(bk, n, e)>>))
      \o <<Row(<<"total">>, <<SumOn(Names(bk), LAMBDA n : mv(n)[1]), SumOn(Names(bk), LAMBDA n : mv(n)[2])>>),
           Row(<<"brief">>, <<inc, exp, Abs(inc - exp)>>)>>

\* One account for a chosen period; the closed year's last day brings in its close rows.
Custom(bk) ==
  LET n == bk.custom[1]  s == bk.custom[2]  e == bk.custom[3]
      o  == IF IsBs(bk, n) THEN BalanceAt(bk, n, s - 1) ELSE 0
      ps == SelectSeq(bk.posts[n], LAMBDA p : s <= p.date /\ p.date <= e)
      cs == IF e = FyEnd /\ IsBs(bk, n) THEN ClosePosts(bk.close, n) ELSE << >>
      b  == o + SumOf(ps, LAMBDA p : p.a)
      went(side(_)) == SumOf(ps, LAMBDA p : side(p.a)) + SumOf(cs, LAMBDA p : side(p.a))
  IN  <<Row(<<"open", n, s, e>>, <<o>>)>> \o PostRows(ps, n, o) \o CloseRows(cs, n, b, FALSE)
      \o <<Row(<<"total", n>>, <<went(Pos), went(Neg)>>),
           Row(<<"close", n>>, <<b + SumOf(cs, LAMBDA p : p.a)>>)>>

-----------------------------------------------------------------------------
(* Section 4: the year end *)

TrialBalance(bk) ==
  LET tot == Totals(bk, Each, LAMBDA n : bk.closing[n])
  IN  RowsOf(bk, LAMBDA n : bk.closing[n] # 0, LAMBDA n : Row(<<n>>, <<bk.closing[n]>>))
      \o <<Row(<<"total">>, tot), Row(<<"checked">>, tot)>>

\* (mutant) The fund's own transfer is a payment too.
RpLineWithFund(bk, v, ln) ==
  CASE v.vtype = "Contra" \/ v.vtype \in JournalTypes -> FALSE
    [] v.vtype = "Payment (from a fund)" -> ln.a > 0
    [] OTHER -> ~IsMoney(bk, ln.n)

\* Whether a line of an entry goes into the Receipts & Payments account: no line of
\* a transfer or a journal, the cost of a payment from a fund, and of any other
\* entry each line that is not money.
RpLine(bk, v, ln) ==
  CASE v.vtype = "Contra" \/ v.vtype \in JournalTypes -> FALSE
    [] v.vtype = "Payment (from a fund)" -> ln.a > 0 /\ Kind(bk, ln.n) \in {"expense", "fixed"}
    [] OTHER -> ~IsMoney(bk, ln.n)
RpShapeOk(bk) ==
  \A v \in ToSet(bk.vouchers) : v.vtype \in {"Receipt", "Payment"} =>
     \A ln \in ToSet(v.lines) : RpLine(bk, v, ln) => ln.a > 0 \/ Kind(bk, ln.n) \notin {"advance", "loan"}

RpOn(bk, n, side(_)) ==
  SumOf(bk.vouchers, LAMBDA v : SumOf(v.lines, LAMBDA ln : IF ln.n = n /\ RpLine(bk, v, ln) THEN side(ln.a) ELSE 0))
RpTotals(bk) ==
  LET money == {n \in Names(bk) : IsMoney(bk, n)}
  IN  <<SumOn(money, LAMBDA n : bk.acct[n].opening) + SumOn(Names(bk), LAMBDA n : RpOn(bk, n, Neg)),
        SumOn(money, LAMBDA n : bk.closing[n]) + SumOn(Names(bk), LAMBDA n : RpOn(bk, n, Pos))>>

ReceiptsPayments(bk) ==
  IF bk.style # "npo" THEN << >>
  ELSE LET money(n) == IsMoney(bk, n)
       IN  RowsOf(bk, money, LAMBDA n : Row(<<"to opening", n>>, <<bk.acct[n].opening>>))
           \o RowsOf(bk, LAMBDA n : RpOn(bk, n, Neg) # 0, LAMBDA n : Row(<<"to", n>>, <<RpOn(bk, n, Neg)>>))
           \o <<Row(<<"total", "to">>, <<RpTotals(bk)[1]>>)>>
           \o RowsOf(bk, LAMBDA n : RpOn(bk, n, Pos) # 0, LAMBDA n : Row(<<"by", n>>, <<RpOn(bk, n, Pos)>>))
           \o RowsOf(bk, money, LAMBDA n : Row(<<"by closing", n>>, <<bk.closing[n]>>))
           \o <<Row(<<"total", "by">>, <<RpTotals(bk)[2]>>)>>

YearStatement(bk) ==
  LET r == ResultTo(bk, FyEnd)
      of(k, word) == RowsOf(bk, LAMBDA n : Kind(bk, n) = k,
                            LAMBDA n : Row(<<word, n>>, <<Len(bk.posts[n]), IF k = "expense" THEN bk.closing[n] ELSE -bk.closing[n]>>))
      most == IF r[1] > r[2] THEN r[1] ELSE r[2]
  IN  of("expense", "to") \o of("income", "by")
      \o <<Row(<<"heads">>, <<r[2], r[1]>>),
           Row(<<IF r[1] >= r[2] THEN "to result" ELSE "by result">>, <<Abs(r[1] - r[2])>>),
           Row(<<"total">>, <<most, most>>),
           Row(<<"brief">>, <<r[1], r[2], Abs(r[1] - r[2])>>)>>

CloseTable(close) == [y \in DOMAIN close |-> EntryRow(y, FyEnd, close[y].note, close[y].lines)]

AppropriationAccount(bk) ==
  IF bk.partners = << >> THEN << >>
  ELSE LET ap == Appropriation(bk)
           w  == SumOf(bk.partners, LAMBDA p : p.share)
           ioc == SelectSeq([i \in DOMAIN ap |-> i], LAMBDA i : bk.partners[i].ioc # 0)
           line(i) == Row(<<"interest", bk.partners[i].current, bk.partners[i].capital, bk.partners[i].ioc>>, <<-bk.closing[bk.partners[i].capital], ap[i].interest>>)
       IN  [j \in DOMAIN ioc |-> line(ioc[j])]
           \o [i \in DOMAIN ap |-> Row(<<"share", bk.partners[i].current, bk.partners[i].share, w>>, <<ap[i].share>>)]
           \o <<Row(<<"profit">>, <<Result(bk)>>), Row(<<"total">>, <<Result(bk), Result(bk)>>)>>

OwnClose(bk) == OwnNow(bk, FyEnd)

\* Each partner's accounts over the year: opening, put in, interest, share, drawings, closing.
PartnerTable(bk) ==
  LET ap == Appropriation(bk)
      line(n, p, i, s) == LET m == Movement(bk, n, FyStart, FyEnd)
                          IN  Row(<<"partner", n, p.current>>, <<bk.acct[n].opening, m[2], i, s, m[1], bk.closing[n] - i - s>>)
      lines(j) == LET p == bk.partners[j]
                  IN  (IF p.capital = NoAccount THEN << >> ELSE <<line(p.capital, p, 0, 0)>>)
                      \o <<line(p.current, p, ap[j].interest, ap[j].share)>>
  IN  FlattenSeq([j \in DOMAIN bk.partners |-> lines(j)])

\* The balance sheet.  A partner's current account that stands on the Dr side is
\* an asset, never netted against his capital; an own-money account without a
\* capital account is printed at its balance, whatever its side.
PartnerOwes(bk, p) == p.capital # NoAccount /\ p.after > 0
PartnersAfter(bk) ==
  [j \in DOMAIN bk.partners |-> Extended(bk.partners[j], [after |-> bk.pcb[bk.partners[j].current]])]
OwnMoneyRows(bk) ==
  LET q == EquityParts(bk, FyEnd)
      ps == PartnersAfter(bk)
      of(p) == (IF p.capital = NoAccount THEN << >> ELSE <<Row(<<"capital", p.capital>>, <<-bk.closing[p.capital]>>)>>)
               \o (IF PartnerOwes(bk, p) THEN << >> ELSE <<Row(<<"current", p.current>>, <<-p.after>>)>>)
  IN  IF ps # << >> THEN FlattenSeq([j \in DOMAIN ps |-> of(ps[j])])
      ELSE <<Row(<<"start">>, <<q.start>>), Row(<<"put in">>, <<q.put>>), Row(<<"taken out">>, <<q.taken>>),
             Row(<<"result">>, <<Abs(Result(bk))>>), Row(<<"end">>, <<OwnClose(bk)>>)>>

InGroups(bk, G) == UNION {ToSet(Placed(bk, g, FyEnd)) : g \in G}
SheetTotal(bk, G) == SumOn(InGroups(bk, G), LAMBDA n : bk.closing[n])
BalanceSheetSides(bk) ==
  LET owed == SumOf(PartnersAfter(bk), LAMBDA p : IF PartnerOwes(bk, p) THEN p.after ELSE 0)
  IN  [liab |-> OwnClose(bk) + owed - SheetTotal(bk, {"give", "fund"}), assets |-> SheetTotal(bk, {"have", "get"}) + owed]

BalanceSheet(bk) ==
  LET rows(word, n) == Row(<<word, n>>, <<IF word = "have" THEN bk.closing[n] ELSE -bk.closing[n]>>)
      of(word, G) == LET ns == InGroups(bk, G) IN RowsOf(bk, LAMBDA n : n \in ns, LAMBDA n : rows(word, n))
      owing == SelectSeq(PartnersAfter(bk), LAMBDA p : PartnerOwes(bk, p))
      t == BalanceSheetSides(bk)
  IN  OwnMoneyRows(bk) \o of("fund", {"fund"}) \o of("give", {"give"})
      \o <<Row(<<"total", "give">>, <<t.liab>>)>>
      \o of("have", {"have", "get"}) \o [i \in DOMAIN owing |-> Row(<<"owes", owing[i].current>>, <<owing[i].after>>)]
      \o <<Row(<<"total", "have">>, <<t.assets>>), Row(<<"both">>, <<t.assets>>)>>

\* What the balance-sheet section asserts before it prints.
BalanceSheetAsserts(bk) ==
  LET level(t) == t.liab = t.assets
  IN  /\ -SumOn(OfKind(bk, EquityKinds), LAMBDA n : bk.pcb[n]) = OwnClose(bk)
      /\ level(BalanceSheetSides(bk))
      /\ bk.partners # << >> =>
           OwnClose(bk) = SumOf(OwnMoneyRows(bk), LAMBDA r : r.f[1])
                            - SumOf(PartnersAfter(bk), LAMBDA p : IF PartnerOwes(bk, p) THEN p.after ELSE 0)

CarryForward(bk) ==
  LET tot == Totals(bk, LAMBDA n : IsBs(bk, n), LAMBDA n : bk.pcb[n])
  IN  RowsOf(bk, LAMBDA n : IsBs(bk, n) /\ bk.pcb[n] # 0, LAMBDA n : Row(<<n, bk.acct[n].group>>, <<bk.pcb[n], bk.pcb[n]>>))
      \o <<Row(<<"total">>, tot \o tot)>>

-----------------------------------------------------------------------------
(* The printed book and its export *)

\* (mutant) An entry of any shape goes into the Receipts & Payments account.
PrintAllowedAnyShape(bk) ==
  /\ \A d \in {MidYear, FyEnd} : MakeUpIsPosition(bk, d)
  /\ bk.style = "npo" => RpTotals(bk)[1] = RpTotals(bk)[2]
  /\ CloseAllowed(bk)
  /\ CloseAsserts(bk) /\ BalanceSheetAsserts(bk)

\* Every assertion met while the sections of a book are printed.
PrintAllowed(bk) ==
  /\ \A d \in {MidYear, FyEnd} : MakeUpIsPosition(bk, d)
  /\ bk.style = "npo" => RpShapeOk(bk) /\ RpTotals(bk)[1] = RpTotals(bk)[2]
  /\ CloseAllowed(bk)
  /\ CloseAsserts(bk) /\ BalanceSheetAsserts(bk)

Page(bk) ==
  [chart |-> Chart(bk), daybook |-> Daybook(bk), ledgers |-> Ledgers(bk), cashbook |-> CashBook(bk),
       extract |-> Extract(bk), ageing |-> Ageing(bk), midyear |-> Position(bk, MidYear), yearend |-> Position(bk, FyEnd),
       month |-> MonthSummary(bk), custom |-> Custom(bk), tb |-> TrialBalance(bk),
       rp |-> ReceiptsPayments(bk), statement |-> YearStatement(bk), funds |-> FundStatements(bk),
       appropriation |-> AppropriationAccount(bk), close |-> CloseTable(bk.close),
       partners |-> IF bk.partners = << >> THEN << >> ELSE PartnerTable(bk),
       sheet |-> BalanceSheet(bk), carry |-> CarryForward(bk)]
=============================================================================
