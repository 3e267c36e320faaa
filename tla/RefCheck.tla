----------------------------- MODULE RefCheck -----------------------------
(***************************************************************************)
(* docs/accounting/reference-books/check_md.py: the reader who re-derives  *)
(* a printed book.  It is given the rows of the page and nothing else: it  *)
(* takes the accounts from the chart, the postings from the Day Book and   *)
(* the close entries from their own table, and compares every other table  *)
(* with what follows from them.  It uses the calendar and the arithmetic   *)
(* of RefBook and none of the operators that make the reports.             *)
(***************************************************************************)
EXTENDS RefBook

WordsMoney  == {"Cash", "Gollak", "Bank", "Wallet", "Credit card", "KCC loan"}
WordsEquity == {"Own money", "Drawings", "Share-out", "Partner", "Owner", "Partner's capital",
                "Partner's current", "Sub-family", "Joint family"}
WordsHeads  == {"Income", "Expense"}
MixedOk     == {"Advance", "Loan"}
PrintedVTypes == {PlainVType[t] : t \in VTypes}
WrittenOffHeads == {"Written off A/c", "Rent written off A/c"}
ForfeitHeads    == {"Deposit forfeited A/c"}

\* Rows of a section by their first label, and the sum of a column of rows.
With(rows, w)    == SelectSeq(rows, LAMBDA r : r.k[1] = w)
Without(rows, W) == SelectSeq(rows, LAMBDA r : r.k[1] \notin W)
Column(rows, j)  == SumOf(rows, LAMBDA r : r.f[j])
Max0(x) == IF x > 0 THEN x ELSE 0
Split(x) == <<Max0(x), Max0(-x)>>
EverySeq(s, P(_)) == \A i \in DOMAIN s : P(s[i])

-----------------------------------------------------------------------------
(* Reading the page *)

\* The lines of an entry row: a side of one account carries the whole amount.
CellLines(names, f, off, sign) ==
  [i \in DOMAIN names |-> Ln(names[i], sign * (IF Len(names) = 1 THEN f[1] ELSE f[off + i]))]
RowLines(r) ==
  LET dr == r.k[5]  cr == r.k[6]
  IN  CellLines(dr, r.f, 1, 1) \o CellLines(cr, r.f, IF Len(dr) = 1 THEN 1 ELSE 1 + Len(dr), -1)

\* Everything the reader derives: ck.
Derived(page) ==
  LET chart == Without(page.chart, {"total"})
      names == {chart[i].k[1] : i \in DOMAIN chart}
      rowOf(n) == CHOOSE r \in ToSet(chart) : r.k[1] = n
      day   == Without(page.daybook, {"foot"})
      vs    == [i \in DOMAIN day |-> [date |-> day[i].k[3], words |-> day[i].k[4], lines |-> RowLines(day[i]), amount |-> day[i].f[1]]]
      posted(n) == LET ids == SelectSeq([i \in DOMAIN day |-> i], LAMBDA i : n \in ToSet(day[i].k[5]) \cup ToSet(day[i].k[6]))
                   IN  [k \in DOMAIN ids |-> [vid |-> ids[k], date |-> vs[ids[k]].date, a |-> On(vs[ids[k]].lines, n)]]
      opening == [n \in names |-> rowOf(n).f[1] - rowOf(n).f[2]]
      post    == [n \in names |-> posted(n)]
      closing == [n \in names |-> opening[n] + SumOf(post[n], LAMBDA p : p.a)]
      close   == [y \in DOMAIN page.close |-> [note |-> page.close[y].k[4], lines |-> RowLines(page.close[y]), amount |-> page.close[y].f[1]]]
      cposts  == [n \in names |-> ClosePosts(close, n)]
  IN  [names |-> names, order |-> [i \in DOMAIN chart |-> chart[i].k[1]], type |-> [n \in names |-> rowOf(n).k[2]], faces |-> [n \in names |-> rowOf(n).k[3]],
       opening |-> opening, vouchers |-> vs, post |-> post, closing |-> closing, close |-> close, cposts |-> cposts,
       pcb |-> [n \in names |-> closing[n] + SumOf(cposts[n], LAMBDA p : p.a)]]

Typed(ck, W)   == {n \in ck.names : ck.type[n] \in W}
IsBsWord(ck, n) == ck.type[n] \notin WordsHeads
BalAt(ck, n, d) == ck.opening[n] + SumOf(ck.post[n], LAMBDA p : IF p.date <= d THEN p.a ELSE 0)
Mov(ck, n, s, e) ==
  LET within == SelectSeq(ck.post[n], LAMBDA p : s <= p.date /\ p.date <= e)
  IN  <<SumOf(within, LAMBDA p : Max0(p.a)), SumOf(within, LAMBDA p : Max0(-p.a))>>
HeadsTo(ck, d) == <<-SumOn(Typed(ck, {"Income"}), LAMBDA n : BalAt(ck, n, d)), SumOn(Typed(ck, {"Expense"}), LAMBDA n : BalAt(ck, n, d))>>
ResultOf(ck) == LET h == HeadsTo(ck, FyEnd) IN h[1] - h[2]
\* <<at the start, put in, taken out>> of the own money.
OwnParts(ck, d) ==
  LET eq == Typed(ck, WordsEquity)
  IN  <<-SumOn(eq, LAMBDA n : ck.opening[n]), SumOn(eq, LAMBDA n : Mov(ck, n, FyStart, d)[2]), SumOn(eq, LAMBDA n : Mov(ck, n, FyStart, d)[1])>>
OwnAt(ck, d) == LET q == OwnParts(ck, d)  h == HeadsTo(ck, d) IN q[1] + q[2] - q[3] + h[1] - h[2]

-----------------------------------------------------------------------------
(* The chart, the Day Book and the close entries *)

ChartAgrees(ck, page) ==
  LET chart == Without(page.chart, {"total"})
      tot == <<Column(chart, 1), Column(chart, 2)>>
  IN  /\ With(page.chart, "total")[1].f = tot /\ tot[1] = tot[2]
      /\ \A n \in Typed(ck, WordsHeads) : ck.opening[n] = 0

\* The words an entry is printed with fit the accounts on its two sides.
WordsFit(ck, v) ==
  LET dr == {ln.n : ln \in ToSet(Drs(v.lines))}
      cr == {ln.n : ln \in ToSet(Crs(v.lines))}
      money(S) == {n \in S : ck.type[n] \in WordsMoney}
      typed(S) == {ck.type[n] : n \in S}
      one(S) == Cardinality(S) = 1
      w == v.words.vtype
      of(S, t) == SumOf(v.lines, LAMBDA ln : IF ln.n \in S /\ ck.type[ln.n] \in t THEN Abs(ln.a) ELSE 0)
  IN  /\ w \in PrintedVTypes
      /\ v.words.moved <=> money(dr \cup cr) # {}
      /\ CASE w = "Transfer"  -> one(dr) /\ one(cr) /\ money(dr \cup cr) # {}
           [] w = "Money in"  -> dr \subseteq money(dr)
           [] w = "Money out" -> money(dr) = {} /\ money(cr) # {} /\ typed(cr) \subseteq WordsMoney \cup MixedOk
           [] w = "Paid from a fund" ->
                /\ one({n \in dr : ck.type[n] = "Fund"}) /\ one({n \in cr : ck.type[n] = "Income"})
                /\ Len(v.lines) = 4
                /\ typed(cr) \subseteq WordsMoney \cup {"Income"} /\ typed(dr) \subseteq {"Fund", "Expense", "Thing owned"}
                /\ of(dr, {"Fund"}) = of(cr, {"Income"}) /\ of(cr, {"Income"}) = of(cr, WordsMoney)
           [] OTHER -> money(dr \cup cr) = {}
      /\ w = "Written off" => one(dr) /\ dr \subseteq WrittenOffHeads /\ typed(dr) = {"Expense"}
      /\ w = "Deposit set off" => one(dr) /\ typed(dr) = {"Deposit held"}
      /\ w = "Deposit forfeited" => one(dr) /\ typed(dr) = {"Deposit held"} /\ one(cr) /\ typed(cr) = {"Income"} /\ cr \subseteq ForfeitHeads
      /\ w = "Retention released" => one(cr) /\ typed(cr) = {"Retention held"}

\* A correction names an entry printed above it, with that entry's date.
NamesEarlier(ck, i) ==
  LET named == ck.vouchers[i].words.names
  IN  ck.vouchers[i].words.vtype = "Correction" =>
        named # << >> /\ named[1] \in 1..(i - 1) /\ ck.vouchers[named[1]].date = named[2]

SidesAgree(v) ==
  /\ Amount(v.lines) = v.amount /\ Amount([i \in DOMAIN v.lines |-> Ln(v.lines[i].n, -v.lines[i].a)]) = v.amount
  /\ {ln.n : ln \in ToSet(Drs(v.lines))} \cap {ln.n : ln \in ToSet(Crs(v.lines))} = {}

RunningBal(ck, n, i) == ck.opening[n] + SumOf(SubSeq(ck.post[n], 1, i), LAMBDA p : p.a)

DayBookAgrees(ck, page) ==
  /\ \A i \in DOMAIN ck.vouchers :
       LET v == ck.vouchers[i]
       IN  /\ SidesAgree(v) /\ \A ln \in ToSet(v.lines) : ln.n \in ck.names
           /\ FyStart <= v.date /\ v.date <= FyEnd /\ (i > 1 => ck.vouchers[i - 1].date <= v.date)
           /\ WordsFit(ck, v) /\ NamesEarlier(ck, i)
           /\ \A ln \in ToSet(v.lines) : ck.type[ln.n] = "Gollak" /\ ln.a < 0 =>
                v.words.vtype = "Transfer" /\ \A m \in ToSet(Drs(v.lines)) : ck.type[m.n] \in {"Cash", "Bank"}
  /\ \A n \in Typed(ck, {"Cash", "Bank", "Wallet", "Gollak"}) : \A i \in DOMAIN ck.post[n] : RunningBal(ck, n, i) >= 0

CloseAgrees(ck, page) ==
  LET outside(n) == n \notin ck.names
      lines == FlattenSeq([y \in DOMAIN ck.close |-> ck.close[y].lines])
      pseudo == {lines[i].n : i \in DOMAIN lines} \ ck.names
      h == HeadsTo(ck, FyEnd)
  IN  /\ EverySeq(ck.close, SidesAgree)
      /\ \A i \in DOMAIN lines : outside(lines[i].n) \/ ck.type[lines[i].n] \in WordsHeads \cup WordsEquity
      /\ pseudo # {} /\ \A n \in pseudo : On(lines, n) = 0
      /\ \A n \in Typed(ck, WordsHeads \cup {"Drawings", "Share-out"}) : ck.pcb[n] = 0
      /\ -SumOn(Typed(ck, WordsEquity), LAMBDA n : ck.pcb[n]) = OwnAt(ck, FyEnd)
      /\ \A j \in {1, 2} : SumOf(lines, LAMBDA ln : IF outside(ln.n) THEN Max0(ln.a) ELSE 0) >= h[j]

-----------------------------------------------------------------------------
(* The ledgers *)

\* Reading one ledger row by row: the balance so far, how many postings and
\* close rows were met, the two sides, whether the account was closed.
LedgerRead(ck, n, rows) ==
  LET start == [bal |-> 0, idx |-> 0, cidx |-> 0, dr |-> 0, cr |-> 0, closed |-> FALSE, ok |-> TRUE]
      bs == IsBsWord(ck, n)
      o  == Split(ck.opening[n])
      moved(s, a) == [s EXCEPT !.bal = @ + a, !.dr = @ + Max0(a), !.cr = @ + Max0(-a)]
      also(s, b) == [s EXCEPT !.ok = @ /\ b]
      read(s, r) ==
        LET w == r.k[1]  c == Split(s.bal)
        IN CASE w = "b/f" -> also([s EXCEPT !.bal = ck.opening[n]], bs /\ r.f = o \o <<ck.opening[n]>>)
             [] w = "c/d" -> also([s EXCEPT !.closed = TRUE], r.f = <<c[2], c[1]>>)
             [] w = "total" -> also(s, r.f = <<s.dr + o[1] + c[2], s.cr + o[2] + c[1]>> /\ r.f[1] = r.f[2])
             [] w = "b/d" -> also(s, r.f = c \o <<s.bal>>)
             [] w = "year" -> also([s EXCEPT !.closed = TRUE], ~bs /\ r.f = <<s.dr, s.cr, s.bal>>)
             [] w = "close" ->
                  IF s.cidx >= Len(ck.cposts[n]) THEN also(s, FALSE)
                  ELSE LET p == ck.cposts[n][s.cidx + 1]
                           t == IF bs THEN moved(s, p.a) ELSE s
                       IN  also([t EXCEPT !.cidx = @ + 1], r.k[3] = p.y /\ r.f = Split(p.a) \o <<IF bs THEN t.bal ELSE 0>>)
             [] w = "post" ->
                  IF s.idx >= Len(ck.post[n]) THEN also(s, FALSE)
                  ELSE LET p == ck.post[n][s.idx + 1]
                           t == moved(s, p.a)
                       IN  also([t EXCEPT !.idx = @ + 1], r.k[3] = p.vid /\ r.k[4] = p.date /\ r.f = Split(p.a) \o <<t.bal>>
                                                           /\ (ck.type[n] = "Credit card" => t.bal <= 0))
      ends(s) == /\ s.ok /\ s.closed /\ s.idx = Len(ck.post[n]) /\ s.cidx = Len(ck.cposts[n])
                 /\ s.bal = (IF bs THEN ck.pcb[n] ELSE ck.closing[n])
  IN  ends(FoldLeft(read, start, rows))

\* An account printed as "no entries" has none and opens with nothing.
LedgersAgree(ck, page) ==
  \A n \in ck.names :
     LET rows == SelectSeq(page.ledgers, LAMBDA r : r.k[2] = n)
     IN  /\ rows # << >>
         /\ IF rows[1].k[1] = "none" THEN ck.post[n] = << >> /\ ck.opening[n] = 0 ELSE LedgerRead(ck, n, rows)

FundsAgree(ck, page) ==
  \A n \in Typed(ck, {"Fund"}) :
     LET rows == SelectSeq(page.funds, LAMBDA r : r.k[2] = n) IN rows # << >> /\ LedgerRead(ck, n, rows)

\* What the ledgers do not show: an account the close entries touch without a row for it.
OffPage(ck, page) ==
  {n \in ck.names : ck.cposts[n] # << >> /\ ~\E r \in ToSet(page.ledgers) : r.k[1] = "close" /\ r.k[2] = n}
ClosedOffPage(page) == OffPage(Derived(page), page)

-----------------------------------------------------------------------------
(* The Cash Book and the bank statement *)

CashBookAgrees(ck, page) ==
  LET ns    == page.cashbook[1].k[2]
      want(t) == SelectSeq(ck.order, LAMBDA n : ck.type[n] = t)
      rows  == Tail(page.cashbook)
      vids  == SelectSeq([i \in DOMAIN ck.vouchers |-> i], LAMBDA i : \E ln \in ToSet(ck.vouchers[i].lines) : ln.n \in ToSet(ns))
      cols(f(_)) == [c \in DOMAIN ns |-> f(c)]
      zero == cols(LAMBDA c : 0)
      plus(x, y) == cols(LAMBDA c : x[c] + y[c])
      figures(in, out, bal) == in \o out \o bal
      also(s, b) == [s EXCEPT !.ok = @ /\ b]
      read(s, r) ==
        CASE r.k[1] = "b/f" -> also(s, r.f = figures(cols(LAMBDA c : Max0(s.bal[c])), cols(LAMBDA c : Max0(-s.bal[c])), s.bal))
          [] r.k[1] = "month" ->
               also([s EXCEPT !.in = zero, !.out = zero],
                    /\ r.f = figures(s.in, s.out, s.bal)
                    /\ \A j \in (s.idx + 1)..Len(vids) : MonthOf(ck.vouchers[vids[j]].date) # r.k[2])
          [] r.k[1] = "entry" ->
               IF s.idx >= Len(vids) THEN also(s, FALSE)
               ELSE LET i == vids[s.idx + 1]
                        v == ck.vouchers[i]
                        amt == cols(LAMBDA c : On(v.lines, ns[c]))
                        in == cols(LAMBDA c : Max0(amt[c]))
                        out == cols(LAMBDA c : Max0(-amt[c]))
                        t == [s EXCEPT !.idx = @ + 1, !.bal = plus(@, amt), !.in = plus(@, in), !.out = plus(@, out)]
                    IN  also(t, /\ r.k[2] = i /\ r.k[3] = v.date /\ r.f = figures(in, out, t.bal)
                                /\ \A c \in DOMAIN ns : ck.type[ns[c]] = "Cash" => t.bal[c] >= 0
                                /\ (\A ln \in ToSet(v.lines) : ln.n \in ToSet(ns)) => (\E c \in DOMAIN ns : amt[c] > 0) /\ (\E c \in DOMAIN ns : amt[c] < 0))
          [] OTHER -> s
      ends(s) == s.ok /\ s.idx = Len(vids) /\ \A c \in DOMAIN ns : s.bal[c] = ck.closing[ns[c]]
  IN  /\ ns = want("Cash") \o want("Gollak") \o want("Bank") /\ ns # << >>
      /\ ends(FoldLeft(read, [bal |-> cols(LAMBDA c : ck.opening[ns[c]]), in |-> zero, out |-> zero, idx |-> 0, ok |-> TRUE], rows))

\* The heading of the extract names the account and the month.
ExtractAgrees(ck, page, head) ==
  (page.extract = << >>) = (head = << >>) /\ (head # << >> =>
     LET n == head[1]  m == head[2]  rows == page.extract
         ps == SelectSeq(ck.post[n], LAMBDA p : MonthStart[m] <= p.date /\ p.date <= MonthEnd(m))
         open == BalAt(ck, n, MonthStart[m] - 1)
     IN  /\ Len(rows) - 2 = Len(ps) /\ rows[1].f = <<open>> /\ Last(rows).f = <<BalAt(ck, n, MonthEnd(m))>>
         /\ \A i \in DOMAIN ps :
              /\ rows[i + 1].k = <<"post", ps[i].vid, ps[i].date>>
              /\ rows[i + 1].f = <<Max0(-ps[i].a), Max0(ps[i].a), open + SumOf(SubSeq(ps, 1, i), LAMBDA p : p.a)>>)

-----------------------------------------------------------------------------
(* The ageing, the positions, the month, the chosen period *)

\* The open items of n, settled one at a time from the oldest.
OpenItems(ck, n) ==
  LET settle[items \in Seq([date : Int, a : Int]), a \in Int] ==
        IF a = 0 \/ items = << >> \/ (items[1].a > 0) = (a > 0) THEN [items |-> items, a |-> a]
        ELSE LET take == IF Abs(a) < Abs(items[1].a) THEN Abs(a) ELSE Abs(items[1].a)
                 left == items[1].a + (IF items[1].a < 0 THEN take ELSE -take)
                 more == a + (IF a < 0 THEN take ELSE -take)
             IN  settle[IF left = 0 THEN Tail(items) ELSE [items EXCEPT ![1].a = left], more]
      read(items, p) == LET s == settle[items, p.a]
                        IN  IF s.a = 0 THEN s.items ELSE Append(s.items, [date |-> p.date, a |-> s.a])
  IN  FoldLeft(read, IF ck.opening[n] = 0 THEN << >> ELSE <<[date |-> FyStart, a |-> ck.opening[n]]>>, ck.post[n])

AgeingAgrees(ck, page) ==
  LET rows(sg) == SelectSeq(page.ageing, LAMBDA r : r.k[1] # "total" /\ sg * r.f[1] > 0)
      people == Without(page.ageing, {"total"})
      owing == {n \in Typed(ck, {"Person / shop"}) : BalAt(ck, n, FyEnd) # 0}
      bucket(items, lo, hi) == SumOf(items, LAMBDA it : IF lo <= FyEnd - it.date /\ FyEnd - it.date <= hi THEN Abs(it.a) ELSE 0)
      aged(r, it) == /\ it # << >> /\ r.k[2] = it[1].date
                     /\ r.f[2] = bucket(it, 0, 30) /\ r.f[3] = bucket(it, 31, 90) /\ r.f[4] = bucket(it, 91, FyEnd)
  IN  /\ {r.k[1] : r \in ToSet(people)} = owing
      /\ EverySeq(people, LAMBDA r :
           /\ r.f[1] = BalAt(ck, r.k[1], FyEnd) /\ aged(r, OpenItems(ck, r.k[1]))
           /\ r.f[2] + r.f[3] + r.f[4] = Abs(r.f[1]))
      /\ EverySeq(With(page.ageing, "total"), LAMBDA r :
           r.f = [j \in 1..4 |-> SumOf(rows(r.k[2]), LAMBDA x : Abs(x.f[j]))])

PositionAgrees(ck, rows) ==
  LET d == rows[1].k[2]
      of(g) == With(rows, g)
      total(g) == SelectSeq(rows, LAMBDA r : r.k[1] = "total" /\ r.k[2] = g)
      seen == UNION {{r.k[2] : r \in ToSet(of(g))} : g \in {"have", "get", "give", "fund"}}
      net == Column(of("have"), 1) + Column(of("get"), 1) - Column(of("give"), 1) - Column(of("fund"), 1)
      mk == With(rows, "make-up")
      q == OwnParts(ck, d)
      h == HeadsTo(ck, d)
      res == h[1] - h[2]
  IN  /\ \A g \in {"have", "get", "give", "fund"} : \A i \in DOMAIN total(g) : total(g)[i].f[1] = Column(of(g), 1)
      /\ With(rows, "net")[1].f[1] = net
      /\ \A n \in seen : ck.type[n] \notin WordsEquity
      /\ EverySeq(of("have"), LAMBDA r : r.f[1] = BalAt(ck, r.k[2], d) /\ r.f[1] >= 0)
      /\ EverySeq(of("get"), LAMBDA r : r.f[1] = BalAt(ck, r.k[2], d) /\ r.f[1] > 0)
      /\ EverySeq(of("give"), LAMBDA r : r.f[1] = -BalAt(ck, r.k[2], d) /\ r.f[1] > 0 /\ ck.type[r.k[2]] # "Fund")
      /\ EverySeq(of("fund"), LAMBDA r : r.f[1] = -BalAt(ck, r.k[2], d) /\ r.f[1] > 0 /\ ck.type[r.k[2]] = "Fund")
      /\ \A n \in ck.names : IsBsWord(ck, n) /\ ck.type[n] \notin WordsEquity /\ BalAt(ck, n, d) # 0 => n \in seen
      /\ [i \in DOMAIN mk |-> mk[i].f[1]] = <<h[1], h[2], Abs(res), q[1], q[2], q[3], Abs(res), net>>
      /\ mk[7].k[2] = (IF res >= 0 THEN "+ result" ELSE "- result")
      /\ q[1] + q[2] - q[3] + res = net

MonthAgrees(ck, page) ==
  LET s == MonthStart[StatementMonth]  e == MonthEnd(StatementMonth)
      rows == Without(page.month, {"total", "brief"})
      tot == With(page.month, "total")[1].f
      quiet(n) == BalAt(ck, n, s - 1) = 0 /\ Mov(ck, n, s, e) = <<0, 0>>
  IN  /\ EverySeq(rows, LAMBDA r : LET n == r.k[1] IN r.f = <<BalAt(ck, n, s - 1)>> \o Mov(ck, n, s, e) \o <<BalAt(ck, n, e)>>)
      /\ tot = <<Column(rows, 2), Column(rows, 3)>> /\ tot[1] = tot[2]
      /\ \A n \in ck.names : quiet(n) \/ \E r \in ToSet(rows) : r.k[1] = n

CustomAgrees(ck, page) ==
  LET rows == page.custom
      n == rows[1].k[2]  s == rows[1].k[3]  e == rows[1].k[4]
      bs == IsBsWord(ck, n)
      own == SelectSeq(ck.post[n], LAMBDA p : s <= p.date /\ p.date <= e)
      ps == [i \in DOMAIN own |-> [id |-> own[i].vid, a |-> own[i].a]]
            \o (IF e = FyEnd /\ bs THEN [i \in DOMAIN ck.cposts[n] |-> [id |-> ck.cposts[n][i].y, a |-> ck.cposts[n][i].a]] ELSE << >>)
      open == IF bs THEN BalAt(ck, n, s - 1) ELSE 0
      upto(i) == open + SumOf(SubSeq(ps, 1, i), LAMBDA p : p.a)
  IN  /\ ps # << >> /\ Len(rows) = Len(ps) + 3 /\ rows[1].f = <<open>>
      /\ \A i \in DOMAIN ps : rows[i + 1].k[3] = ps[i].id /\ rows[i + 1].f = Split(ps[i].a) \o <<upto(i)>>
      /\ rows[Len(ps) + 2].f = <<SumOf(ps, LAMBDA p : Max0(p.a)), SumOf(ps, LAMBDA p : Max0(-p.a))>>
      /\ Last(rows).f = <<upto(Len(ps))>>

-----------------------------------------------------------------------------
(* The year end *)

\* (mutant) The heads are read, the totals are not.
TrialBalanceHeadsAgree(ck, page) ==
  /\ EverySeq(Without(page.tb, {"total", "checked"}), LAMBDA r : r.f[1] = ck.closing[r.k[1]] /\ r.f[1] # 0)
  /\ \A n \in ck.names : ck.closing[n] = 0 \/ \E r \in ToSet(page.tb) : r.k[1] = n

TrialBalanceAgrees(ck, page) ==
  LET rows == Without(page.tb, {"total", "checked"})
      tot == With(page.tb, "total")[1].f
  IN  /\ EverySeq(rows, LAMBDA r : r.f[1] = ck.closing[r.k[1]] /\ r.f[1] # 0)
      /\ tot = <<SumOf(rows, LAMBDA r : Max0(r.f[1])), SumOf(rows, LAMBDA r : Max0(-r.f[1]))>> /\ tot[1] = tot[2]
      /\ \A n \in ck.names : ck.closing[n] = 0 \/ \E r \in ToSet(rows) : r.k[1] = n

\* Receipts and payments by head: the money entries' other lines, and the cost
\* of what a fund paid for.
HeadLines(ck, v) ==
  CASE v.words.vtype = "Paid from a fund" -> SelectSeq(v.lines, LAMBDA ln : ln.a > 0 /\ ck.type[ln.n] \in {"Expense", "Thing owned"})
    [] v.words.vtype \in {"Money in", "Money out"} -> SelectSeq(v.lines, LAMBDA ln : ck.type[ln.n] \notin WordsMoney)
    [] OTHER -> << >>
ReceiptsPaymentsAgree(ck, page) ==
  page.rp = << >> \/
  LET rows(w) == With(page.rp, w)
      on(n, sg) == SumOf(ck.vouchers, LAMBDA v : SumOf(HeadLines(ck, v), LAMBDA ln : IF ln.n = n THEN Max0(sg * ln.a) ELSE 0))
      heads(sg) == {n \in ck.names : on(n, sg) # 0}
      right(w, sg) == {r.k[2] : r \in ToSet(rows(w))} = heads(sg) /\ EverySeq(rows(w), LAMBDA r : r.f[1] = on(r.k[2], sg))
      tr == Column(rows("to"), 1) + Column(rows("to opening"), 1)
      tp == Column(rows("by"), 1) + Column(rows("by closing"), 1)
  IN  /\ \A v \in ToSet(ck.vouchers) : v.words.vtype \in {"Money in", "Money out"} =>
           \A ln \in ToSet(HeadLines(ck, v)) : ln.a > 0 \/ ck.type[ln.n] \notin MixedOk
      /\ right("to", -1) /\ right("by", 1)
      /\ EverySeq(rows("to opening"), LAMBDA r : r.f[1] = ck.opening[r.k[2]])
      /\ EverySeq(rows("by closing"), LAMBDA r : r.f[1] = ck.closing[r.k[2]])
      /\ EverySeq(rows("total"), LAMBDA r : r.f[1] = (IF r.k[2] = "to" THEN tr ELSE tp)) /\ tr = tp

StatementAgrees(ck, page) ==
  LET rows(w) == With(page.statement, w)
      h == HeadsTo(ck, FyEnd)
      most == IF h[1] > h[2] THEN h[1] ELSE h[2]
      heads(w, t, sg) == /\ {r.k[2] : r \in ToSet(rows(w))} = Typed(ck, {t})
                         /\ EverySeq(rows(w), LAMBDA r : r.f = <<Len(ck.post[r.k[2]]), sg * ck.closing[r.k[2]]>>)
  IN  /\ heads("to", "Expense", 1) /\ heads("by", "Income", -1)
      /\ rows("heads")[1].f = <<h[2], h[1]>> /\ rows("total")[1].f = <<most, most>>
      /\ rows(IF h[1] >= h[2] THEN "to result" ELSE "by result")[1].f = <<Abs(h[1] - h[2])>>

\* The interest the printed basis gives and the share printed, of the partner `who`.
InterestRead(ck, page, who) ==
  LET rows == SelectSeq(page.appropriation, LAMBDA r : r.k[1] = "interest" /\ r.k[2] = who)
  IN  IF rows = << >> THEN 0 ELSE (10000 - 2 * ck.closing[rows[1].k[3]] * rows[1].k[4]) \div 20000
Shares(page) == With(page.appropriation, "share")

\* Each printed share is within a paisa of the exact one, and they add up to the rest.
ShareWithinPaisa(r, rest) == Abs(r.f[1] * r.k[4] - rest * r.k[3]) < r.k[4]
SharesAgree(ck, page) ==
  LET sh == Shares(page)
      rest == ResultOf(ck) - SumOf(sh, LAMBDA r : InterestRead(ck, page, r.k[2]))
  IN  rest > 0 /\ Column(sh, 1) = rest /\ EverySeq(sh, LAMBDA r : ShareWithinPaisa(r, rest))

AppropriationAgrees(ck, page) ==
  page.appropriation = << >> \/
  LET sh == Shares(page)
      credit(r) == InterestRead(ck, page, r.k[2]) + r.f[1]
      lines == FlattenSeq([y \in DOMAIN ck.close |-> ck.close[y].lines])
  IN  /\ EverySeq(With(page.appropriation, "interest"), LAMBDA r :
             r.f = <<-ck.closing[r.k[3]], InterestRead(ck, page, r.k[2])>>)
      /\ SharesAgree(ck, page)
      /\ With(page.appropriation, "profit")[1].f = <<ResultOf(ck)>>
      /\ EverySeq(sh, LAMBDA r : SumOf(ck.cposts[r.k[2]], LAMBDA p : Max0(-p.a)) = credit(r))
      /\ SumOf(lines, LAMBDA ln : IF ln.n = ApprAccount THEN Max0(ln.a) ELSE 0) = ResultOf(ck)
      /\ SumOf(sh, credit) = ResultOf(ck)

PartnersAgree(ck, page) ==
  page.partners = << >> \/
  /\ EverySeq(page.partners, LAMBDA r :
       LET n == r.k[2]
           cur == n = r.k[3]
           m == Mov(ck, n, FyStart, FyEnd)
           i == IF cur THEN InterestRead(ck, page, n) ELSE 0
           s == IF cur THEN SelectSeq(Shares(page), LAMBDA x : x.k[2] = n)[1].f[1] ELSE 0
       IN  r.f = <<ck.opening[n], m[2], i, s, m[1], ck.closing[n] - i - s>> /\ r.f[6] = ck.pcb[n])
  /\ {r.k[2] : r \in ToSet(page.partners)} = Typed(ck, {"Partner's capital", "Partner's current", "Partner"})
  /\ -Column(page.partners, 6) = OwnAt(ck, FyEnd)

SheetAgrees(ck, page) ==
  LET rows(w) == With(page.sheet, w)
      q == OwnParts(ck, FyEnd)
      firm == page.partners # << >>
      one(w, x) == EverySeq(rows(w), LAMBDA r : r.f[1] = x)
      at(w, sg, bal) == EverySeq(rows(w), LAMBDA r : r.f[1] = sg * bal[r.k[2]])
      sum(W) == SumOn(W, LAMBDA w : Column(rows(w), 1))
      listed == UNION {{r.k[2] : r \in ToSet(rows(w))} : w \in {"fund", "give", "have", "capital", "current", "owes"}}
      must == {n \in ck.names : IsBsWord(ck, n) /\ IF ck.type[n] \in WordsEquity THEN firm /\ ck.pcb[n] # 0 ELSE ck.closing[n] # 0}
  IN  /\ one("start", q[1]) /\ one("put in", q[2]) /\ one("taken out", q[3]) /\ one("result", Abs(ResultOf(ck))) /\ one("end", OwnAt(ck, FyEnd))
      /\ at("capital", -1, ck.pcb) /\ at("current", -1, ck.pcb) /\ at("owes", 1, ck.pcb)
      /\ EverySeq(rows("capital") \o rows("current"), LAMBDA r : ck.type[r.k[2]] = "Partner" \/ ck.pcb[r.k[2]] <= 0)
      /\ at("fund", -1, ck.closing) /\ at("give", -1, ck.closing)
      /\ EverySeq(rows("have"), LAMBDA r : r.f[1] = Abs(ck.closing[r.k[2]]))
      /\ EverySeq(rows("fund") \o rows("give") \o rows("owes"), LAMBDA r : r.f[1] > 0)
      /\ must \subseteq listed
      /\ EverySeq(rows("total"), LAMBDA r :
           r.f[1] = sum(IF r.k[2] = "give" THEN {"end", "capital", "current", "fund", "give"} ELSE {"have", "owes"}))
      /\ sum({"end", "capital", "current", "fund", "give"}) = sum({"have", "owes"})

CarryAgrees(ck, page) ==
  LET rows == Without(page.carry, {"total"})
      tot == With(page.carry, "total")[1].f
      dr == SumOf(rows, LAMBDA r : Max0(r.f[1]))
      cr == SumOf(rows, LAMBDA r : Max0(-r.f[1]))
  IN  /\ {r.k[1] : r \in ToSet(rows)} = {n \in ck.names : IsBsWord(ck, n) /\ ck.pcb[n] # 0}
      /\ EverySeq(rows, LAMBDA r : r.f[1] = ck.pcb[r.k[1]] /\ r.f[2] = r.f[1])
      /\ tot = <<dr, cr, dr, cr>> /\ dr = cr

-----------------------------------------------------------------------------
(* The whole page *)

\* The check of one section.
SectionAgrees(ck, page, head, s) ==
  CASE s = "chart" -> ChartAgrees(ck, page) [] s = "daybook" -> DayBookAgrees(ck, page)
    [] s = "close" -> CloseAgrees(ck, page) [] s = "ledgers" -> LedgersAgree(ck, page)
    [] s = "funds" -> FundsAgree(ck, page) [] s = "cashbook" -> CashBookAgrees(ck, page)
    [] s = "extract" -> ExtractAgrees(ck, page, head) [] s = "ageing" -> AgeingAgrees(ck, page)
    [] s = "midyear" -> PositionAgrees(ck, page.midyear) [] s = "yearend" -> PositionAgrees(ck, page.yearend)
    [] s = "month" -> MonthAgrees(ck, page) [] s = "custom" -> CustomAgrees(ck, page)
    [] s = "tb" -> TrialBalanceAgrees(ck, page) [] s = "rp" -> ReceiptsPaymentsAgree(ck, page)
    [] s = "statement" -> StatementAgrees(ck, page) [] s = "appropriation" -> AppropriationAgrees(ck, page)
    [] s = "partners" -> PartnersAgree(ck, page) [] s = "sheet" -> SheetAgrees(ck, page)
    [] s = "carry" -> CarryAgrees(ck, page)

EverySectionAgrees(ck, page, head) == \A s \in DOMAIN page : SectionAgrees(ck, page, head, s)
PageAgrees(page, head) == EverySectionAgrees(Derived(page), page, head)

-----------------------------------------------------------------------------
(* One figure altered on the page *)

FiguresOf(page) ==
  UNION {UNION {{<<s, i, j>> : j \in DOMAIN page[s][i].f} : i \in DOMAIN page[s]} : s \in DOMAIN page}
Altered(page, x) == [page EXCEPT ![x[1]][x[2]].f[x[3]] = @ + 1]
=============================================================================
