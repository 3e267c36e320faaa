------------------------------ MODULE RefBook ------------------------------
(***************************************************************************)
(* One reference book of docs/accounting/reference-books/build.py: its     *)
(* chart, its entries, the checks they pass, the postings, and the entries *)
(* the book makes itself at the year close.                                *)
(*                                                                         *)
(* A book is a record                                                      *)
(*   style    "business" | "property" | "household" | "npo"                *)
(*   order    the account names in the order they were added               *)
(*   acct     name -> [kind, group, opening, faces]; faces is the name of  *)
(*            the other book the account is named after, or NoBook         *)
(*   partners sequence of [current, capital, share, ioc]; capital is       *)
(*            NoAccount for a partner with one fluctuating account         *)
(*   counts   <<least, most>> number of entries of the year                *)
(*   custom   <<account, first day, last day>> of the chosen period        *)
(*   extract  <<bank account, month>> of the bank statement, or << >>      *)
(* and, once its entries are posted,                                       *)
(*   vouchers the entries in the order of the book (entry number = index)  *)
(*   posts    name -> the account's rows, closing  name -> its balance     *)
(*   close    the entries of the year close, in their order                *)
(*   pcb      name -> its balance after the close                          *)
(*                                                                         *)
(* Amounts are integer paise, + is Dr. A day is the number of days since   *)
(* 01 Apr 2025. Names, narrations and layout are not modelled.             *)
(***************************************************************************)
EXTENDS Integers, Sequences, FiniteSets, SequencesExt

NoBook == "-"
NoAccount == "none"

\* The record r with the fields of s besides its own.
Extended(r, s) == [x \in DOMAIN r \cup DOMAIN s |-> IF x \in DOMAIN s THEN s[x] ELSE r[x]]

-----------------------------------------------------------------------------
(* The calendar of FY 2025-26 *)

FyStart == 0
FyEnd   == 364
MidYear == 182                  \* 30 Sep 2025
StatementMonth == 7             \* October, the 7th month of the year

\* First day of month m; MonthStart[13] is 01 Apr 2026.
MonthStart == <<0, 30, 61, 91, 122, 153, 183, 214, 244, 275, 306, 334, 365>>
MonthEnd(m) == MonthStart[m + 1] - 1
MonthOf(d) == CHOOSE m \in 1..12 : MonthStart[m] <= d /\ d <= MonthEnd(m)

BankHolidays == {136, 184, 300}         \* 15 Aug, 2 Oct, 26 Jan
Weekday(d) == (d + 1) % 7               \* Monday is 0; 01 Apr 2025 is a Tuesday

BranchOpen(d) ==
  /\ Weekday(d) # 6
  /\ ~(Weekday(d) = 5 /\ (d - MonthStart[MonthOf(d)]) \div 7 \in {1, 3})
  /\ d \notin BankHolidays

HalfUp(n, d) == (2 * n + d) \div (2 * d)

-----------------------------------------------------------------------------
(* Kinds of account and types of entry *)

MoneyKinds  == {"cash", "gollak", "bank", "wallet", "card", "cc"}
NonNegMoney == {"cash", "gollak", "bank", "wallet"}
EquityKinds == {"capital", "drawings", "shareout", "partner", "pcapital", "pcurrent"}
HaveKinds   == MoneyKinds \cup {"advance", "fixed", "invest", "stake", "deppaid", "loanto", "retention"}
NeverCredit == {"advance", "fixed", "invest", "gollak", "deppaid", "loanto", "retention"}
Nominal     == {"income", "expense"}

\* The formal type of an entry and the word printed for it.
PlainVType ==
  "Receipt" :> "Money in" @@ "Payment" :> "Money out" @@ "Contra" :> "Transfer"
  @@ "Journal (credit given)" :> "Gave on credit" @@ "Journal (credit taken)" :> "Took on credit"
  @@ "Journal (advance settled)" :> "Advance settled" @@ "Journal (paid by partner)" :> "Paid by a partner"
  @@ "Journal (correction)" :> "Correction" @@ "Journal (paid by family)" :> "Paid by the joint family"
  @@ "Journal (settled)" :> "Settled at year end" @@ "Journal" :> "Fix / Adjust"
  @@ "Payment (from a fund)" :> "Paid from a fund" @@ "Journal (interest added)" :> "Interest added to a deposit"
  @@ "Journal (written off)" :> "Written off" @@ "Journal (set off)" :> "Deposit set off"
  @@ "Journal (deposit forfeited)" :> "Deposit forfeited" @@ "Journal (retention released)" :> "Retention released"
  @@ "Journal (from a fund)" :> "Moved from a fund"
VTypes == DOMAIN PlainVType
JournalTypes == VTypes \ {"Receipt", "Payment", "Contra", "Payment (from a fund)"}

Kind(b, n)    == b.acct[n].kind
IsMoney(b, n) == Kind(b, n) \in MoneyKinds
IsEquity(b, n) == Kind(b, n) \in EquityKinds
IsBs(b, n)    == Kind(b, n) \notin Nominal

\* The numbers of I, all within 1..n, in increasing order.
InOrder(I, n) ==
  LET upto[k \in 0..n] == IF k = 0 THEN << >> ELSE IF k \in I THEN Append(upto[k - 1], k) ELSE upto[k - 1] IN upto[n]
\* The elements of s that satisfy P, in their order.
Those(s, P(_)) == LET ids == InOrder({i \in DOMAIN s : P(s[i])}, Len(s)) IN [k \in DOMAIN ids |-> s[ids[k]]]

\* The accounts of a book satisfying P, in the book's order, and their set.
Accounts(b, P(_)) == Those(b.order, P)
Names(b) == ToSet(b.order)
OfKind(b, K) == {n \in Names(b) : Kind(b, n) \in K}

ResultAccount == "Result A/c"
ApprAccount   == "Appropriation A/c"

\* What every chart of the builder holds.  In a book of partners the own money is theirs.
OwnKinds == EquityKinds \ {"drawings", "shareout"}
Partner(b) == [current : Names(b), capital : Names(b) \cup {NoAccount}, share : Nat \ {0}, ioc : Nat]
AccountsOk(b) ==
  /\ b.order \in Seq(STRING) /\ \A i, j \in DOMAIN b.order : b.order[i] = b.order[j] => i = j
  /\ b.acct \in [Names(b) -> [kind : STRING, group : STRING, opening : Int, faces : STRING]]
  /\ {ResultAccount, ApprAccount, NoAccount} \cap Names(b) = {}
  /\ b.partners \in Seq(Partner(b))
  /\ \A n \in Names(b) : b.acct[n].group = "Owner" => Kind(b, n) \in OwnKinds
  /\ b.partners # << >> => OfKind(b, EquityKinds) = OfKind(b, OwnKinds)
  /\ \A i \in DOMAIN b.partners : Kind(b, b.partners[i].current) \in OwnKinds
ChartOk(b) ==
  DOMAIN b = {"style", "order", "acct", "partners", "counts", "custom", "extract"} /\ AccountsOk(b)

-----------------------------------------------------------------------------
(* Lines of an entry *)

Ln(n, a) == [n |-> n, a |-> a]
Pos(x) == IF x > 0 THEN x ELSE 0
Neg(x) == IF x < 0 THEN -x ELSE 0
Abs(x) == IF x < 0 THEN -x ELSE x
Side(ln) == ln.a > 0
Drs(lines) == SelectSeq(lines, Side)
Crs(lines) == SelectSeq(lines, LAMBDA ln : ln.a < 0)
SumSeq(s) == SumFunction(s)
SumOf(s, f(_)) == SumFunction([i \in DOMAIN s |-> f(s[i])])
SumOn(S, f(_)) == SumFunction([x \in S |-> f(x)])
SumLines(lines) == SumOf(lines, LAMBDA ln : ln.a)
Amount(lines) == SumLines(Drs(lines))
\* What the lines put on account n.
On(lines, n) == SumOf(lines, LAMBDA ln : IF ln.n = n THEN ln.a ELSE 0)

-----------------------------------------------------------------------------
(* Writing: the shorthands, every one a double entry *)

Voucher(date, vtype, lines) ==
  [date |-> date, vtype |-> vtype, lines |-> lines, dep |-> FALSE, ref |-> 0]

Pay(date, dr, money, amt)   == Voucher(date, "Payment", <<Ln(dr, amt), Ln(money, -amt)>>)
Rec(date, money, cr, amt)   == Voucher(date, "Receipt", <<Ln(money, amt), Ln(cr, -amt)>>)
Move(date, to, frm, amt)    == Voucher(date, "Contra", <<Ln(to, amt), Ln(frm, -amt)>>)
Gave(date, party, inc, amt) == Voucher(date, "Journal (credit given)", <<Ln(party, amt), Ln(inc, -amt)>>)
Took(date, exp, party, amt) == Voucher(date, "Journal (credit taken)", <<Ln(exp, amt), Ln(party, -amt)>>)
\* `ref` is the place, in the order of writing, of the earlier entry this one names.
Fix(date, dr, cr, amt, vtype, ref) ==
  [Voucher(date, vtype, <<Ln(dr, amt), Ln(cr, -amt)>>) EXCEPT !.ref = ref]

Entry == [date : FyStart..FyEnd, vtype : STRING, lines : Seq([n : STRING, a : Int]), dep : BOOLEAN, ref : Int]

\* The own-money opening is the balancing figure of every other opening.
BalanceOpeningInto(b, name) ==
  [b EXCEPT !.acct[name].opening = -SumOn(Names(b) \ {name}, LAMBDA n : b.acct[n].opening)]

-----------------------------------------------------------------------------
(* Finalising: sort, number, validate, post *)

\* The entries by date, entries of one day in the order they were written.
Numbered(written) ==
  LET seqd == [i \in DOMAIN written |-> Extended(written[i], [seq |-> i])]
      before(i) == {j \in DOMAIN seqd : seqd[j].date < seqd[i].date \/ (seqd[j].date = seqd[i].date /\ j < i)}
  IN  [k \in DOMAIN seqd |-> seqd[CHOOSE i \in DOMAIN seqd : Cardinality(before(i)) = k - 1]]

ContraOk(b, v) ==
  /\ Len(v.lines) = 2
  /\ \A ln \in ToSet(v.lines) : IsMoney(b, ln.n) \/ Kind(b, ln.n) = "invest"

\* One action, two postings: the cost against the money, the fund against its transfer.
FundPaymentOk(b, v) ==
  LET fund(ln) == ln.a > 0 /\ Kind(b, ln.n) = "fund"
      back(ln) == ln.a < 0 /\ Kind(b, ln.n) = "income"
      paid(ln) == ln.a < 0 /\ IsMoney(b, ln.n)
      one(P(_)) == Cardinality({i \in DOMAIN v.lines : P(v.lines[i])}) = 1
      sum(P(_)) == SumOf(v.lines, LAMBDA ln : IF P(ln) THEN ln.a ELSE 0)
  IN  /\ Len(v.lines) = 4
      /\ one(fund) /\ one(back)
      /\ \A ln \in ToSet(v.lines) : /\ ln.a > 0 => Kind(b, ln.n) \in {"fund", "expense", "fixed"}
                                    /\ ln.a < 0 => IsMoney(b, ln.n) \/ Kind(b, ln.n) = "income"
      /\ sum(fund) = -sum(back) /\ sum(back) = sum(paid)

\* The gollak is only ever counted in (income) and emptied into cash or bank.
GollakOk(b, v) ==
  \A ln \in ToSet(v.lines) : Kind(b, ln.n) = "gollak" =>
     IF ln.a < 0
     THEN v.vtype = "Contra" /\ \A m \in ToSet(Drs(v.lines)) : Kind(b, m.n) \in {"cash", "bank"}
     ELSE v.vtype = "Receipt" /\ \A m \in ToSet(Crs(v.lines)) : Kind(b, m.n) = "income"

EntryOk(b, v) ==
  LET touched == \E ln \in ToSet(v.lines) : IsMoney(b, ln.n)
  IN  /\ Len(v.lines) >= 2
      /\ SumLines(v.lines) = 0
      /\ \A i, j \in DOMAIN v.lines : v.lines[i].n = v.lines[j].n => i = j
      /\ \A ln \in ToSet(v.lines) : ln.n \in Names(b) /\ ln.a # 0
      /\ v.vtype \in VTypes
      /\ v.vtype \notin JournalTypes <=> touched
      /\ v.vtype = "Contra" => ContraOk(b, v)
      /\ v.vtype = "Payment (from a fund)" => FundPaymentOk(b, v)
      /\ v.vtype = "Receipt" => \A ln \in ToSet(Drs(v.lines)) : IsMoney(b, ln.n)
      /\ v.vtype = "Payment" =>
           /\ \A ln \in ToSet(Crs(v.lines)) : IsMoney(b, ln.n) \/ Kind(b, ln.n) \in {"advance", "loan"}
           /\ \A ln \in ToSet(Drs(v.lines)) : ~IsMoney(b, ln.n)
      /\ GollakOk(b, v)

\* The rows of account n: entry number, date, amount and running balance.
PostsOn(b, vs, n) ==
  LET ids == InOrder({i \in DOMAIN vs : \E ln \in ToSet(vs[i].lines) : ln.n = n}, Len(vs))
      a(k) == On(vs[ids[k]].lines, n)
  IN  [k \in DOMAIN ids |-> [vid |-> ids[k], date |-> vs[ids[k]].date, a |-> a(k),
                             bal |-> b.acct[n].opening + SumOn(1..k, a)]]

Post(b, vs) ==
  LET posts == [n \in Names(b) |-> PostsOn(b, vs, n)]
  IN  Extended(b, [vouchers |-> vs, posts |-> posts,
                   closing |-> [n \in Names(b) |-> IF posts[n] = << >> THEN b.acct[n].opening ELSE Last(posts[n]).bal]])

\* The checks on a posted book.
BalancesOk(bk) ==
  LET bals(n) == {bk.posts[n][i].bal : i \in DOMAIN bk.posts[n]}
  IN  /\ SumOn(Names(bk), LAMBDA n : Pos(bk.closing[n])) = SumOn(Names(bk), LAMBDA n : Neg(bk.closing[n]))
      /\ SumOn(Names(bk), LAMBDA n : bk.acct[n].opening) = 0
      /\ \A v \in ToSet(bk.vouchers) : v.dep => BranchOpen(v.date)
      /\ \A n \in OfKind(bk, NonNegMoney) : bk.acct[n].opening >= 0 /\ \A x \in bals(n) : x >= 0
      /\ \A n \in OfKind(bk, {"card"}) : \A x \in bals(n) : x <= 0
      /\ \A n \in OfKind(bk, NeverCredit) : \A x \in bals(n) : x >= 0
      /\ \A n \in OfKind(bk, {"pcapital"}) : bk.posts[n] = << >>
      /\ OfKind(bk, {"cash"}) # {}
      /\ bk.counts[1] <= Len(bk.vouchers) /\ Len(bk.vouchers) <= bk.counts[2]

-----------------------------------------------------------------------------
(* Queries on a posted book *)

BalanceAt(bk, n, d) ==
  bk.acct[n].opening + SumOf(bk.posts[n], LAMBDA p : IF p.date <= d THEN p.a ELSE 0)

\* <<Dr side, Cr side>> of the postings from day s to day e.
Movement(bk, n, s, e) ==
  LET went(side(_)) == SumOf(bk.posts[n], LAMBDA p : IF s <= p.date /\ p.date <= e THEN side(p.a) ELSE 0)
  IN  <<went(Pos), went(Neg)>>

\* <<income, expense>> up to day d.
ResultTo(bk, d) ==
  <<SumOn(OfKind(bk, {"income"}), LAMBDA n : -BalanceAt(bk, n, d)),
    SumOn(OfKind(bk, {"expense"}), LAMBDA n : BalanceAt(bk, n, d))>>

Result(bk) == LET r == ResultTo(bk, FyEnd) IN r[1] - r[2]

\* [start, put, taken] over every own-money account.
EquityParts(bk, d) ==
  LET eq == OfKind(bk, EquityKinds)
  IN  [start |-> -SumOn(eq, LAMBDA n : bk.acct[n].opening),
       put   |-> SumOn(eq, LAMBDA n : Movement(bk, n, FyStart, d)[2]),
       taken |-> SumOn(eq, LAMBDA n : Movement(bk, n, FyStart, d)[1])]

-----------------------------------------------------------------------------
(* The year close, posted by the book itself *)

\* Interest on the partners' fixed capital, rounded half up.
InterestOf(bk, p) ==
  LET cap == IF p.capital = NoAccount THEN 0 ELSE -bk.closing[p.capital]
  IN  IF cap > 0 THEN HalfUp(cap * p.ioc, 10000) ELSE 0

\* (mutant) The paise left over go to nobody.
SharesFloored(partners, rest) ==
  LET w == SumOf(partners, LAMBDA p : p.share) IN [i \in DOMAIN partners |-> (rest * partners[i].share) \div w]

\* The agreed shares of `rest`: whole paise each; what is left goes to the
\* largest ratio, ties to the earliest partner.
SharesOf(partners, rest) ==
  LET w       == SumOf(partners, LAMBDA p : p.share)
      floors  == [i \in DOMAIN partners |-> (rest * partners[i].share) \div w]
      largest == CHOOSE i \in DOMAIN partners :
                   \A j \in DOMAIN partners :
                      \/ partners[i].share > partners[j].share
                      \/ partners[i].share = partners[j].share /\ i <= j
  IN  [floors EXCEPT ![largest] = @ + rest - SumSeq(floors)]

Rest(bk) == Result(bk) - SumOf(bk.partners, LAMBDA p : InterestOf(bk, p))

\* [interest, share] of each partner.
Appropriation(bk) ==
  LET shares == SharesOf(bk.partners, Rest(bk))
  IN  [i \in DOMAIN bk.partners |-> [interest |-> InterestOf(bk, bk.partners[i]), share |-> shares[i]]]

\* The own-money account the result is closed to.
OwnerAccount(bk) ==
  LET capital == Accounts(bk, LAMBDA n : Kind(bk, n) = "capital")
      owner   == Accounts(bk, LAMBDA n : bk.acct[n].group = "Owner")
  IN  IF capital # << >> THEN capital[1] ELSE IF owner # << >> THEN owner[1] ELSE NoAccount

\* What the close asserts before it writes anything.
CloseAllowed(bk) ==
  IF bk.partners # << >> THEN Result(bk) > 0 /\ Rest(bk) > 0 ELSE OwnerAccount(bk) # NoAccount

\* Every account of kind k closed against `to`; sign is that of the closing balance it clears.
HeadsClosed(bk, k, to) ==
  LET heads == Accounts(bk, LAMBDA n : Kind(bk, n) = k /\ bk.closing[n] # 0)
      lines == [i \in DOMAIN heads |-> Ln(heads[i], -bk.closing[heads[i]])]
  IN  Append(lines, Ln(to, -SumLines(lines)))

PartnersClosed(bk, ap) ==
  LET to(f(_)) == <<Ln(ApprAccount, SumOf(ap, f))>>
                    \o [i \in DOMAIN ap |-> Ln(bk.partners[i].current, -f(ap[i]))]
  IN  <<[note |-> "appropriation", lines |-> <<Ln(ResultAccount, Result(bk)), Ln(ApprAccount, -Result(bk))>>],
        [note |-> "interest", lines |-> to(LAMBDA x : x.interest)],
        [note |-> "share", lines |-> to(LAMBDA x : x.share)]>>

OwnMoneyClosed(bk, own) ==
  <<[note |-> "result", lines |-> <<Ln(ResultAccount, Result(bk)), Ln(own, -Result(bk))>>],
    [note |-> "drawings", lines |-> HeadsClosed(bk, "drawings", own)],
    [note |-> "shareout", lines |-> HeadsClosed(bk, "shareout", own)]>>

\* Zero lines are dropped and empty entries not made.
Made(entries) ==
  Those([i \in DOMAIN entries |-> [entries[i] EXCEPT !.lines = Those(@, LAMBDA ln : ln.a # 0)]], LAMBDA c : c.lines # << >>)

\* The entries of 31 Mar 2026.
CloseEntries(bk) ==
  Made(<<[note |-> "income", lines |-> HeadsClosed(bk, "income", ResultAccount)],
         [note |-> "expense", lines |-> HeadsClosed(bk, "expense", ResultAccount)]>>
       \o (IF bk.partners # << >> THEN PartnersClosed(bk, Appropriation(bk)) ELSE OwnMoneyClosed(bk, OwnerAccount(bk))))

\* The close rows on account n: [y, a], y the number of the close entry.
ClosePosts(close, n) ==
  LET ids == InOrder({i \in DOMAIN close : \E ln \in ToSet(close[i].lines) : ln.n = n}, Len(close))
  IN  [k \in DOMAIN ids |-> [y |-> ids[k], a |-> On(close[ids[k]].lines, n)]]

AfterClose(bk, close) == [n \in Names(bk) |-> bk.closing[n] + SumOf(ClosePosts(close, n), LAMBDA p : p.a)]

\* A posted book with its close.
WithClose(bk, close) == Extended(bk, [close |-> close, pcb |-> AfterClose(bk, close)])
Closed(bk) == WithClose(bk, CloseEntries(bk))

\* The result accounts, the heads, the drawings and the share-out stand at nil.
CloseAsserts(bk) ==
  /\ \A n \in {ResultAccount, ApprAccount} : SumOf(ClosePosts(bk.close, n), LAMBDA p : p.a) = 0
  /\ \A n \in OfKind(bk, Nominal \cup {"drawings", "shareout"}) : bk.pcb[n] = 0
=============================================================================
