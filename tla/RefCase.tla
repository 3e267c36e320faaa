------------------------------ MODULE RefCase ------------------------------
(***************************************************************************)
(* One run of docs/accounting/reference-books: a case is built (its books  *)
(* written entry by entry, then finalised), printed, and the printed pages *)
(* are read back by the checker.  Any assertion stops the run.             *)
(*                                                                         *)
(* The builder of a case writes its entries in a fixed order that is not   *)
(* the order of their dates; which of them the year has is what varies     *)
(* here, at most MaxEntries of them.  Misprint stands for a wrong figure   *)
(* on the page, whatever made it, which the reader is there to find.       *)
(***************************************************************************)
EXTENDS RefFamily

CONSTANTS Cases,        \* the cases built
          BooksOf,      \* case -> the names of its books, in their order
          ChartOf,      \* case -> book -> its chart
          FirstOf,      \* case -> book -> the entries its year always has
          EntriesOf,    \* case -> what else may be written, in the order of writing; each
                        \*         a sequence of [book, v], one for every book it goes into
          MaxEntries,   \* bound, by case: entries written besides the first ones (one in several books counts once)
          MisprintMax   \* bound, by case: a page is misprinted only when at most so many of them were written

ASSUME BooksAssumption == \A c \in Cases : DOMAIN ChartOf[c] = ToSet(BooksOf[c])
ASSUME ChartsAssumption == \A c \in Cases : \A b \in ToSet(BooksOf[c]) : ChartOk(ChartOf[c][b])
ASSUME EntriesAssumption ==
  \A c \in Cases :
    /\ FirstOf[c] \in [ToSet(BooksOf[c]) -> Seq(Entry)]
    /\ EntriesOf[c] \in Seq(Seq([book : ToSet(BooksOf[c]), v : Entry]))
ASSUME BoundsAssumption == MaxEntries \in [Cases -> Nat]

VARIABLES case,     \* the case being built
          written,  \* book -> the entries written so far, in the order of writing
          last,     \* place in EntriesOf[case] of the last entry written
          size,     \* number of entries written
          phase,    \* "writing" "refused" "final" "stopped" "printed" "accepted" "reported"
          books,    \* book -> the posted book
          pages,    \* book -> the printed page
          family,   \* the printed summary of the pairs
          wrong     \* the misprinted figure <<book, <<section, row, column>>>>, or << >>
vars == <<case, written, last, size, phase, books, pages, family, wrong>>

BookOrder == BooksOf[case]
BookNames == DOMAIN written

Init ==
  /\ case \in Cases
  /\ written = FirstOf[case]
  /\ last = 0 /\ size = 0
  /\ phase = "writing"
  /\ books = << >> /\ pages = << >> /\ family = << >> /\ wrong = << >>

\* A correction names the entry written before it in its book.
Named(b, v) == IF v.ref = 0 THEN v ELSE [v EXCEPT !.ref = Len(written[b])]

\* One decision of the builder, written in the books it touches.
WriteIn(es) ==
  LET of(b) == Those(es, LAMBDA e : e.book = b)
  IN  /\ \A e \in ToSet(es) : e.v.ref # 0 => written[e.book] # << >>
      /\ written' = [b \in BookNames |-> written[b] \o [k \in DOMAIN of(b) |-> Named(b, of(b)[k].v)]]

Write ==
  /\ phase = "writing" /\ size < MaxEntries[case]
  /\ \E i \in (last + 1)..Len(EntriesOf[case]) : WriteIn(EntriesOf[case][i]) /\ last' = i
  /\ size' = size + 1
  /\ UNCHANGED <<case, phase, books, pages, family, wrong>>

\* (mutant) The balances are checked on the books as they stood, never posted.
FinalizeUnposted ==
  /\ phase = "writing" /\ phase' = "final"
  /\ UNCHANGED <<case, written, last, size, books, pages, family, wrong>>

FinalizeAs(charts, vs) ==
  IF \A b \in BookNames : (\A v \in ToSet(vs[b]) : EntryOk(charts[b], v)) /\ BalancesOk(Post(charts[b], vs[b]))
  THEN phase' = "final" /\ books' = [b \in BookNames |-> Closed(Post(charts[b], vs[b]))]
  ELSE phase' = "refused" /\ UNCHANGED books

\* Every book of the case: sorted and numbered, validated, posted, its balances checked.
Finalize ==
  /\ phase = "writing"
  /\ \E vs \in {[b \in BookNames |-> Numbered(written[b])]} : FinalizeAs(ChartOf[case], vs)
  /\ UNCHANGED <<case, written, last, size, pages, family, wrong>>

PairsAllowed ==
  \A p \in ToSet(LinkPairs(BookOrder, books)) : PairMirrors(books, p[1], p[2]) /\ PairCloses(books, p[1], p[2])

PrintCase ==
  /\ phase = "final"
  /\ IF (\A b \in BookNames : PrintAllowed(books[b])) /\ PairsAllowed
     THEN /\ phase' = "printed"
          /\ pages' = [b \in BookNames |-> Page(books[b])]
          /\ family' = FamilyPage(BookOrder, books)
     ELSE phase' = "stopped" /\ UNCHANGED <<pages, family>>
  /\ UNCHANGED <<case, written, last, size, books, wrong>>

Misprint ==
  /\ phase = "printed" /\ wrong = << >> /\ size <= MisprintMax[case]
  /\ \E b \in BookNames : \E x \in FiguresOf(pages[b]) :
       pages' = [pages EXCEPT ![b] = Altered(@, x)] /\ wrong' = <<b, x>>
  /\ UNCHANGED <<case, written, last, size, phase, books, family>>

Accepts(b) == PageAgrees(pages[b], books[b].extract)

ReadBack ==
  /\ phase = "printed"
  /\ phase' = IF (\A b \in BookNames : Accepts(b)) /\ FamilyAgrees(BookOrder, pages, family)
              THEN "accepted" ELSE "reported"
  /\ UNCHANGED <<case, written, last, size, books, pages, family, wrong>>

Next == Write \/ Finalize \/ PrintCase \/ Misprint \/ ReadBack
Spec == Init /\ [][Next]_vars

-----------------------------------------------------------------------------
(* Properties *)

TypeOK ==
  /\ case \in Cases /\ size \in 0..MaxEntries[case] /\ last \in 0..Len(EntriesOf[case])
  /\ phase \in {"writing", "refused", "final", "stopped", "printed", "accepted", "reported"}
  /\ written \in [ToSet(BookOrder) -> Seq(Entry)]
  /\ phase \in {"final", "stopped", "printed", "accepted", "reported"} => DOMAIN books = BookNames
  /\ phase \in {"printed", "accepted", "reported"} => DOMAIN pages = BookNames

\* The books do not change once they are posted.
Posted == phase = "final"
Printed == phase \in {"printed", "accepted", "reported"}

\* What is spent from a fund beyond what it holds.
Overspent(bk, d) == SumOn(OfKind(bk, {"fund"}), LAMBDA n : Pos(BalanceAt(bk, n, d)))

\* The position counts a fund by its size and the own money by its side: on every
\* day the two meet but for twice what funds are overspent, so the generator's
\* check of the make-up stops the books with an overspent fund and no others.
MakeUpMissesByOverspend ==
  Posted => \A b \in BookNames : \A d \in {MidYear, FyEnd} :
    OwnNow(books[b], d) - NetPosition(books[b], d) = 2 * Overspent(books[b], d)

\* What transfers put into deposits, less what they took back.
KeptBack(bk) ==
  SumOf(bk.vouchers, LAMBDA v :
    IF v.vtype = "Contra" THEN SumOf(v.lines, LAMBDA ln : IF IsMoney(bk, ln.n) THEN 0 ELSE ln.a) ELSE 0)

\* The money of a trust moves as its Receipts & Payments say, but for what a
\* transfer put into or took back from a deposit: such a transfer is neither a
\* receipt nor a payment, so the account's two sides differ by it.
ReceiptsMeetPayments ==
  Posted => \A b \in BookNames :
    books[b].style = "npo" => RpTotals(books[b])[1] - RpTotals(books[b])[2] = KeptBack(books[b])

\* The year close loses nothing: it takes every head and the drawings to nil and
\* leaves the own money as the start plus what was put in, less what was taken
\* out, plus the result; the balances carried forward open the next year level.
CloseKeepsOwnMoney ==
  Posted => \A b \in BookNames :
    LET bk == books[b]
    IN  CloseAllowed(bk) =>
          /\ CloseAsserts(bk)
          /\ -SumOn(OfKind(bk, EquityKinds), LAMBDA n : bk.pcb[n]) = OwnNow(bk, FyEnd)
          /\ SumOn({n \in Names(bk) : IsBs(bk, n)}, LAMBDA n : bk.pcb[n]) = 0
          /\ bk.partners # << >> => SumOf(Appropriation(bk), LAMBDA x : x.interest + x.share) = Result(bk)

\* Books whose openings and entries agree pair by pair close alike: a running
\* account stands at the same amount on opposite sides, and the owner's money in
\* a business exceeds what he put in by exactly his result less what he took
\* home.  The later assertions on the pairs can never be the ones that stop it.
AgreedPairsClose ==
  Posted => \A p \in ToSet(LinkPairs(BookOrder, books)) :
    /\ PairMirrors(books, p[1], p[2])
    /\ \A i \in {1, 2} : CloseAllowed(books[p[i]])
    => PairCloses(books, p[1], p[2])

\* A receipt or a payment that recovers an advance or draws a loan: legal
\* entries, of a kind the Receipts & Payments account has no place for.
RecoversOrDraws(bk) ==
  \E v \in ToSet(bk.vouchers) : v.vtype \in {"Receipt", "Payment"}
    /\ \E ln \in ToSet(v.lines) : ln.a < 0 /\ Kind(bk, ln.n) \in {"advance", "loan"}

\* Two books of a pair differ in the openings, or about how often an amount
\* passed between them on a day, or the second has no account for the first.
PairDiffers(p) ==
  LET mine == AccountsFor(books[p[1]], p[2])  theirs == AccountsFor(books[p[2]], p[1])
      rows == PairRows(books[p[1]], mine)     others == PairRows(books[p[2]], theirs)
      seen == {<<r.date, r.a>> : r \in ToSet(rows)} \cup {<<r.date, -r.a>> : r \in ToSet(others)}
  IN  \/ theirs = << >>
      \/ OpeningFor(books[p[1]], mine) + OpeningFor(books[p[2]], theirs) # 0
      \/ \E x \in seen : HowMany(rows, x[1], x[2]) # HowMany(others, x[1], -x[2])

\* What is wrong with the posted books of a case that the checks of every single
\* book let through: a fund is overspent on a day the position is drawn up; a
\* trust's money went into deposits and did not all come back, or was received
\* or paid against an advance or a loan; nothing is left for partners to share,
\* or nobody owns the result; a pair differs.
SomethingWrong ==
  \/ \E b \in BookNames : \E d \in {MidYear, FyEnd} : Overspent(books[b], d) # 0
  \/ \E b \in BookNames : books[b].style = "npo" /\ (KeptBack(books[b]) # 0 \/ RecoversOrDraws(books[b]))
  \/ \E b \in BookNames : ~CloseAllowed(books[b])
  \/ \E p \in ToSet(LinkPairs(BookOrder, books)) : PairDiffers(p)

\* The generator stops exactly for these reasons.  None of its other assertions,
\* on the close, the balance sheet, the partners or the closed pairs, can be
\* the one that fails, and books with something wrong are never printed.
StopsForAReason ==
  /\ phase = "stopped" => SomethingWrong
  /\ phase = "printed" /\ wrong = << >> => ~SomethingWrong

-----------------------------------------------------------------------------
(* The reader's own conventions, which the generator does not assert: a
   correction stands below the entry it names, the year close posts to the
   result account, every share is within a paisa of the exact one, the chosen period of
   the chosen account has a row. *)

LeftPaise(bk) ==
  LET w == SumOf(bk.partners, LAMBDA p : p.share)
  IN  Rest(bk) - SumOf(bk.partners, LAMBDA p : (Rest(bk) * p.share) \div w)
Conventional(bk) ==
  /\ \A i \in DOMAIN bk.vouchers : LET v == bk.vouchers[i] IN v.ref # 0 => NamedEntry(bk, v)[1] < i
  /\ \E c \in ToSet(bk.close) : \E ln \in ToSet(c.lines) : ln.n = ResultAccount
  /\ bk.partners # << >> => LeftPaise(bk) <= 1
  /\ bk.posts[bk.custom[1]] # << >> \/ (IsBs(bk, bk.custom[1]) /\ ClosePosts(bk.close, bk.custom[1]) # << >>)

\* What the generator prints the reader re-derives: a case of conventional books
\* is never reported, whatever order its entries were written in.
PrintedCasePasses ==
  phase = "reported" /\ wrong = << >> => \E b \in BookNames : ~Conventional(books[b])

\* The figures of a page no check reads.
Unread(page, x) ==
  LET r == page[x[1]][x[2]]
  IN  r.k[1] \in {"brief", "checked", "both", "foot"} \/ (x[1] = "appropriation" /\ r.k[1] = "total")

\* One wrong figure in any table of any book of a case that would have passed is
\* reported, but for the figures no check reads.
WrongFigureIsReported ==
  phase = "accepted" /\ wrong # << >> => Unread(pages[wrong[1]], wrong[2])

-----------------------------------------------------------------------------
(* Statements of the repository the code does not keep *)

\* README.md:95 and build.py:3010: the checker "re-derives every printed figure".
EveryFigureIsRead == phase = "accepted" => wrong = << >>

\* build.py:1208-1218: "the ledgers above show each entry on its last row".
ClosedAccountsShowTheClose == Printed => \A b \in BookNames : ClosedOffPage(pages[b]) = {}

\* check_md.py:711: the shares printed are "each within a paisa of the exact share".
SharesArePaisaExact ==
  Printed => \A b \in BookNames :
    books[b].partners # << >> => SharesAgree(Derived(pages[b]), pages[b])
=============================================================================
