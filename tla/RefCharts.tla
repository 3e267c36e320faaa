----------------------------- MODULE RefCharts -----------------------------
(***************************************************************************)
(* The five cases of docs/accounting/reference-books/build.py at a small   *)
(* scale: for every case its books with their charts, and the entries its  *)
(* builder writes, in the order it writes them.  Of accounts of one kind   *)
(* with the same use in a book one or two are kept, of entries of one      *)
(* shape one is kept, and amounts are a few paise.                         *)
(*                                                                         *)
(* A case is [books, chart, first, entries]: the names of its books in     *)
(* their order, name -> book, name -> the entries its year always has, and *)
(* the sequence of what else may be written; each writing is a sequence of *)
(* [book, v], one for each book it goes into.                              *)
(***************************************************************************)
EXTENDS RefBook

-----------------------------------------------------------------------------
(* Charts *)

\* The word printed for each kind of account.
GroupWord ==
  "cash" :> "Cash" @@ "gollak" :> "Gollak" @@ "bank" :> "Bank" @@ "wallet" :> "Wallet"
  @@ "card" :> "Credit card" @@ "cc" :> "KCC loan" @@ "party" :> "Person / shop"
  @@ "stake" :> "Money in a business" @@ "advance" :> "Advance" @@ "loanto" :> "Loan given"
  @@ "retention" :> "Retention held" @@ "fixed" :> "Thing owned" @@ "deppaid" :> "Deposit paid"
  @@ "invest" :> "Deposit" @@ "loan" :> "Loan" @@ "deposit" :> "Deposit held" @@ "fund" :> "Fund"
  @@ "capital" :> "Own money" @@ "drawings" :> "Drawings" @@ "partner" :> "Partner"
  @@ "pcapital" :> "Partner's capital" @@ "pcurrent" :> "Partner's current"
  @@ "income" :> "Income" @@ "expense" :> "Expense"

Account(n, kind, opening) == [n |-> n, kind |-> kind, group |-> GroupWord[kind], opening |-> opening, faces |-> NoBook]
Facing(a, book)  == [a EXCEPT !.faces = book]
Grouped(a, word) == [a EXCEPT !.group = word]

\* A book of these accounts; `custom` is the account its chosen-period statement shows.
Book(style, accts, custom) ==
  LET order == [i \in DOMAIN accts |-> accts[i].n]
      of(n) == accts[CHOOSE i \in DOMAIN accts : accts[i].n = n]
  IN  [style |-> style, order |-> order,
       acct |-> [n \in ToSet(order) |-> [kind |-> of(n).kind, group |-> of(n).group, opening |-> of(n).opening, faces |-> of(n).faces]],
       partners |-> << >>, counts |-> <<1, 40>>, custom |-> <<custom, FyStart, FyEnd>>, extract |-> << >>]
WithExtract(b, bank, month) == [b EXCEPT !.extract = <<bank, month>>]
WithPartners(b, ps) == [b EXCEPT !.partners = ps]

\* Opening of `name` in b, and b with the opening of an account that mirrors another book's.
OpeningOf(b, name) == b.acct[name].opening
Mirroring(b, name, amount) == [b EXCEPT !.acct[name].opening = -amount]

-----------------------------------------------------------------------------
(* Entries: day d of month m is At(m, d), April being month 1 *)

At(m, d) == MonthStart[m] + d - 1
In(book, v) == <<[book |-> book, v |-> v]>>
Deposited(v) == [v EXCEPT !.dep = TRUE]         \* a cash deposit at the branch
\* Money out of one book, money in into another.
Pair(d, frm, frmAcct, frmMoney, to, toAcct, toMoney, amt) ==
  In(frm, Pay(d, frmAcct, frmMoney, amt)) \o In(to, Rec(d, toMoney, toAcct, amt))
\* A correction of the entry last written in its book; the other book's may be later.
Correct(d, dr, cr, amt) == [Fix(d, dr, cr, amt, "Journal (correction)", 0) EXCEPT !.ref = -1]

-----------------------------------------------------------------------------
(* An individual and his own business *)

Tech == "Jasvinder Technologies"
Jas  == "Jasvinder Singh"

TechBook ==
  WithExtract(BalanceOpeningInto(Book("business",
    <<Account("Cash", "cash", 5), Account("HDFC", "bank", 32), Account("Medtech", "party", 12), Account("Cloudnine", "party", -8),
      Account("Advance Rohit", "advance", 0), Account("Laptops", "fixed", 14),
      Facing(Account("Capital", "capital", 0), Jas), Facing(Account("Drawings", "drawings", 0), Jas),
      Account("Services", "income", 0), Account("Salary", "expense", 0), Account("Hosting", "expense", 0)>>, "Medtech"), "Capital"),
    "HDFC", 10)

JasBook ==
  WithExtract(BalanceOpeningInto(Mirroring(Book("household",
    <<Account("Cash", "cash", 8), Account("SBI", "bank", 18), Account("FASTag", "wallet", 1), Account("Card", "card", -4),
      Account("FD", "invest", 20), Facing(Account("Tech", "stake", 0), Tech), Account("Loan to Gurpreet", "loanto", 6),
      Account("Grocer", "party", -3), Account("Advance Balwinder", "advance", 0), Account("Car", "fixed", 64), Account("Car Loan", "loan", 0),
      Account("Capital", "capital", 0), Facing(Account("Income from Tech", "income", 0), Tech), Account("Interest", "income", 0),
      Account("Household", "expense", 0), Account("Car upkeep", "expense", 0), Account("Written off A/c", "expense", 0)>>, "Grocer"),
    "Tech", OpeningOf(TechBook, "Capital")), "Capital"),
    "SBI", 7)

TechEntries ==
  << In(Tech, Took(At(6, 30), "Hosting", "Cloudnine", 3)),
     In(Tech, Rec(At(1, 12), "HDFC", "Medtech", 30)),               \* more than he owed: an advance
     In(Tech, Pay(At(5, 11), "Advance Rohit", "HDFC", 2)),
     In(Tech, Voucher(At(6, 30), "Payment", <<Ln("Salary", 13), Ln("Advance Rohit", -2), Ln("HDFC", -11)>>)),
     In(Tech, Pay(At(3, 18), "Laptops", "HDFC", 11)),
     In(Tech, Correct(At(7, 4), "Hosting", "Laptops", 4)),
     In(Tech, Move(At(4, 7), "Cash", "HDFC", 15)) >>

\* The money between the two books, and the personal book's own entries.
JasEntries ==
  << Pair(At(4, 15), Tech, "Drawings", "HDFC", Jas, "Income from Tech", "SBI", 12),
     Pair(At(3, 16), Jas, "Tech", "SBI", Tech, "Capital", "HDFC", 10),
     In(Tech, Pay(At(9, 22), "Drawings", "HDFC", 5)),                \* written in one book only
     In(Jas, Pay(At(7, 6), "Grocer", "SBI", 5)),                     \* two more than is owed
     In(Jas, Rec(At(9, 12), "SBI", "Loan to Gurpreet", 4)),
     In(Jas, Voucher(At(12, 31), "Journal (written off)", <<Ln("Written off A/c", 2), Ln("Loan to Gurpreet", -2)>>)),
     In(Jas, Pay(At(2, 12), "Car upkeep", "Card", 9)),
     In(Jas, Move(At(1, 18), "Card", "SBI", 4)),
     In(Jas, Voucher(At(6, 20), "Receipt", <<Ln("SBI", 11), Ln("FD", -10), Ln("Interest", -1)>>)),
     In(Jas, Voucher(At(7, 25), "Payment", <<Ln("Car", 90), Ln("Car Loan", -80), Ln("SBI", -10)>>)),
     In(Jas, Voucher(At(9, 5), "Payment", <<Ln("Car Loan", 4), Ln("Car upkeep", 2), Ln("SBI", -6)>>)),
     In(Jas, Move(At(7, 3), "FASTag", "SBI", 3)),
     In(Jas, Pay(At(9, 18), "Advance Balwinder", "Cash", 6)),
     In(Jas, Voucher(At(9, 28), "Journal (advance settled)", <<Ln("Car upkeep", 3), Ln("Household", 2), Ln("Advance Balwinder", -5)>>)),
     In(Jas, Pay(At(11, 20), "Household", "Cash", 9)) >>             \* more than the cash box holds

IndividualFirst ==
  Jas :> <<Took(At(12, 31), "Household", "Grocer", 4)>> @@ Tech :> <<Gave(At(3, 30), "Medtech", "Services", 20)>>

-----------------------------------------------------------------------------
(* A shop *)

Shop == "Sukhwinder Sales Co."

ShopBook ==
  WithExtract(BalanceOpeningInto(Book("business",
    <<Account("Cash", "cash", 22), Account("PNB", "bank", 48), Account("Builders", "party", 6), Account("Plumbing", "party", 0),
      Account("Supreme", "party", -11), Account("Advance Manpreet", "advance", 0), Account("Deposit paid", "deppaid", 9),
      Account("Fittings", "fixed", 12), Account("Capital", "capital", 0), Account("Drawings", "drawings", 0),
      Account("Sales", "income", 0), Account("Goods", "expense", 0), Account("Salary", "expense", 0),
      Account("Short / over", "expense", 0), Account("Kasar", "expense", 0)>>, "Plumbing"), "Capital"),
    "PNB", 5)

ShopEntries ==
  << In(Shop, Rec(At(3, 30), "Cash", "Sales", 38)),
     In(Shop, Deposited(Move(At(3, 30), "PNB", "Cash", 34))),
     In(Shop, Deposited(Move(At(5, 15), "PNB", "Cash", 9))),         \* 15 August: the branch is closed
     In(Shop, Gave(At(3, 30), "Builders", "Sales", 23)),
     In(Shop, Took(At(6, 30), "Goods", "Supreme", 30)),
     In(Shop, Rec(At(4, 15), "PNB", "Builders", 16)),
     In(Shop, Pay(At(4, 18), "Supreme", "PNB", 21)),
     In(Shop, Rec(At(3, 6), "PNB", "Plumbing", 5)),
     In(Shop, Pay(At(5, 12), "Advance Manpreet", "PNB", 2)),
     In(Shop, Voucher(At(6, 30), "Payment", <<Ln("Salary", 5), Ln("Advance Manpreet", -2), Ln("PNB", -3)>>)),
     In(Shop, Pay(At(5, 30), "Goods", "Cash", 3)),
     In(Shop, Correct(At(6, 6), "Salary", "Goods", 3)),
     In(Shop, Pay(At(8, 26), "Fittings", "PNB", 4)),
     In(Shop, Pay(At(2, 10), "Drawings", "PNB", 6)),
     In(Shop, Pay(At(9, 31), "Short / over", "Cash", 1)),
     In(Shop, Rec(At(12, 31), "Cash", "Short / over", 2)),           \* more found over than short
     In(Shop, Voucher(At(12, 31), "Journal", <<Ln("Kasar", 2), Ln("Plumbing", -2)>>)) >>

ShopFirst == Shop :> <<Gave(At(4, 4), "Plumbing", "Sales", 8)>>

-----------------------------------------------------------------------------
(* A partnership: fixed capitals, current accounts, interest on capital, 2 : 2 : 1 *)

Firm == "Bal Fabricators"

FirmBook ==
  WithPartners(Book("business",
    <<Account("Cash", "cash", 15), Account("P&S Bank", "bank", 60), Account("Verka", "party", 4), Account("Sandhu", "party", 0),
      Account("Retention", "retention", 0), Account("Jindal", "party", -9), Account("Advance foreman", "advance", 0), Account("Machinery", "fixed", 58),
      Account("Capital S", "pcapital", -50), Account("Capital P", "pcapital", -50), Account("Capital H", "pcapital", -25),
      Account("Current S", "pcurrent", -2), Account("Current P", "pcurrent", -1), Account("Current H", "pcurrent", 0),
      Account("Fabrication", "income", 0), Account("Steel", "expense", 0), Account("Wages", "expense", 0)>>, "Sandhu"),
    <<[current |-> "Current S", capital |-> "Capital S", share |-> 2, ioc |-> 600],
      [current |-> "Current P", capital |-> "Capital P", share |-> 2, ioc |-> 600],
      [current |-> "Current H", capital |-> "Capital H", share |-> 1, ioc |-> 600]>>)

FirmEntries ==
  << In(Firm, Gave(At(2, 28), "Verka", "Fabrication", 38)),
     In(Firm, Rec(At(4, 9), "P&S Bank", "Verka", 38)),
     In(Firm, Rec(At(1, 10), "P&S Bank", "Sandhu", 15)),
     In(Firm, Voucher(At(11, 15), "Journal (retention released)", <<Ln("Sandhu", 1), Ln("Retention", -1)>>)),
     In(Firm, Took(At(3, 30), "Steel", "Jindal", 19)),
     In(Firm, Pay(At(1, 22), "Jindal", "P&S Bank", 7)),
     In(Firm, Pay(At(6, 30), "Wages", "P&S Bank", 12)),
     In(Firm, Voucher(At(3, 12), "Journal (paid by partner)", <<Ln("Steel", 8), Ln("Current S", -8)>>)),
     In(Firm, Pay(At(3, 2), "Current H", "P&S Bank", 15)),
     In(Firm, Pay(At(8, 3), "Advance foreman", "Cash", 5)),
     In(Firm, Voucher(At(8, 29), "Journal (advance settled)", <<Ln("Wages", 3), Ln("Steel", 2), Ln("Advance foreman", -5)>>)),
     In(Firm, Move(At(7, 6), "Cash", "P&S Bank", 20)),
     In(Firm, Pay(At(9, 9), "Machinery", "P&S Bank", 6)),
     In(Firm, Pay(At(5, 23), "Steel", "Cash", 4)),
     In(Firm, Correct(At(6, 2), "Wages", "Steel", 4)),
     In(Firm, Pay(At(2, 1), "Capital S", "P&S Bank", 5)) >>          \* the fixed capitals never move

FirmFirst ==
  Firm :> <<Voucher(At(3, 28), "Journal (credit given)", <<Ln("Sandhu", 20), Ln("Retention", 1), Ln("Fabrication", -21)>>)>>

-----------------------------------------------------------------------------
(* A trust: a gollak, a fund for a purpose *)

Trust == "Radha Soami Satsang Sabha"

TrustBook ==
  BalanceOpeningInto(Book("npo",
    <<Account("Cash", "cash", 12), Account("Gollak", "gollak", 0), Account("SBI", "bank", 48), Account("FD", "invest", 20),
      Account("Advance Amritpal", "advance", 0), Account("Cement Store", "party", 0), Account("Furniture", "fixed", 0),
      Account("Hall Fund", "fund", -25), Account("General Fund", "capital", 0),
      Account("Gollak donations", "income", 0), Account("From the fund", "income", 0), Account("Donation", "income", 0),
      Account("Construction", "expense", 0), Account("Langar", "expense", 0), Account("Labour", "expense", 0)>>, "Gollak"), "General Fund")

TrustEntries ==
  << In(Trust, Move(At(2, 31), "Cash", "Gollak", 5)),
     In(Trust, Deposited(Move(At(3, 2), "SBI", "Gollak", 3))),
     In(Trust, Pay(At(3, 5), "Labour", "Gollak", 1)),                \* the gollak is only emptied
     In(Trust, Rec(At(5, 9), "SBI", "Donation", 25)),
     In(Trust, Took(At(4, 18), "Construction", "Cement Store", 14)),
     In(Trust, Pay(At(6, 10), "Cement Store", "SBI", 14)),
     In(Trust, Rec(At(2, 20), "SBI", "Hall Fund", 5)),
     In(Trust, Voucher(At(12, 20), "Journal (interest added)", <<Ln("FD", 1), Ln("Hall Fund", -1)>>)),
     In(Trust, Voucher(At(7, 14), "Payment (from a fund)",
                       <<Ln("Construction", 18), Ln("Hall Fund", 18), Ln("SBI", -18), Ln("From the fund", -18)>>)),
     In(Trust, Voucher(At(9, 22), "Payment (from a fund)",
                       <<Ln("Construction", 12), Ln("Hall Fund", 12), Ln("SBI", -12), Ln("From the fund", -12)>>)),
     In(Trust, Voucher(At(11, 8), "Journal", <<Ln("Furniture", 1), Ln("Donation", -1)>>)),
     In(Trust, Pay(At(1, 2), "Advance Amritpal", "SBI", 6)),
     In(Trust, Voucher(At(3, 30), "Journal (advance settled)", <<Ln("Langar", 5), Ln("Advance Amritpal", -5)>>)),
     In(Trust, Voucher(At(5, 30), "Payment", <<Ln("Labour", 5), Ln("Advance Amritpal", -3), Ln("SBI", -2)>>)),  \* part of a wage, recovered
     In(Trust, Pay(At(3, 30), "Labour", "Cash", 2)),
     In(Trust, Correct(At(6, 20), "Langar", "Labour", 2)),
     In(Trust, Move(At(10, 5), "FD", "SBI", 10)),                    \* money kept aside by a transfer
     In(Trust, Voucher(At(12, 31), "Journal (from a fund)", <<Ln("Hall Fund", 7), Ln("From the fund", -7)>>)) >>

TrustFirst == Trust :> <<Rec(At(2, 31), "Gollak", "Gollak donations", 8)>>
-----------------------------------------------------------------------------
(* A joint family: its own book, two of its households and three businesses *)

Joint == "Randhawa Joint Family"
Amar  == "Amarjeet's Family"
Lakh  == "Lakhbeer's Family"
Farm  == "Randhawa Agriculture"
Estate == "Randhawa Real Estate"
Kiln  == "Randhawa Brick Field"

FarmBook ==
  BalanceOpeningInto(Book("business",
    <<Account("Cash", "cash", 8), Account("PNB", "bank", 19), Account("KCC", "cc", -12), Account("Fertiliser", "party", -2),
      Account("Arhtiya", "party", 0), Account("Advance Aman", "advance", 0), Account("Land", "fixed", 54),
      Facing(Account("Capital", "capital", 0), Joint), Facing(Account("Drawings", "drawings", 0), Joint),
      Account("Crops", "income", 0), Account("Farm costs", "expense", 0), Account("Labour", "expense", 0)>>, "KCC"), "Capital")

EstateBook ==
  BalanceOpeningInto(Book("property",
    <<Account("Cash", "cash", 3), Account("Axis", "bank", 14), Account("Medical Hall", "party", 0), Account("Hardware", "party", 1),
      Account("Deposit Hardware", "deposit", -3), Account("Advance clerk", "advance", 0), Account("Plot", "fixed", 12),
      Facing(Account("Capital", "capital", 0), Joint), Facing(Account("Drawings", "drawings", 0), Joint),
      Account("Rent", "income", 0), Account("Profit on plot", "income", 0), Account("Deposit forfeited A/c", "income", 0),
      Account("Repairs", "expense", 0), Account("Rent written off A/c", "expense", 0)>>, "Hardware"), "Capital")

KilnBook ==
  WithPartners(BalanceOpeningInto(Book("business",
    <<Account("Cash", "cash", 15), Account("HDFC", "bank", 21), Account("Builders", "party", 8), Account("Coal depot", "party", -9), Account("Advance jamadar", "advance", 0),
      Account("Kiln", "fixed", 65), Facing(Account("Joint family", "partner", 0), Joint), Account("Gill", "partner", -70),
      Account("Bricks", "income", 0), Account("Coal", "expense", 0), Account("Repairs", "expense", 0)>>, "Gill"), "Joint family"),
    <<[current |-> "Joint family", capital |-> NoAccount, share |-> 3, ioc |-> 0],
      [current |-> "Gill", capital |-> NoAccount, share |-> 2, ioc |-> 0]>>)

JointBook ==
  LET stakes(b) == Mirroring(Mirroring(Mirroring(b, "Farm", OpeningOf(FarmBook, "Capital")),
                                       "Estate", OpeningOf(EstateBook, "Capital")), "Kiln", OpeningOf(KilnBook, "Joint family"))
  IN  BalanceOpeningInto(stakes(Book("household",
        <<Account("Cash", "cash", 35), Account("SBI", "bank", 42), Account("FD", "invest", 50), Account("House", "fixed", 90),
          Facing(Grouped(Account("Amarjeet", "partner", 4), "Sub-family"), Amar),
          Facing(Grouped(Account("Lakhbeer", "partner", 0), "Sub-family"), Lakh),
          Facing(Account("Farm", "stake", 0), Farm), Facing(Account("Estate", "stake", 0), Estate), Facing(Account("Kiln", "stake", 0), Kiln),
          Facing(Account("Udhaar Lakhbeer", "loanto", 0), Lakh), Account("Milkman", "party", -3),
          Account("Advance mason", "advance", 0), Account("Capital", "capital", 0),
          Facing(Account("Income from Farm", "income", 0), Farm), Facing(Account("Income from Estate", "income", 0), Estate),
          Facing(Account("Income from Kiln", "income", 0), Kiln), Account("Interest", "income", 0), Account("Kitchen", "expense", 0), Account("Amarjeet's household", "expense", 0)>>,
        "Milkman")), "Capital")

Household(extra, familyOpening, custom) ==
  BalanceOpeningInto(Book("household",
    <<Account("Cash", "cash", 6), Account("Bank", "bank", 16),
      Facing(Grouped(Account("Joint family", "partner", familyOpening), "Joint family"), Joint)>> \o extra
    \o <<Account("Capital", "capital", 0), Account("Household", "expense", 0)>>, custom), "Capital")
AmarBook == Household(<<Account("Grocer", "party", -2), Account("Neighbours", "party", 0), Account("Advance help", "advance", 0),
                       Account("Stitching", "income", 0), Account("Received", "income", 0), Account("Help", "expense", 0)>>, -4, "Grocer")
LakhBook == Household(<<Facing(Account("Udhaar", "loan", 0), Joint), Account("Chemist", "party", 0), Account("Advance painter", "advance", 0),
                       Account("Motorcycle", "fixed", 0), Account("Rooms", "expense", 0)>>, 0, "Bank")

\* Money between the books; a payment of one for another is written in three.
BetweenEntries ==
  << Pair(At(2, 6), Farm, "Drawings", "PNB", Joint, "Income from Farm", "SBI", 9),
     Pair(At(3, 20), Joint, "Farm", "SBI", Farm, "Capital", "PNB", 8),
     Pair(At(6, 15), Estate, "Drawings", "Axis", Joint, "Income from Estate", "SBI", 6),
     Pair(At(7, 20), Joint, "Kiln", "SBI", Kiln, "Joint family", "HDFC", 20),
     Pair(At(4, 10), Kiln, "Joint family", "HDFC", Joint, "Income from Kiln", "SBI", 15),
     Pair(At(1, 3), Joint, "Amarjeet", "SBI", Amar, "Joint family", "Bank", 5),
     Pair(At(5, 18), Joint, "Udhaar Lakhbeer", "SBI", Lakh, "Udhaar", "Bank", 5),
     Pair(At(4, 2), Lakh, "Joint family", "Bank", Joint, "Lakhbeer", "SBI", 4),
     \* the family pays a household's bill; a household puts money into a business of the family
     In(Joint, Pay(At(10, 14), "Lakhbeer", "SBI", 3))
       \o In(Lakh, Voucher(At(10, 14), "Journal (paid by family)", <<Ln("Household", 3), Ln("Joint family", -3)>>)),
     In(Lakh, Pay(At(7, 21), "Joint family", "Bank", 10)) \o In(Kiln, Rec(At(7, 21), "HDFC", "Joint family", 10))
       \o In(Joint, Voucher(At(7, 21), "Journal", <<Ln("Kiln", 10), Ln("Lakhbeer", -10)>>)),
     In(Lakh, Pay(At(9, 5), "Udhaar", "Bank", 2))
       \o In(Kiln, Voucher(At(9, 5), "Journal (paid by partner)", <<Ln("Repairs", 2), Ln("Joint family", -2)>>))
       \o In(Joint, Voucher(At(9, 5), "Journal", <<Ln("Kiln", 2), Ln("Udhaar Lakhbeer", -2)>>)),
     Pair(At(12, 24), Lakh, "Udhaar", "Bank", Joint, "Udhaar Lakhbeer", "SBI", 3),
     In(Joint, Voucher(At(12, 31), "Journal (settled)", <<Ln("Amarjeet's household", 4), Ln("Amarjeet", -4)>>))
       \o In(Amar, Voucher(At(12, 31), "Journal (settled)", <<Ln("Joint family", 4), Ln("Received", -4)>>)),
     In(Joint, Voucher(At(12, 31), "Journal (settled)", <<Ln("Amarjeet's household", 4), Ln("Amarjeet", -4)>>)) >>  \* in one book only

JointEntries ==
  << In(Joint, Pay(At(1, 8), "Kitchen", "SBI", 9)), In(Joint, Pay(At(5, 25), "Advance mason", "Cash", 2)),
     In(Joint, Voucher(At(6, 4), "Journal (advance settled)", <<Ln("Kitchen", 2), Ln("Advance mason", -2)>>)),
     In(Joint, Pay(At(7, 4), "Milkman", "SBI", 7)), In(Joint, Correct(At(10, 5), "Amarjeet's household", "Kitchen", 1)),
     In(Joint, Move(At(5, 22), "Cash", "SBI", 3)), In(Joint, Move(At(10, 10), "FD", "SBI", 30)),
     In(Joint, Rec(At(12, 31), "SBI", "Interest", 4)) >>

AmarEntries ==
  << In(Amar, Pay(At(1, 6), "Grocer", "Cash", 4)), In(Amar, Rec(At(2, 30), "Cash", "Stitching", 2)),
     In(Amar, Gave(At(8, 12), "Neighbours", "Stitching", 3)), In(Amar, Rec(At(10, 18), "Cash", "Neighbours", 3)),
     In(Amar, Correct(At(6, 20), "Household", "Help", 1)), In(Amar, Move(At(5, 4), "Cash", "Bank", 5)),
     In(Amar, Pay(At(7, 15), "Advance help", "Cash", 1)),
     In(Amar, Voucher(At(9, 31), "Payment", <<Ln("Help", 4), Ln("Advance help", -1), Ln("Cash", -3)>>)) >>

LakhEntries ==
  << In(Lakh, Pay(At(5, 8), "Motorcycle", "Bank", 9)), In(Lakh, Took(At(2, 14), "Household", "Chemist", 1)),
     In(Lakh, Pay(At(7, 4), "Chemist", "Cash", 1)), In(Lakh, Pay(At(7, 8), "Advance painter", "Cash", 3)),
     In(Lakh, Voucher(At(7, 27), "Journal (advance settled)", <<Ln("Rooms", 3), Ln("Advance painter", -3)>>)),
     In(Lakh, Move(At(7, 2), "Cash", "Bank", 3)), In(Lakh, Correct(At(9, 24), "Rooms", "Household", 1)) >>

FarmEntries ==
  << In(Farm, Move(At(2, 2), "KCC", "PNB", 12)), In(Farm, Pay(At(2, 20), "Fertiliser", "PNB", 3)),
     In(Farm, Move(At(3, 4), "PNB", "KCC", 20)), In(Farm, Took(At(3, 25), "Farm costs", "Fertiliser", 7)),
     In(Farm, Pay(At(3, 10), "Advance Aman", "PNB", 5)),
     In(Farm, Voucher(At(4, 15), "Journal (advance settled)", <<Ln("Labour", 4), Ln("Advance Aman", -4)>>)),
     In(Farm, Gave(At(7, 30), "Arhtiya", "Crops", 40)), In(Farm, Took(At(7, 30), "Farm costs", "Arhtiya", 3)),
     In(Farm, Rec(At(8, 14), "PNB", "Arhtiya", 30)), In(Farm, Pay(At(12, 31), "Farm costs", "KCC", 1)),
     In(Farm, Correct(At(10, 28), "Labour", "Farm costs", 1)) >>

EstateEntries ==
  << In(Estate, Rec(At(1, 7), "Axis", "Medical Hall", 3)), In(Estate, Rec(At(9, 22), "Axis", "Hardware", 1)),
     In(Estate, Voucher(At(9, 31), "Journal (set off)", <<Ln("Deposit Hardware", 2), Ln("Hardware", -2)>>)),
     In(Estate, Voucher(At(9, 31), "Journal (deposit forfeited)", <<Ln("Deposit Hardware", 1), Ln("Deposit forfeited A/c", -1)>>)),
     In(Estate, Voucher(At(12, 25), "Journal (written off)", <<Ln("Rent written off A/c", 1), Ln("Medical Hall", -1)>>)),
     In(Estate, Voucher(At(8, 18), "Receipt", <<Ln("Axis", 15), Ln("Plot", -12), Ln("Profit on plot", -3)>>)),
     In(Estate, Pay(At(11, 9), "Advance clerk", "Axis", 2)),
     In(Estate, Voucher(At(11, 16), "Journal (advance settled)", <<Ln("Plot", 1), Ln("Advance clerk", -1)>>)),
     In(Estate, Rec(At(11, 20), "Cash", "Advance clerk", 1)), In(Estate, Pay(At(3, 18), "Repairs", "Cash", 1)),
     In(Estate, Correct(At(10, 15), "Repairs", "Rent written off A/c", 1)) >>

KilnEntries ==
  << In(Kiln, Rec(At(1, 18), "HDFC", "Builders", 8)), In(Kiln, Rec(At(1, 30), "Cash", "Bricks", 6)),
     In(Kiln, Deposited(Move(At(2, 2), "HDFC", "Cash", 5))), In(Kiln, Took(At(8, 25), "Coal", "Coal depot", 12)),
     In(Kiln, Pay(At(1, 25), "Coal depot", "HDFC", 9)), In(Kiln, Pay(At(1, 2), "Advance jamadar", "HDFC", 4)),
     In(Kiln, Voucher(At(3, 28), "Journal (advance settled)", <<Ln("Coal", 3), Ln("Advance jamadar", -3)>>)),
     In(Kiln, Pay(At(4, 12), "Gill", "HDFC", 10)), In(Kiln, Rec(At(7, 22), "HDFC", "Gill", 13)),
     In(Kiln, Correct(At(3, 30), "Repairs", "Coal", 1)) >>

FamilyFirst ==
  Joint :> <<Took(At(6, 30), "Kitchen", "Milkman", 5)>> @@ Amar :> <<Took(At(3, 30), "Household", "Grocer", 1)>>
    @@ Lakh :> <<Pay(At(6, 2), "Household", "Bank", 1)>> @@ Farm :> <<Pay(At(4, 25), "Farm costs", "KCC", 2)>>
    @@ Estate :> <<Voucher(At(7, 1), "Journal (credit given)", <<Ln("Medical Hall", 3), Ln("Hardware", 2), Ln("Rent", -5)>>)>>
    @@ Kiln :> <<Gave(At(2, 20), "Builders", "Bricks", 31)>>

-----------------------------------------------------------------------------
(* The five cases: their books in order, the charts, what is written first and
   what may be written after it *)

CaseBooks ==
  "individual" :> <<Jas, Tech>> @@ "shop" :> <<Shop>> @@ "partnership" :> <<Firm>> @@ "trust" :> <<Trust>>
  @@ "family" :> <<Joint, Amar, Lakh, Farm, Estate, Kiln>>
CaseCharts ==
  "individual" :> (Jas :> JasBook @@ Tech :> TechBook) @@ "shop" :> (Shop :> ShopBook)
  @@ "partnership" :> (Firm :> FirmBook) @@ "trust" :> (Trust :> TrustBook)
  @@ "family" :> (Joint :> JointBook @@ Amar :> AmarBook @@ Lakh :> LakhBook @@ Farm :> FarmBook @@ Estate :> EstateBook @@ Kiln :> KilnBook)
CaseFirst ==
  "individual" :> IndividualFirst @@ "shop" :> ShopFirst @@ "partnership" :> FirmFirst @@ "trust" :> TrustFirst
  @@ "family" :> FamilyFirst
CaseEntries ==
  "individual" :> (TechEntries \o JasEntries) @@ "shop" :> ShopEntries @@ "partnership" :> FirmEntries @@ "trust" :> TrustEntries
  @@ "family" :> (BetweenEntries \o JointEntries \o AmarEntries \o LakhEntries \o FarmEntries \o EstateEntries \o KilnEntries)
=============================================================================
