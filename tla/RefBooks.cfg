SPECIFICATION Spec
CONSTANTS
  Cases <- AllCases
  BooksOf <- CaseBooks
  ChartOf <- CaseCharts
  FirstOf <- CaseFirst
  EntriesOf <- CaseEntries
  MaxEntries <- Entries
  MisprintMax <- Misprints
INVARIANTS
  TypeOK
  MakeUpMissesByOverspend
  ReceiptsMeetPayments
  CloseKeepsOwnMoney
  AgreedPairsClose
  StopsForAReason
  PrintedCasePasses
  WrongFigureIsReported
CHECK_DEADLOCK FALSE
