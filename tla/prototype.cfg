SPECIFICATION Spec
CONSTANTS
  AccountType <- Accounts
  SourceAccount = "BCA"
  Seed <- Data
  MonthLength <- Calendar
  MaxAmount = 2
  MaxTransactions = 2
  LastDay = 4
INVARIANTS
  TypeOK
  BooksBalance
PROPERTIES
  PlannedSpendIsNeutral
