SPECIFICATION Spec
CONSTANTS
  a1 = a1
  a2 = a2
  usd = usd
  food = food
  salary = salary
  rent = rent
  saving = saving
  nosuch = nosuch
  k1 = k1
  k2 = k2
  d1 = d1
  d2 = d2
  t1 = t1
  None = None
  Omitted = Omitted
  Handler = {p1, p2}
  TxId = {t1, t2, t3, t4}
  Account = {a1}
  Category = {food}
  Bill = {rent}
  Goal = {saving}
  Archivable = {a1}
  MaxTime = 0
  Ref <- MCRef
  Request <- RecordRequests
  InitialBalance <- MCInitialBalance
  CurrencyOf <- MCCurrencyOf
  KindOf <- MCKindOf
  BillRow <- MCBillRow
SYMMETRY Symmetry
INVARIANTS
  RecordsMatchRows
PROPERTIES
  ImplementsAtomicLedger
