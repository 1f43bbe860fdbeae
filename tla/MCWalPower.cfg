SPECIFICATION Spec
CONSTANTS
  Key = {k1, k2}
  Value = {v1, v2}
  k1 = k1
  k2 = k2
  v1 = v1
  v2 = v2
  s1 = s1
  s2 = s2
  Absent = Absent
  KeyBytes <- MCKeyBytes
  ValueBytes <- MCValueBytes
  MAX_TRANSACTION_OPERATIONS = 2
  MAX_WAL_BYTES = 159
  MAX_TRANSACTION_BYTES = 6
  MaxTxId = 4
  Proc = {p1, p2}
  Nobody = Nobody
  Schemas = {s1, s2}
  NoSchema = NoSchema
  TornSchema = TornSchema
  Conforming <- MCConforming
  Transactions <- MCTransactions
  Faults = {"power"}
  Closed = Closed
  None = None
  Uncertain = Uncertain
INVARIANTS
  ReopenFindsPromisedMap
  SurvivorsReopen
  PoisonedOnlyByIoError
SYMMETRY MCSymmetry
