SPECIFICATION Spec
CONSTANTS
  Key = {k1, k2}
  Value = {v1, v2}
  k1 = k1
  k2 = k2
  v1 = v1
  v2 = v2
  s1 = s1
  s2 = s2
  Absent = Absent
  KeyBytes <- MCKeyBytes
  ValueBytes <- MCValueBytes
  MAX_TRANSACTION_OPERATIONS = 2
  MAX_WAL_BYTES = 98
  MAX_TRANSACTION_BYTES = 6
  MaxTxId = 3
  Proc = {p1, p2}
  Nobody = Nobody
  Schemas = {}
  NoSchema = NoSchema
  TornSchema = TornSchema
  Conforming <- MCConforming
  Transactions <- MCTransactions
  Faults = {"kill"}
  Closed = Closed
  None = None
  Uncertain = Uncertain
INVARIANTS
  CheckpointCanBeRetried
