CONSTANTS
  Requests = {r1, r2, r3}
  Schemas = {none, orders, invoices}
  Empty = none
  Languages = {"en", "fa"}
  NoSchema = NoSchema
  Nobody = Nobody
SPECIFICATION Spec
INVARIANTS CacheOK EachVersionIsAChange QuestionsFitTheirSnapshot
SYMMETRY Interchangeable
