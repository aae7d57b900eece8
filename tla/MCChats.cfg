CONSTANTS
  Requests = {r1, r2, r3}
  Past = Past
  Nothing = Nothing
  MaxTurns = 2
  MaxChars = 4
  Results = {"few rows", "many rows"}
SPECIFICATION Spec
INVARIANTS ChatsInv ConversationIsTheChats RecordsAgreeUnlessRaced
SYMMETRY Interchangeable
