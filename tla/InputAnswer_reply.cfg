SPECIFICATION LiveSpec
CONSTANTS
  NumRequests = 1
  Texts = {a, b}
  TextsHere = {a}
  MaxComments = 2
  MaxFaults = 1
  MaxEdits = 1
  MaxSubmits = 1
  None = None
INVARIANTS
  AcceptedIsOnRecord
PROPERTIES
  AnswerFixed
  AnswerAcknowledged
  ConversationSettles
CHECK_DEADLOCK FALSE
