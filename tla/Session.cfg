CONSTANTS
  c1 = c1
  c2 = c2
  b1 = b1
  b2 = b2
  Conn = {c1, c2}
  Boot = {b1, b2}
  BootOf <- Boots
  Victim = b1
  Setups <- Situations
  MaxPayload = 2
  receive_buffer = 2
  SendBuffer = 8
  Batch = 2
  Long = {"Change"}
SPECIFICATION FairSpec
CHECK_DEADLOCK FALSE
INVARIANTS
  TypeOK
  ActiveCounts
  StopIsQuiet
  FramesInOrder
  AnswerBelongsToCall
  OnlyGreetedChange
  AnswersAreFresh
PROPERTIES
  CallsReturn
  StopReturns
