SPECIFICATION FairHandlerSpec
CONSTANTS
  None = None
  Messages = {m1, m2}
  Calls = {h1, h2, h3}
  MaxReplies = 3
  Worlds <- GoodAndBad
INVARIANT NoDoubleReply
PROPERTY DeliveryHolds
PROPERTY AllFinished
