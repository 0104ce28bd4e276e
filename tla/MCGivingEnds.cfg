SPECIFICATION FairSpec
CONSTANTS
  Payment <- MCPayment
  Offline = {"desk"}
  Key <- MCKey
  Price <- MCPrice
  Reversal <- MCReversal
  Intent = {"i1", "i2"}
  Monthly = {"i2"}
  IntentOf <- MCIntentOf
  Event = {"unpaid", "cleared", "disputed"}
  Part <- MCPart
  After <- MCAfter
  Excludes <- MCExcludes
  Stories = {{"unpaid", "cleared", "disputed"}}
  MaxAttempts = 2
  GraceAttempts = 2
CHECK_DEADLOCK FALSE
PROPERTIES EveryEventEnds
