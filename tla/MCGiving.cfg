SPECIFICATION IngestSpec
CONSTANTS
  Payment <- MCPayment
  Offline = {"desk"}
  Key <- MCKey
  Price <- MCPrice
  Reversal <- MCReversal
  Intent = {"i1", "i2"}
  Monthly = {"i2"}
  IntentOf <- MCIntentOf
  Event <- MCEvent
  Part <- MCPart
  After <- MCAfter
  Excludes <- MCExcludes
  Stories <- LongStories
  MaxAttempts = 2
  GraceAttempts = 2
INVARIANTS TypeOK Converged
PROPERTIES LedgerKept
CHECK_DEADLOCK FALSE
