SPECIFICATION RequestSpec
CONSTANTS
  User = {"c", "d", "p", "s", "t"}
  Party <- MCParty
  Creator = "c"
  Payee = "p"
  NoUser = "nobody"
  Content = {"a", "b"}
  MaxReceipts = 1
  SeatUser = {"d", "s"}
  PayUser = {"p", "s", "t"}
  MaxRev = 4
INVARIANTS TypeOK PaidAsSeen MoneyMoved ReceiptOrWaiver SomebodyMayPay
PROPERTIES GuardsKept
