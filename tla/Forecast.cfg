CONSTANTS
  Balance <- MCBalance
  Turns = 3
  MonthTurns = 1
  Arrivals = 1
  MaxCommits = 2
  MaxOpen <- MCMaxOpen
  MaxWaiting = 1
  MaxRework = 0
  MaxDocs = 1
  MaxTank = 4
SPECIFICATION Spec
INVARIANTS
  BurnoutIsSignposted
PROPERTIES
  QuoteIsCharged
CHECK_DEADLOCK FALSE
