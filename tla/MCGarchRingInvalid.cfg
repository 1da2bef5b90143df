\* A feed that reports a price of zero now and then.
SPECIFICATION Spec
CONSTANTS
  Prices = {0, 100, 120}
  SquaredReturn <- MCSquaredReturn
  MaxSquaredReturn = 3324
  Times = {1}
  N = 3
PROPERTY
  InvalidPricesSkipped
