\* A buffer of three, a price that moves by a fifth, and an invalid one.
SPECIFICATION Spec
CONSTANTS
  Prices = {0, 100, 120}
  SquaredReturn <- MCSquaredReturn
  MaxSquaredReturn = 3324
  Times = {1}
  N = 3
INVARIANTS
  TypeOK
  IndexInBounds
  VarianceBounded
PROPERTY
  ImplementsPriceWindow
