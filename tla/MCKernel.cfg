SPECIFICATION KernelSpec
CONSTANTS
  Price <- MCPrice
  GasLimit = 5
  Used <- MCUsed
  MaxSeals = 3
  MaxDepth = 3
INVARIANT KernelTypeOK
INVARIANT PaidInFull
CHECK_DEADLOCK FALSE
