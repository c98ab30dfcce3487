SPECIFICATION Spec
CONSTANTS
  Reader = {p1}
  Writer = {p2}
  Typed = {"a"}
  Written = {x, y}
  INPUT_BUF = 3
  UINT = 6
  UART_TX_BUF_SIZE = 3
  MaxCount = 2
SYMMETRY Symmetry
CHECK_DEADLOCK FALSE
INVARIANT ReadEndsAtLine
INVARIANT NoLostWakeup
INVARIANT TxMoves
PROPERTY TtySpec
PROPERTY TxInOrder
