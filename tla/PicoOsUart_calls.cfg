SPECIFICATION FairUartSpec
CONSTANTS
  t1 = t1
  t2 = t2
  Tasks = {t1, t2}
  NoTask = NoTask
  FifoDepth = 2
  TxTrig = 0
  RxTrig = 2
  TxSize = 2
  RxSize = 2
  Sizes = {1, 3}
  MaxTx = 3
  MaxRx = 4
PROPERTIES TxInOrder RxInOrder AllSent AllQueued CallReturns
