\* More bytes come in than both receive fifos hold together, and more are sent
\* than the transmit fifo holds.  The traffic is finite, so the model stops.
SPECIFICATION FairSpec
CONSTANTS
  Capacity = 2
  Depth = 2
  MaxRx = 5
  MaxTx = 3
INVARIANTS TypeOK RxStream MaskedIffFull NoEdgeMissed TxNeverQueues TxStream ReaderSleepsEmpty
PROPERTIES ByteDelivered
CHECK_DEADLOCK FALSE
