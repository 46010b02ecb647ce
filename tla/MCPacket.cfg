\* Packets of at most 9 octets, and every short body that may be received.
SPECIFICATION FairSpec
CONSTANTS
  W = 14
  ID_SIZE = 1
  SEQNO_SIZE = 1
  HASH_SIZE = 1
  ADDRESS_SIZE = 2
  CHANGE_MESSAGE_NUM = 10
  STOCK_NUM = 11
  MAX_DATA_SIZE = 1
  MAX_ERROR_SIZE = 1
  MAX_PACKAGE_SIZE = 13
  Local <- LocalAddress
  Sha <- SumSha
  Offered <- SomeTLVs
  Foreign <- AnyDatagram
  Past = {0, 1}
INVARIANTS TypeOK Ordered BuildFits RoundTrip KeepsWanted
PROPERTIES EndsUnlessStuck
