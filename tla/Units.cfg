SPECIFICATION Spec
CONSTANTS
  DNS_WAIT_TIME = 2
  MAX_DNS_RETRY = 2
  RETRY_SEND = 3
  SYNC_PERIOD = 7
  MaxLag = 3
  MAX_DHCP_RETRY = 1
  DHCP_WAIT_TIME = 1
  LeaseTime <- MCLeaseTime
  g_timeout = 1
  MAX_TRIES = 2
  FileBlocks = 2
  MaxTransfers = 2
  MaxPorts = 2
  MaxId = 3
  PayloadLens = {0, 1, 2}
  ReadLens = {1, 4}
  RXBUF = 4
  PTR = 8
  BYTE = 3
  RX_BUFFER_SIZE0 = 3
  U1OUT = 3
  MaxMessage = 4
  WATCHDOG = 2
  SECONDS = 8
INVARIANTS TypeOK SetByServer LeaseIsCarried LeaseNotOutlived SuccessIsWhole ReadIsTrue PrintedWhole SntpInTime
PROPERTIES RequestsSpaced TimeIsKept LeaseIsGot TransferEnds ImplementsQueue LoopGoesOn
