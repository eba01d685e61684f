CONSTANTS
  Flags <- OneFlag
  AddressBits = 3
  MAX_CONFIG = 2
  STATS_SECONDS_COUNT = 2
  SOCKET_COUNT = 1
  MaxIncs = 1
SPECIFICATION LifecycleSpec
PROPERTIES GracefulShutdown
