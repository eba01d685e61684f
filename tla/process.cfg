CONSTANTS
  Flags <- MCFlags
  AddressBits = 3
  MAX_CONFIG = 2
  STATS_SECONDS_COUNT = 2
  SOCKET_COUNT = 2
  MaxIncs = 2
SPECIFICATION LifecycleSpec
INVARIANTS LifecycleTypeOK AttachedIsConfigured MapsInUse
PROPERTIES SendersServed EndsUnlessAbandoned
