CONSTANTS
  client = client
  client2 = client2
  server = server
  alpha = alpha
  beta = beta
  NoSni = NoSni
  Null = Null
  IPs = {client, server}
  Ports = {50000, 443}
  Sni = {NoSni, alpha}
  Overlay <- MCOverlay
  STATS_SECONDS_COUNT = 3
  MAX_SERVER_COUNT = 2
  MAX_CONNECTIONS = 1
  Slots = {s1, s2}
  CPUs = {c1}
  Packets <- ShortConnection
  MaxPackets = 2
  Copies = {1}
  ConfigCidrs = {server}
  ConfigPorts = {443}
  CONN_MIN_NUM_OF_PACKETS = 1
  CONN_MIN_DATA_BYTES = 1
  Faults = {}
  MaxLag = 0
  MaxSeconds = 5
  Expiration = 1000
SPECIFICATION Spec
INVARIANTS FailureCarriedOver
