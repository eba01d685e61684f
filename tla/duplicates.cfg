CONSTANTS
  client = client
  client2 = client2
  server = server
  alpha = alpha
  beta = beta
  NoSni = NoSni
  Null = Null
  IPs = {client, server}
  Ports = {50000, 443}
  Sni = {NoSni, alpha}
  Overlay <- MCOverlay
  STATS_SECONDS_COUNT = 3
  MAX_SERVER_COUNT = 2
  MAX_CONNECTIONS = 1
  Slots = {s1, s2}
  CPUs = {c1}
  Packets <- OneConnection
  MaxPackets = 6
  Copies = {1, 2}
  ConfigCidrs = {server}
  ConfigPorts = {443}
  CONN_MIN_NUM_OF_PACKETS = 2
  CONN_MIN_DATA_BYTES = 4
  Faults = {}
  MaxLag = 0
  MaxSeconds = 1
  Expiration = 1000
SPECIFICATION AuditSpec
INVARIANTS SuccessByTraffic
