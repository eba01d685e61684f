CONSTANTS
  client = client
  client2 = client2
  server = server
  alpha = alpha
  beta = beta
  NoSni = NoSni
  Null = Null
  IPs = {client, client2, server}
  Ports = {50000, 443}
  Sni = {NoSni, beta}
  Overlay <- MCOverlay
  STATS_SECONDS_COUNT = 4
  MAX_SERVER_COUNT = 1
  MAX_CONNECTIONS = 1
  Slots = {s1, s2}
  CPUs = {c1}
  Packets <- TwoConnections
  MaxPackets = 3
  Copies = {1, 2}
  ConfigCidrs = {server}
  ConfigPorts = {443}
  CONN_MIN_NUM_OF_PACKETS = 1
  CONN_MIN_DATA_BYTES = 1
  Faults = {"scan", "stats", "put", "slow"}
  MaxLag = 1
  MaxSeconds = 5
  Expiration = 1000
SPECIFICATION AuditSpec
INVARIANTS SecondsBacked DrainNotLive NothingInvented CountedByOnePacket Attribution
SYMMETRY Symmetry
