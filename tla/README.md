# A TLA+ specification of connectivity-exporter

connectivity-exporter watches the TLS connections of a host, decides for every
second and every (client address, server address, server name) whether
connecting worked, and exports the result as Prometheus counters. This directory
holds TLA+ modules of that program, TLC configurations that check them on small
instances, and proofs checked by TLAPS. File names such as `packet/packet.go` are
relative to `connectivity-exporter/` in the repository.

To check a run: `tlc -config pipeline.cfg MCAudit` (every run, with its module, is
in `PROJECT.json`). To check the proofs: `tlapm Exporter_proofs.tla`, and the same
for the other modules whose name ends in `_proofs`.

## 1. Inventory

| Component | State | Operations | Module |
|---|---|---|---|
| Packet filter, `capture_packets` in `packet/c/cap.c` (kernel, on every CPU) | locals of a run: packet, pointer to the connection, clock value read, pointer into the bucket | one run per frame: create, look up and update a connection; count it (`add_connection_to_stats`) | `Capture` |
| Server name parser, `parse_sni` in `cap.c` | none | bytes of a segment to a name; back to a string in `tupleDataFromC` | `SniParser` |
| eBPF maps (`cap.c`, `types.h`, `packet/bpf.go`) | `connections`, `stats` (ring of buckets), `ticker_clock` | lookup, update, delete, write through a pointer, iterate | `Maps` |
| Second annotation, `accountForConnections` in `packet/packet.go` | none | one tick of one ConnKey to one `Inc` | `Accounting` |
| Tracker goroutine, `TrackConnections`, `getOldestStatsAndCleanup`, `deleteExpiredSNIs` | `currentTickerClock`, `previousFailedSecond`, `snis`, locals of a tick | per tick: scan and purge old connections, drain a bucket, account, send, expire, advance the clock | `TrackConnections` |
| Counters, `Inc.apply`, `DeleteMetrics` in `metrics/metrics.go` | `counters` | six additions per `Inc`; deletion of a name's series | `Metrics` |
| Scrapes, `promhttp.Handler` and `Gather` (external) | series still to be read, values read, values last reported | list the series, read them one by one, report | `Scrape` |
| Process lifecycle: `main.go`, the four goroutines, their channels | WaitGroup, context, tickers, channels, positions of the goroutines | ticks, sends, receives, signal, shutdown, fatal errors | `Lifecycle` (extends `Startup`) |
| Execution histogram: `update_histogram`, `readSnapshotFromMap`, `promextra` | the per-CPU array `histogram`, `currentSnapshot`, whether the channel is closed | measure, read, close, check, write | `Histogram`; who waits on the channel in `Lifecycle` |
| Start-up, configuration, raw sockets: `main.go`, `NewNetworkDataSource`, `packet/bpf.go` | `config_cidrs`, `config_ports`, inner maps, sockets, the collection | parse flags, load, fill maps, attach, close | `Startup` |
| Helm chart, dashboards, rules, scripts, test helpers | - | - | not modelled |

**Interaction.** Filter and tracker share the eBPF maps and nothing else: the
filter reads `ticker_clock` and writes bucket `clock % STATS_SECONDS_COUNT`; the
tracker drains bucket `(clock + 1) % STATS_SECONDS_COUNT`, and then advances the
clock. No lock protects a sequence of map operations. The tracker hands each
`Inc` to `Apply` on an unbuffered channel. A scrape reads the series one by one while
`Apply` goes on adding. `main` sets up the maps and attaches the filter to a socket per
interface index, starts the goroutines, and on a signal cancels a context, waits for
the goroutines and closes sockets and maps.

**What is hard.** Two CPUs run the filter for one connection (or one bucket
entry) at once; pointers to preallocated map elements outlive their keys; the
clock is read early in a run and used late; the tracker's system calls fail
between two others; ticks are dropped; a connection may live longer than the ring
of buckets; a frame runs the filter once per socket it reaches; TCP cuts a
ClientHello anywhere; a scrape mixes values from before and after an increment; a
closed channel goes on giving zero values; start-up
fails between two of its steps; the senders do not watch the context.
`PROJECT.json` lists these as hazards, each at its line and with the properties
about it.

**What makes each part correct.** Filter and maps: a connection is counted by one
packet, under its own ConnKey. Ring: the drained bucket is not in use, and a
bucket holds one tick. Tracker: what is in a bucket is handed over once, whatever
fails, and reported in the end. Counters: backed by
connections, and ordered from one scrape to the next; and together with all that is before them, they are whole annotations
of seconds (`Seconds`). Parser: the name that was sent, or a part of it, never
another. Histogram: what was measured, once, and never going back. Start-up: the
filter runs with the whole configuration or not at all. Lifecycle: nobody uses the
maps after `Close`, both senders are served, a signal ends the process.

## 2. Modules

```
Accounting            functions: activeSecond, failedSecond, accountForConnections
  Maps                connections, elem, stats, ticker_clock
    Capture           cpu[c]: one run of the filter per CPU; seen
    TrackConnections  tpc, ticks, now, currentTickerClock, ...
    Metrics           counters, applying, step
      Exporter        composition, refinement mapping, properties, fairness
        MCExporter    traffic of the instances
        Scrape        Exporter and a Prometheus server that scrapes it
          MCScrape    Scrape with that traffic
        Audit         Exporter with history variables
          MCAudit     Audit with that traffic
        Exporter_proofs         types, the drained bucket, the connections map
          Counters_proofs       (extends Scrape too) counters, refinement of Seconds,
                                scrapes
          Audit_proofs          (extends Audit too) the ring of buckets, whole seconds,
                                names, traffic, double counting
            Places_proofs       (and Counters_proofs) what is lost or invented
Sums_proofs           lemmas about sums over finite sets, for Places_proofs,
                      Histogram_proofs and SniParser_proofs
Seconds               what the exporter promises; Exporter is an implementation
Startup               flags, configuration maps, sockets
  Lifecycle           ... and the goroutines, channels, shutdown
    MCProcess         flags of the instances
    Lifecycle_proofs
SniParser             parse_sni on the bytes of a segment
  SniParser_proofs
Histogram             from update_histogram to a scrape
  Histogram_proofs
  MCFunctions         (extends SniParser too) inputs for both
```

### Maps
A hash map is a function on the keys present. The elements of `connections` are
preallocated in the kernel: a pointer stays usable after the key is deleted, and
a freed element is handed out again at once. They are therefore `Slots` with
contents `elem`, to which the keys point; a lookup in the filter returns a slot.
`stats` is an array of maps bounded by `MAX_SERVER_COUNT`; `connections` is bounded
by `MAX_CONNECTIONS`. `initStatsMap` puts an inner map into every bucket before the
filter is attached, so that the lookup of the inner map never fails.
`sni_stats_t` counters are natural numbers: 2^64 connections of one ConnKey within
one second are out of reach.
A name is written over the name in the element; `Overlay` is what is left when the
new one is shorter, an unspecified operator with the assumption `SniAssumption`.

### Capture
One label of `cpu[c].pc` per helper call, and per branch that writes through a pointer, of
`capture_packets_internal`: `syn` (insert), `lookup`, `synack`, `psh`, `bytes`, `rst`,
`fin`, and for the body of `add_connection_to_stats` `stats_clock`, `stats_find`,
`stats_add`, `stats_insert`, `stats_delete`, which returns to the label after the call.
The order of the labels is that of the `if`s, so that a packet with several flags
takes several of them, with the pointer it found first, as in the code. `Ignore`
stands for the early returns before the first map access (not IPv4/TCP, address or
port not configured). A frame is a record of the header fields the filter tests;
`parse_sni` is the name the parser finds in it, or `NoSni`. `Copies` is how many of the
sockets a frame may reach: the filter then runs again on the same frame (`NextSocket`),
since `attachProgramToNetworkInterface` binds one socket to every interface (index 0)
and one to each index.
Two things are coarser than the code. The branch `psh` reads the element, copies the name
byte by byte and writes the state last; it is one step here, so what two CPUs with such
segments of one connection can mix is not modelled, and no run has such frames on two CPUs.
And the entries of a bucket are values without slots: `StatsAdd` adds to the
entry the ConnKey has now, whereas the code adds through the pointer it has found, to an
element that may have been replaced by `BPF_ANY`, where the addition is lost or goes to
the next owner. With one CPU the two are the same. For more than one CPU only the bound
`NothingInvented` is claimed, for which it makes no difference where one addition
goes, and `failures_kept`, whose counterexample inserts twice and adds nothing.

### TrackConnections
One action per system call on a shared map: `ScanConnection`/`ScanEnd`/`ScanError`,
`PurgeConnection`, `StatsLookup`(`Error`), `CollectStats`/`CollectEnd`, `DeleteStats`,
`CleanupEnd`, `Account`, `Send`, `Expire`, `Advance`. `Faults` says which of the
failures the code handles may happen: `"scan"` and `"stats"` (an iteration or lookup
fails), `"put"` (the update of the clock fails), `"slow"` (ticks are dropped).
A tick that ends early does not advance the clock, as in the code. `statsKey` has the
constant `STATS_SECONDS_COUNT` where `packet.go:177` has the number 20, the same at this
commit. For old
connections, `PutUint32Panics` models `binary.LittleEndian.PutUint32` on a slice of
length 0: the process ends (`tpc = "panicked"`) and `Restart` starts it again
with empty maps and counters.

### Metrics
`ApplyNext` makes one of the six additions of `Inc.apply`, in the order of the code.
`DeleteLabelValues` (external, client_golang) deletes a series only when it is
given as many values as there are labels.

### Scrape
`Exporter`, whose steps it does not change, and a scrape (external: `promhttp`, `Gather` and
`Collect` of client_golang). `ScrapeStart` lists the series that exist, `ScrapeRead` reads one
of them, in any order, `ScrapeEnd` reports what was read. Between any two of these steps
the exporter goes on, so that a scrape may have `active` from before an `Inc` and
`active_failed` from after it. `during` is a history variable: the increments that `Apply`
had in hand during the scrape. A restart ends the scrape and empties what was reported, as
Prometheus treats the counters of a new process.

### Seconds
The abstract specification: totals per ConnKey, the ConnKeys annotated in the current
second, the number of seconds. `Annotate` adds one whole annotation at once, the one
that the connections of the second justify; `NextSecond` and `StartAgain` are the other
two steps. `Exporter` gives the mapping: a total is the counter and what `Inc.apply`
has still to add to it; a ConnKey is annotated when its `Inc` has been handed over on the
channel; seconds are `currentTickerClock`.

### Audit
History variables that the model never reads: the calls of
`add_connection_to_stats` per ConnKey and outcome (`calls`), the same per tick for the
ticks that are not annotated yet (`ledger`), the clock values of the writes a bucket
holds (`stamps`), frames that opened a connection and frames that counted one, and what
each tuple has carried since its SYN, every frame taken once (`carried`). `opening` and
`counting` are the CPUs whose current frame has been taken into those two counts, so
that a frame that reaches several sockets is one frame. `Kept` sums up what the
buckets, the copy of one, the increments and the counters hold of those calls, and
`Places` adds the runs that have not written theirs yet.

### Startup
`main` up to the `go` statements, `NewNetworkDataSource` with what it calls, and `Close`.
One action per item of the loops over the flags, per inner map and per socket. Items are
records (form, address, prefix length), an address the set of the positions of its one
bits, so that `parseIPSizeCIDR` is modelled by what it does: the bits behind the prefix
are cleared, and the prefix of an IPv4 network written
as IPv6 counts 96 more bits, which the trie refuses. Every system call may fail; what
the code logs is an outcome of the action (`openRawSock`, `AttachSocket`), what it
returns ends in `StartupFatal`. A signal kills the process before `signal.Notify` and
waits in the channel after it.

### Lifecycle
`main`, `TrackConnections`, `TrackExecutionTime`, `Apply` and `ListenAndServe` with the
WaitGroup, the context, tickers of capacity one and the two unbuffered channels. `Apply`
may receive from the closed channel `snapshots` as often as it likes; what it gets is the
matter of `Histogram`. The
body of a tick is the number of increments it sends. `Fatal` includes the panic
described above.

### SniParser
A message is a record of its fields (lengths of the fields before the extensions, the
extensions); `Wire` puts it on the wire, and a behaviour adds its bytes one by one to
the segment the filter sees. `parse_sni` is a function of those bytes. The results of
`bpf_skb_load_bytes` are not looked at by the code; a load that fails zeroes its target,
which is why a missing extension looks like a server name. `Cursors` is the loop, as a
recursive function, with its 16-bit cursor. `tupleDataFromC` reads the name back.

### Histogram
A duration is the set of the positions of its one bits, so that the shifts of
`bpf_log2` are exact and TLC never handles large numbers; a sum of durations is a function
that says how often each of them was added.
`AddTotal` and `IncrementBucket` are the two writes of `update_histogram`, between which
`ReadCPU` may copy the value of the CPU. `CloseSnapshots` is the return of
`TrackExecutionTime`, after which `Apply` receives `ZeroSnapshot`, without buckets, which
`checkSnapshot` has to refuse (`ApplyZero`). `CumulativeCount` and `SampleCount` are what
`Write` reports. The call of `update_histogram` is commented out in `capture_packets`:
as long as it is, all snapshots are zero, and the module is about the code in place.

## 3. Runs

| Run | Question | Properties |
|---|---|---|
| `pipeline` | One CPU, nothing fails: does every counted connection reach its counter exactly once, and are the counters annotations of seconds? | `TypeOK`, `NothingLost`, `OneTickPerBucket`, `SecondsExact`, `SuccessByTraffic`, `BoundedAge`, `AnnotatesSeconds` |
| `faults` | Failing system calls, a lagging clock, dropped ticks, frames seen twice, full maps: is a bucket in use drained, is anything counted twice, who is blamed? | `SecondsBacked`, `DrainNotLive`, `NothingInvented`, `CountedByOnePacket`, `Attribution` |
| `scrapes` | What can be concluded from scrapes that read the series one by one while `Inc.apply` adds? | `ScrapesOrdered` |
| `progress` | Under fairness, does the tracker finish each tick, unless the process ends, and is a failure reported? | `TickCompletes`, `FailureReported` |
| `process` | From the flags to the end: is the filter ever half configured, are the maps there when used, are both senders served, when does a signal not end the process? | `LifecycleTypeOK`, `AttachedIsConfigured`, `MapsInUse`, `SendersServed`, `EndsUnlessAbandoned` |
| `functions` | Does the parser find the name that was sent, however the message is cut? Does a scrape report what was measured? | `NameExact`, `NameNeverWrong`, `HistogramReported`, `CountsNeverDecrease` |

`pipeline` has 1.2 million distinct states, `faults` 0.8 million, `scrapes` 1.5 million, `process` 79,000; all
runs finish within minutes.

Six further runs show that the code does not do what its documentation says;
each checks one property and ends with a counterexample:

| Run | Property | What TLC shows |
|---|---|---|
| `failures_kept` | `FailuresKept` | README: "any failed connection attempt by a user will be reported as a failed second". Two CPUs insert the first entry of a ConnKey into a bucket; the second `bpf_map_update_elem` with `BPF_ANY` replaces the first, and with it the failure. |
| `old_connections` | `OldConnectionsAccounted` | `TrackConnections` "tracks the connections ... older than 20 seconds". For the first one, `PutUint32` on `net.IP{}` panics and the process ends. |
| `carry_over` | `FailureCarriedOver` | README: a second without attempts is failed if "the preceding bucket was assessed as failed". Only ConnKeys with connections in this tick are assessed. |
| `expiry` | `ExpiryDeletes` | "Expire metrics if the last update is older than the metric expiration". `DeleteLabelValues` gets two values for four labels and deletes nothing. |
| `duplicates` | `SuccessByTraffic` | types.h: the minimum of packets or bytes "in order to treat the connection as successful". A frame that reaches the filter through two sockets is added twice; the connection is called successful below both thresholds. `pipeline` shows the property with one socket per frame. |
| `shutdown` | `GracefulShutdown` | "Initiating a graceful shutdown." `Apply` returns first, a sender blocks for good, `wg.Wait` never returns. |

Further disagreements between code and documentation that modelling brought up, and
that no run is about:
- docs/ebpf.md counts a reset or FIN "for an existing connection with a known SNI"; the
  filter counts it in any state, under the empty name if there was no ClientHello.
- The flag `-i` is passed on and never used; all interfaces are listened on.
- `NewNetworkDataSource` shadows `err` in three `if`s, so that the deferred `ec.Close()`
  does not run for them; `main` ends the process anyway.
- A socket that cannot be bound is neither closed nor remembered (`"leaked"`).
- A server name from a ClientHello that is cut within the name is kept as it is, a
  proper prefix, and later segments do not complete it.
- The histogram is made with `NewPrecomputedHistogram`, which does not register it.
  Its buckets exclude their upper bound, whereas `le` includes it.

### Bounds, and why they suffice
- `STATS_SECONDS_COUNT = 3` is the smallest ring that satisfies
  `SeparationAssumption` without lag (4 with `MaxLag = 1`); `MaxSeconds` is at least as
  large as the ring in every passing run, so the ring wraps around, and in `pipeline` large
  enough for a connection to become old.
- Frames: `OneConnection` has SYN, SYN-ACK, a segment with the name, a last segment
  of 65536 bytes with FIN, a reset and a foreign frame; TLC takes every sequence of
  up to `MaxPackets` of them, duplicates and wrong orders included. `TwoClients` adds a
  second client; `ShortConnection`, `RacingEnds` and `TwoConnections` are what the other
  questions need.
- `Copies = {1, 2}` in `faults` and `duplicates`: two sockets are enough for a frame to be
  counted twice. The other runs have one run of the filter per frame.
- `CONN_MIN_NUM_OF_PACKETS` and `CONN_MIN_DATA_BYTES` are 1 or 2 (4 in `duplicates`), so
  that the thresholds of `EnoughTraffic` are met exactly and crossed by the traffic.
- `MAX_CONNECTIONS = 1` with two or three slots: the map is full after one
  connection, and an element is used again while a pointer to it is held.
- Two CPUs (`failures_kept`) are enough for two runs to meet in one bucket entry or one
  connection. What holds for every number of CPUs is proved (section 4).
- `MAX_SERVER_COUNT = 2`: a bucket gets full in `pipeline`. That a full one refuses a
  ConnKey takes more frames than TLC handles together with the faults of `faults`; it is
  covered by the theorems `NothingIsInvented` and `AnnotationsAreExact` only.
- `scrapes`: four frames make two failures, `MaxSeconds = 4` lets both be applied, so
  that a second scrape follows a first, and an increment falls into a scrape. Without
  `during` the property is violated.
- `Expiration = 1000` switches expiry off; `expiry` sets it to 1.
- `process`: addresses of three bits, two entries per configuration map, two buckets
  and two sockets; nine pairs of flags that fit exactly, overlap, or are refused for each
  of the reasons the code has. `MaxIncs = 2`: a sender with one send after another.
- `functions`: ClientHellos with the name at the first, a middle, the 20th and the 21st
  place, of 0, 2, 3, 127, 128 and 129 bytes, with none, and messages that are no
  ClientHello, each cut after every byte; durations at the powers of two where
  `bpf_log2` branches, their neighbours, 0 and 2^32 - 1; two CPUs, two samples.
- `Rest` lets the model stop when its bounds are reached; deadlock is checked in all
  runs but `functions`, whose behaviours end with their input. `Ended` does the same
  for the ended process.
- CPUs and slots are symmetric (`Symmetry`, runs of safety properties only). In
  `Audit`, the one `CHOOSE` over CPUs is over a set of at most one element.

### Assumptions
- `AdvanceAction`: at most one update of the clock falls into a run of the filter
  after that run has read the clock. A run takes microseconds (the kernel bounds
  its instructions), updates are a second apart.
- `SeparationAssumption`, `MaxLag + 2 < STATS_SECONDS_COUNT`: the clock in the kernel
  misses at most `MaxLag` updates in a row. With 20 buckets, that is 17.
- `CopiesAssumption`, `ThresholdAssumption`, `StartupAssumption`, `FlagsAssumption`,
  `LifecycleAssumption`: the constants are numbers, and records of the right shape.
- `DurationsAssumption`: a run of the filter takes less than 2^32 nanoseconds. (The
  argument of `bpf_log2` has 32 bits; a longer one would be truncated.)
- `HellosAssumption`: what TLS says of a message. Its fields have their widths, a name
  has no zero byte (it is a DNS name), there is at most one name (RFC 6066: one per type,
  and `host_name` is the only type), and the message fits into one record, of 5 + 2^14
  bytes (RFC 8446). The width is what keeps the 16-bit cursor of the loop from wrapping.
- `data_offsetAssumption`: the headers before the message have at most 14 + 60 + 60 bytes
  (`ETH_HLEN`, and the greatest `ihl` and `doff`).
- `FiniteKeysAssumption`, `CPUsAssumption`, `HistogramCPUsAssumption`: there are finitely many addresses (32 bits),
  names (a buffer of fixed length) and CPUs. The proofs need it where they add up over
  all ConnKeys or count runs of the filter.
- `NullAssumption`, `NullIncAssumption`: `Null` is none of the values it stands beside.

### Fairness
`FairSpec`: weak fairness of each CPU's run (a filter run is not preempted for
good), of the steps of both goroutines (the Go scheduler), of the rendezvous, of the
passing of a second and of the restart (Kubernetes). Nothing makes packets arrive.
`LifecycleSpec`: weak fairness of the steps of `main`, of the goroutines and of the
tickers. Strong fairness only of the end of the two trackers (`ConnectionsDone`,
`ExecutionClose`): it is ready whenever the tracker is back at its `select`, and Go
chooses among ready cases at random. No fairness of `Signal` or `Fatal`, and none of
`ApplyZero`.

## 4. Proofs

All theorems hold for every value of the constants under the named assumptions: any
traffic, any number of buckets and map entries, and, where nothing else is said, any
number of CPUs and any of the faults.

**The pipeline, whatever happens**
- `TypeCorrect` (`Exporter_proofs`): `Spec => []TypeOK`. `TypeOK` is not inductive: an
  increment counts stale connections with `Cardinality`, which is a natural number
  only for a finite set. `NoOldConnections` supplies what is missing: since the
  code panics on old connections, there are none left when a tick is
  accounted for. The inductive invariant is `TypeInv == TypeOK /\ NoOldConnections`.
- `DrainSafe` (`Exporter_proofs`): `DrainNotLive`. `ClockInv` bounds how far the three
  copies of the clock (tracker, kernel, runs of the filter) are apart: `MaxLag` and
  `MaxLag + 1`. Two numbers that are between 1 and `STATS_SECONDS_COUNT - 1` apart
  differ modulo `STATS_SECONDS_COUNT`; this is a lemma from the definition of `%`.
- `ConnectionsAreYoung` (`Exporter_proofs`): `BoundedAge`. `AgeInv` adds that a
  connection beyond its age is still to be met by the scan or by the purge: a tick
  that finds one does not reach the advance of the clock.
- `BucketsAreTicks` (`Audit_proofs`): `OneTickPerBucket`. `DrainInv` follows the two
  loops over the bucket: what is not yet read, what is not yet deleted, and that nothing is
  left after both. It needs `DrainSafe`, or else the filter could add entries behind the
  loops. `StampInv` then says that a write finds in its bucket only writes of its own
  tick: the clock values are congruent and less than a ring apart.
- `SecondsAreBacked` (`Counters_proofs`): `SecondsBacked`. The argument follows an entry on its way. `EntriesCounted`: no
  bucket, and no copy of one, has an entry without a connection. `IncsGood`: hence every
  increment is an active second, failed exactly when active-failed, and backed by its
  counts. `BaseInv`: the counters without the increment being applied are ordered and
  backed.
- `ScrapesAreOrdered` (`Counters_proofs`): `ScrapeSpec => []ScrapesOrdered`. `OrderedNow` is
  what `BaseInv` and the order of the additions give at one instant: `active_failed` is at
  most `active` and `failed`, and its total at most one more, for the increment in
  hand. `ScrapeInv` takes this through a scrape: what has been reported is not ahead of
  the counters (`ReportedInv`); what has been read lies between the two, and together with
  `during` is not behind the total of active failed seconds (`SettledInv`); `during` has
  the increment in hand (`DuringInv`). A scrape changes nothing of the exporter
  (`ScrapedIsExporter`), so that all of the above holds under it.
- `ExporterImplementsSeconds` (`Counters_proofs`): `Spec => AnnotatesSeconds`. The
  rendezvous on the channel is `Annotate`, the end of a tick `NextSecond`, a restart
  `StartAgain`, and everything else a stutter. Two invariants are needed beside those
  above: `LoopInv`, that the ConnKey being sent is one of this tick and has been taken from
  those still to visit, so that none is annotated twice; and `SeriesInv`, that the series
  of active seconds is there wherever another one is, so that the totals do not depend
  on how far `Inc.apply` has come. `TotalIsBasePlusWhole` splits a total into the counters
  before the increment and the whole increment, and makes every single addition a stutter.
- `NothingIsInvented` (`Places_proofs`): `NothingInvented`. The inductive `InventInv` takes
  the sums over all ConnKeys, `Cardinality(Recording(o)) + Held(o) <= Made(o)`: it must
  be about the sums, since with two CPUs an entry may be written under a ConnKey other
  than the one the call was counted for. A run that reads the clock adds one to both
  sides; its write moves at most one from `Recording` to `Held` (`KeptAtMost`: it may
  replace an entry, never add more); no step of the goroutines adds to what is kept
  (`KeptOfGoroutines`, one lemma per hand-over). `CopyInv` (the copy agrees with the bucket
  while it is made) and `PlaceInv` (what is deleted from the bucket has been copied)
  carry the hand-overs.

**The pipeline with one CPU.** These have the hypothesis `CPUs = {c}`; with two CPUs
they are false, since runs that interleave on one element or one bucket entry
overwrite each other (`failures_kept` is an example).
- `EveryCallHasItsPlace` (`Places_proofs`): `NothingLost`, also when system calls
  other than the reading of a bucket fail (`"stats" \notin Faults`: what was copied
  before the error is dropped by the code), under `[]Room`, that there is room in the
  bucket whenever an entry is inserted (the result of `bpf_map_update_elem` is not looked
  at). `LostInv` is `Places(ck, o) = CallsOf(ck)[o]` for every ConnKey, with the same lemmas
  about the hand-overs, now as equalities.
- `AnnotationsAreExact` (`Audit_proofs`): `SecondsExact`, with `"stats" \notin Faults`
  and however full the maps are. `ExactInv` has `CopyInv`; `EntryInv`, that the entry a run
  has found is still there and one it has not found is not; and `LedgerInv`, that for
  every tick kept and every ConnKey the ledger is what its bucket (or the copy of it)
  holds and the run still has in hand, or else the bucket was filled by others.
- `CountedUnderOwnName` (`Audit_proofs`): `Attribution`. `SlotInv` (`Exporter_proofs`):
  no two keys share an element, nor does the run share the one it holds with another
  key; `NameInv`: every entry, and the element the run holds, has the addresses of its
  key and a name that a frame of that key carried. Hypothesis `NoMixtures`: a name that
  is written over another is that name. (The code copies the name into the buffer of
  the element without clearing it, so that a shorter one leaves a rest behind.)
- `SuccessNeedsTraffic` (`Audit_proofs`): `SuccessByTraffic`, for one socket per frame
  (`Copies \subseteq {1}`; the run `duplicates` shows why). `TrafficInv`: an element counts
  no more than its tuple has carried since the SYN.
- `CountedOnce` (`Audit_proofs`): `CountedByOnePacket`, for any number of sockets per
  frame. `OpenInv`: entries of the map and frames that have counted one are together no
  more than the frames that opened one; a frame that has counted leaves no entry of its
  key behind. `FrameInv`: a SYN that has stored an element finds it as it was stored.

**The process**
- `LifecycleTypeCorrect`, `NoUseAfterClose` (`Lifecycle_proofs`):
  `LifecycleTypeOK` and `MapsInUse`, for any flags and any number of
  sockets, buckets and increments. `LifecycleInv` adds `WaitGroupCounts`, that the
  WaitGroup is the number of goroutines that run, and `Phases`, that the collection is
  loaded from `newEBPFConfig` to the end of `Close` and that the WaitGroup is 0 in `Close`.
- `AttachedConfigured` (`Lifecycle_proofs`): `AttachedIsConfigured`. `ConfigInv` adds what the
  loops over the flags have done so far (`VisitedCidrs`, `VisitedPorts`: every visited item
  has its key in the map, every key comes from an item), that they end in their order
  (`LoopsDone`), and that a socket is attached only after them (`AttachedLate`). That
  the masked address of a key matches what the item means is a lemma about sets of bits.

**The parser** (`SniParser_proofs`, for every message under `HellosAssumption`)
- `NamesAreNeverWrong`: `NameNeverWrong`; `NamesAreExact`: `NameExact`. The state adds
  little (`SniInv`: the segment is a cut of one of the messages); the argument is about
  the loop. `WireIs` and `WireExtension` say at which places of a message its
  fields and each of its extensions are, `LoadIs` what a load gives there: the bytes,
  or zero behind the cut. `HeaderRead`: the extensions start where the filter looks for
  them, or the place it gets is behind the cut. Then, round by round (`TrackStep`,
  `TrackKept`), the loop is at the end of an extension of the message (`OnTrack`), or the
  next type it loads is behind the cut (`Lost`). In the second case the loop stops,
  since a failed load looks like the type of a server name, and the length of that
  name loads as zero as well (`ParseNothing`). In the first it stops only at an
  extension of type 0, of which there is one (`ParseLoads`): what is copied are the bytes of
  the name before the cut and zeros after it, which `UpToZero` drops (`NameReadBack`). In
  a message that is all there the loop is never lost (`AllOnTrack`).
- The prover has no induction over data, and the recursive functions of the model
  (`Cursors`, `Concat`) are not unfolded by it. Both are replaced by sets: `Counting` is
  induction over the natural numbers for a set in place of a predicate, by a smallest
  counterexample among the subsets of `0 .. n`; `Recursion` gets from it that a function
  defined from its value before exists, so that `CHOOSE` finds it (`MovesExists`,
  `LaysExists`).

**The histogram** (`Histogram_proofs`, for any number of CPUs and set of times)
- `Log2Exact`: `bpf_log2` is the position of the highest one of every value of 32 bits.
  `Halving` says that one halving keeps the highest one and halves the width.
- `ScrapesReportMeasuredTimes`: `HistogramReported`. The inductive invariant is `HistInv`.
  `AgreeInv`: in every value that is counted, copied or reported the buckets have the
  terms of the total, but for those between the two steps of `update_histogram`; it
  is kept by addition (`BothAgree`), so the torn copies of the CPUs add up. `ReadInv`:
  for every counter, what has been read is no more than what those CPUs count now, and
  the snapshot before is no more than that and what the others count now (`Between`).
  `ZeroIsRefused`: what the closed channel gives has no buckets and changes nothing.
- `ScrapesNeverGoBack`: `CountsNeverDecrease`, from `Between` when all CPUs have been read.

**Sums.** `Functions` defines a sum as a fold, a recursive function on sets.
`Sums_proofs` shows that it equals the number of pairs `<<x, i>>` with `i < f[x]`
(`SumIsCount`), by a smallest counterexample among the subsets of a finite set, and gets
everything else from the library's theorems about cardinalities: a sum splits, agrees,
is monotone, changes by as much as its one changed term, and may be taken class by
class (`SumByClass`).

**Only model-checked**
- `TickCompletes`, `FailureReported`, `SendersServed`, `EndsUnlessAbandoned`: liveness; the
  prover does not handle fairness.

Every invariant and every action property that a passing run checks is also proved, some
under the hypotheses named above.

## 5. Not modelled

- `run_test_hook`, `getStats`, `getConnection`, `setConnection`, `flagsString`: test code.
  `packet/types.go` is used by nobody.
- What parse_sni makes of bytes that are no TLS message, and of a later segment that
  happens to start like a ClientHello: the frames of `Capture` may carry any name, and
  `SniParser` has the messages a TLS client sends. Data after the extensions of a
  ClientHello does not occur in TLS.
- The life of the file descriptor of an inner map between `FD()` and `Put` (the Go
  garbage collector may close it).
- HTTP and the loading of the program: libraries, modelled by how they are used; of the
  Prometheus client the reads of a scrape and the deletion of series. `ListenAndServe` is served, shut down, or fatal.
- Helm chart, dashboards, recording rules, scripts.
- Counting one connection more than once by one packet with several flags (the filter
  does not look `conn` up again) is possible in `Capture`; `CountedByOnePacket` is
  about packets for that reason.

## 6. Plan

Done: Accounting, Maps, Capture, TrackConnections, Metrics, Exporter, Scrape, Audit, Startup,
Lifecycle, SniParser, Histogram, Seconds and the refinement, with the proofs above. All
of the program's own state is modelled. To come:

1. Expiry: names whose time is not refreshed while they are in use; worth a run once
   `DeleteMetrics` deletes something.
2. Liveness, should the prover come to handle fairness: `FailureReported` rests on the
   same bookkeeping of the loops (`LoopInv`) as the refinement.
