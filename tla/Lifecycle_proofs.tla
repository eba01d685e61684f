-------------------------- MODULE Lifecycle_proofs --------------------------
(***************************************************************************)
(* Theorems about Lifecycle and Startup, for any flags, any number of      *)
(* sockets and buckets, any number of increments per tick. They do not     *)
(* need the fairness.                                                      *)
(***************************************************************************)
EXTENDS Lifecycle, TLAPS

Live(g) == IF go[g] \in {"unborn", "done"} THEN 0 ELSE 1

(* The WaitGroup counts the goroutines that have been started and have not *)
(* returned.                                                               *)
WaitGroupCounts ==
  wg = Live("trackConnections") + Live("trackExecution") + Live("apply") + Live("server")

(* From the loading of the collection to its end, by where main is.        *)
Phases ==
  /\ main \in {"cidrs", "ports", "stats", "attach", "go", "signals", "cancel", "wait", "close"}
       => coll = "loaded"
  /\ main \in {"close", "exited"} => wg = 0

LifecycleInv ==
  /\ LifecycleTypeOK
  /\ WaitGroupCounts
  /\ Phases
  /\ MapsInUse

-----------------------------------------------------------------------------
(* The types of Startup hold at first, and every one of its steps keeps    *)
(* them.                                                                   *)
LEMMA StartupTypes == StartupInit => StartupTypeOK
<1> SUFFICES ASSUME StartupInit PROVE StartupTypeOK
  OBVIOUS
<1>1. pending \in BOOLEAN
  BY Zenon DEF StartupInit
<1>2. innerMaps \in 0 .. STATS_SECONDS_COUNT /\ iface \in 0 .. SOCKET_COUNT
  BY StartupAssumption DEF StartupInit
<1>3. sockets \in [0 .. SOCKET_COUNT - 1 -> {"none", "leaked", "open", "attached", "closed"}]
  BY DEF StartupInit
<1> QED
  BY <1>1, <1>2, <1>3 DEF StartupInit, StartupTypeOK, Starting

LEMMA StartupStepTypes ==
  ASSUME StartupTypeOK,
         StartStep \/ CloseStep \/ Signal \/ StartupFatal
  PROVE  StartupTypeOK'
<1> USE StartupAssumption DEF StartupTypeOK, Starting, Goto, startVars
<1>1. CASE ParseFlags \/ Setrlimit \/ Notify \/ newEBPFConfig \/ EndOfLoop
  BY <1>1 DEF ParseFlags, Setrlimit, Notify, newEBPFConfig, EndOfLoop, AfterLoop
<1>2. ASSUME NEW h \in cidrs, initCIDRMap(h)
      PROVE  StartupTypeOK'
  BY <1>2 DEF initCIDRMap
<1>3. ASSUME NEW p \in ports, initPortMap(p)
      PROVE  StartupTypeOK'
  BY <1>3 DEF initPortMap
<1>4. CASE initStatsMap
  BY <1>4 DEF initStatsMap
<1>5. CASE AttachSocket \/ AttachEnd
  BY <1>5 DEF AttachSocket, openRawSock, AttachEnd
<1>6. CASE CloseSocket \/ CloseCollection
  BY <1>6 DEF CloseSocket, CloseCollection
<1>7. CASE Signal \/ StartupFatal
  BY <1>7 DEF Signal, StartupFatal, Running
<1> QED
  BY <1>1, <1>2, <1>3, <1>4, <1>5, <1>6, <1>7 DEF StartStep, CloseStep

(* The process starts with no goroutine and no collection.                 *)
LEMMA LifecycleStart == LifecycleInit => LifecycleInv
<1> SUFFICES ASSUME LifecycleInit PROVE LifecycleInv
  OBVIOUS
<1>1. ticks \in [Tickers -> {0, 1}] /\ wg \in 0 .. 4 /\ toSend \in 0 .. MaxIncs
  BY LifecycleAssumption DEF LifecycleInit
<1>2. cancelled \in BOOLEAN /\ snapshotsClosed \in BOOLEAN
  BY Zenon DEF LifecycleInit
<1>3. go \in [Goroutines -> {"unborn", "select", "body", "read", "send", "closing",
                             "serving", "shutdown", "done"}]
  BY DEF LifecycleInit
<1>4. LifecycleTypeOK
  BY <1>1, <1>2, <1>3, StartupTypes DEF LifecycleInit, LifecycleTypeOK
<1>5. WaitGroupCounts /\ Phases /\ MapsInUse
  BY DEF LifecycleInit, StartupInit, WaitGroupCounts, Live, Phases, MapsInUse,
         Goroutines, Tickers
<1> QED
  BY <1>4, <1>5 DEF LifecycleInv

(* The steps of start-up and of the end of the data source.                *)
LEMMA MainStep ==
  ASSUME LifecycleInv, SignalStep \/ StartFailed \/ Start \/ Close
  PROVE  LifecycleInv'
<1>1. UNCHANGED goVars /\ (StartStep \/ CloseStep \/ Signal \/ StartupFatal)
  BY DEF SignalStep, StartFailed, Start, Close
<1>2. LifecycleTypeOK'
  BY <1>1, StartupStepTypes DEF LifecycleInv, LifecycleTypeOK, goVars
<1>3. WaitGroupCounts'
  BY <1>1 DEF LifecycleInv, WaitGroupCounts, Live, goVars
<1>4. Phases' /\ MapsInUse'
  <2> USE <1>1 DEF LifecycleInv, Phases, MapsInUse, goVars, startVars, Goto
  <2>1. CASE Signal \/ StartupFatal
    BY <2>1 DEF Signal, StartupFatal, Running
  <2>2. CASE StartStep
    BY <2>2 DEF StartStep, ParseFlags, Setrlimit, Notify, newEBPFConfig, initCIDRMap, initPortMap,
                initStatsMap, EndOfLoop, AfterLoop, AttachSocket, AttachEnd
  <2>3. CASE CloseSocket
    BY <2>3 DEF CloseSocket
  <2>4. CASE CloseCollection
    <3>1. \A g \in Tickers : Live(g) = 0
      BY <2>4 DEF CloseCollection, WaitGroupCounts, Live, Tickers
    <3> QED
      BY <2>4, <3>1 DEF CloseCollection, Live
  <2> QED
    BY <1>1, <2>1, <2>2, <2>3, <2>4 DEF CloseStep
<1> QED
  BY <1>2, <1>3, <1>4 DEF LifecycleInv

(* Every step keeps the invariant.                                         *)
LEMMA LifecycleStep ==
  ASSUME LifecycleInv, [LifecycleNext]_vars
  PROVE  LifecycleInv'
<1> USE LifecycleAssumption
    DEF LifecycleInv, LifecycleTypeOK, StartupTypeOK, WaitGroupCounts, Live, Phases, MapsInUse,
        Running, Goroutines, Tickers, Goto, mainVars, startVars, goVars,
        Move, Return
<1>0. CASE SignalStep \/ StartFailed \/ Start \/ Close
  BY <1>0, MainStep
<1>1. ASSUME NEW t \in Tickers, Ticker(t)
      PROVE  LifecycleInv'
  BY <1>1 DEF Ticker
<1>2. CASE Go
  BY <1>2 DEF Go
<1>3. CASE ReceiveSignal
  BY <1>3 DEF ReceiveSignal
<1>4. CASE Cancel
  BY <1>4 DEF Cancel
<1>5. CASE Wait
  BY <1>5 DEF Wait, AllReturned
<1>6. CASE Fatal
  BY <1>6 DEF Fatal
<1>7. CASE ConnectionsTick
  BY <1>7 DEF ConnectionsTick
<1>8. CASE ConnectionsBodyEnd
  BY <1>8 DEF ConnectionsBodyEnd
<1>9. CASE ConnectionsDone
  BY <1>9 DEF ConnectionsDone
<1>10. CASE ExecutionTick
  BY <1>10 DEF ExecutionTick
<1>11. CASE ExecutionRead
  BY <1>11 DEF ExecutionRead
<1>12. CASE ExecutionClose
  BY <1>12 DEF ExecutionClose
<1>13. CASE ExecutionDone
  BY <1>13 DEF ExecutionDone
<1>14. CASE ApplyInc
  BY <1>14 DEF ApplyInc, IncOffered
<1>15. CASE ApplySent
  BY <1>15 DEF ApplySent
<1>16. CASE ApplyZero
  BY <1>16 DEF ApplyZero, vars
<1>17. CASE ApplyDone
  BY <1>17 DEF ApplyDone
<1>18. CASE ServerShutdown
  BY <1>18 DEF ServerShutdown
<1>19. CASE ServerDone
  BY <1>19 DEF ServerDone
<1>20. CASE UNCHANGED vars
  BY <1>20 DEF vars
<1> QED
  BY <1>0, <1>1, <1>2, <1>3, <1>4, <1>5, <1>6, <1>7, <1>8, <1>9, <1>10, <1>11,
     <1>12, <1>13, <1>14, <1>15, <1>16, <1>17, <1>18, <1>19, <1>20
     DEF LifecycleNext, Ended

(* The invariant holds throughout.                                         *)
LEMMA LifecycleInvariant == LifecycleSpec => []LifecycleInv
<1>1. LifecycleInv /\ [LifecycleNext]_vars => LifecycleInv'
  BY LifecycleStep
<1> QED
  BY <1>1, LifecycleStart, PTL DEF LifecycleSpec

-----------------------------------------------------------------------------
(***************************************************************************)
(* Every variable of the process has its type: the counter of the          *)
(* WaitGroup, above all, never goes below zero, which would be a panic.    *)
(***************************************************************************)
THEOREM LifecycleTypeCorrect == LifecycleSpec => []LifecycleTypeOK
<1>1. LifecycleInv => LifecycleTypeOK
  BY DEF LifecycleInv
<1> QED
  BY <1>1, LifecycleInvariant, PTL

(***************************************************************************)
(* The data source is closed after the last goroutine that uses its maps   *)
(* has returned, and is set up before the first one is started.            *)
(***************************************************************************)
THEOREM NoUseAfterClose == LifecycleSpec => []MapsInUse
<1>1. LifecycleInv => MapsInUse
  BY DEF LifecycleInv
<1> QED
  BY <1>1, LifecycleInvariant, PTL

-----------------------------------------------------------------------------
(* The items of the flags that have been visited are in the maps, under    *)
(* keys that the maps take, and nothing else is in them.                   *)
VisitedCidrs ==
  /\ \A h \in AsSet(flags.r) \ cidrs :
       \E key \in parseIPSizeCIDR(h) : key \in config_cidrs /\ key.prefixlen <= AddressBits
  /\ \A key \in config_cidrs : \E h \in AsSet(flags.r) :
       key \in parseIPSizeCIDR(h) /\ key.prefixlen <= AddressBits

VisitedPorts ==
  /\ \A p \in AsSet(flags.p) \ ports : \E port \in parsePort(p) : port \in config_ports
  /\ \A port \in config_ports : \E p \in AsSet(flags.p) : port \in parsePort(p)

(* The loops end in their order, and sockets exist only between two ends.  *)
LoopsDone ==
  /\ main \in {"ports", "stats", "attach", "go", "signals", "cancel", "wait", "close", "exited"}
       => cidrs = {}
  /\ main \in {"stats", "attach", "go", "signals", "cancel", "wait", "close", "exited"}
       => ports = {}
  /\ main \in {"attach", "go", "signals", "cancel", "wait", "close", "exited"}
       => innerMaps = STATS_SECONDS_COUNT
  /\ main \in {"go", "signals", "cancel", "wait"} => iface = 0
  /\ main = "close" => \A i \in DOMAIN sockets : i < iface => sockets[i] # "attached"

Attached == \E i \in DOMAIN sockets : sockets[i] = "attached"

AttachedLate ==
  Attached =>
    /\ main \in {"attach", "go", "signals", "cancel", "wait", "close", "fatal"}
    /\ cidrs = {} /\ ports = {} /\ innerMaps = STATS_SECONDS_COUNT /\ coll = "loaded"

ConfigInv ==
  /\ LifecycleInv
  /\ VisitedCidrs
  /\ VisitedPorts
  /\ LoopsDone
  /\ AttachedLate

(* One item of a flag is put into its map.                                 *)
LEMMA CidrVisited ==
  ASSUME ConfigInv, NEW h \in cidrs, initCIDRMap(h)
  PROVE  VisitedCidrs'
<1>1. PICK key \in parseIPSizeCIDR(h) :
        key.prefixlen <= AddressBits /\ config_cidrs' = config_cidrs \cup {key}
  BY DEF initCIDRMap
<1>2. h \in AsSet(flags.r) /\ UNCHANGED flags /\ cidrs' = cidrs \ {h}
  BY DEF ConfigInv, LifecycleInv, LifecycleTypeOK, StartupTypeOK, initCIDRMap
<1>3. UNCHANGED AsSet(flags.r)
  BY <1>2
<1>4. ASSUME NEW g \in AsSet(flags.r) \ cidrs'
      PROVE  \E k \in parseIPSizeCIDR(g) : k \in config_cidrs' /\ k.prefixlen <= AddressBits
  <2>1. CASE g = h
    BY <1>1, <2>1
  <2>2. CASE g # h
    BY <1>1, <1>2, <2>2 DEF ConfigInv, VisitedCidrs
  <2> QED
    BY <2>1, <2>2
<1>5. ASSUME NEW k \in config_cidrs'
      PROVE  \E g \in AsSet(flags.r) : k \in parseIPSizeCIDR(g) /\ k.prefixlen <= AddressBits
  <2>1. CASE k = key
    BY <1>1, <1>2, <2>1
  <2>2. CASE k # key
    BY <1>1, <2>2 DEF ConfigInv, VisitedCidrs
  <2> QED
    BY <2>1, <2>2
<1> QED
  BY <1>3, <1>4, <1>5 DEF VisitedCidrs

LEMMA PortVisited ==
  ASSUME ConfigInv, NEW p \in ports, initPortMap(p)
  PROVE  VisitedPorts'
<1>1. PICK port \in parsePort(p) : config_ports' = config_ports \cup {port}
  BY DEF initPortMap
<1>2. p \in AsSet(flags.p) /\ UNCHANGED flags /\ ports' = ports \ {p}
  BY DEF ConfigInv, LifecycleInv, LifecycleTypeOK, StartupTypeOK, initPortMap
<1>3. UNCHANGED AsSet(flags.p)
  BY <1>2
<1>4. ASSUME NEW q \in AsSet(flags.p) \ ports'
      PROVE  \E k \in parsePort(q) : k \in config_ports'
  BY <1>1, <1>2 DEF ConfigInv, VisitedPorts
<1>5. ASSUME NEW k \in config_ports'
      PROVE  \E q \in AsSet(flags.p) : k \in parsePort(q)
  BY <1>1, <1>2 DEF ConfigInv, VisitedPorts
<1> QED
  BY <1>3, <1>4, <1>5 DEF VisitedPorts

(* Every step of main keeps the configuration as it is described.          *)
LEMMA ConfigStep ==
  ASSUME ConfigInv, [LifecycleNext]_vars
  PROVE  ConfigInv'
<1>1. LifecycleInv'
  BY LifecycleStep DEF ConfigInv
<1>2. ASSUME UNCHANGED startVars
      PROVE  VisitedCidrs' /\ VisitedPorts'
  BY <1>2 DEF ConfigInv, VisitedCidrs, VisitedPorts, startVars
<1>3. ASSUME UNCHANGED <<flags, cidrs, config_cidrs>>
      PROVE  VisitedCidrs'
  BY <1>3 DEF ConfigInv, VisitedCidrs
<1>4. ASSUME UNCHANGED <<flags, ports, config_ports>>
      PROVE  VisitedPorts'
  BY <1>4 DEF ConfigInv, VisitedPorts
<1> SUFFICES VisitedCidrs' /\ VisitedPorts' /\ LoopsDone' /\ AttachedLate'
  BY <1>1 DEF ConfigInv
<1>5. UNCHANGED mainVars => VisitedCidrs' /\ VisitedPorts' /\ LoopsDone' /\ AttachedLate'
  BY <1>2 DEF ConfigInv, LoopsDone, AttachedLate, Attached, mainVars, startVars
<1>6. CASE UNCHANGED startVars /\ (SignalStep \/ StartFailed \/ Fatal)
  BY <1>2, <1>6 DEF ConfigInv, LoopsDone, AttachedLate, Attached, startVars, SignalStep,
     StartFailed, Signal, StartupFatal, Fatal, Goto, Running
<1>7. CASE Go \/ ReceiveSignal \/ Cancel \/ Wait
  <2>1. UNCHANGED startVars
    BY <1>7 DEF Go, ReceiveSignal, Cancel, Wait
  <2>2. \/ main = "go" /\ main' = "signals"
        \/ main = "signals" /\ main' = "cancel"
        \/ main = "cancel" /\ main' = "wait"
        \/ main = "wait" /\ main' = "close"
    BY <1>7 DEF Go, ReceiveSignal, Cancel, Wait, Goto
  <2>3. AttachedLate'
    BY <2>1, <2>2 DEF ConfigInv, AttachedLate, Attached, startVars
  <2>4. \A i \in DOMAIN sockets : ~(i < 0)
    BY DEF ConfigInv, LifecycleInv, LifecycleTypeOK, StartupTypeOK
  <2>5. iface = 0
    BY <2>2 DEF ConfigInv, LoopsDone
  <2>6. LoopsDone'
    BY <2>1, <2>2, <2>4, <2>5 DEF ConfigInv, LoopsDone, startVars
  <2> QED
    BY <1>2, <2>1, <2>3, <2>6
<1>8. CASE ParseFlags \/ Setrlimit \/ Notify \/ EndOfLoop
  BY <1>2, <1>8 DEF ConfigInv, LoopsDone, AttachedLate, Attached, startVars, ParseFlags,
     Setrlimit, Notify, EndOfLoop, AfterLoop, Goto
<1>9. CASE newEBPFConfig
  BY <1>3, <1>4, <1>9 DEF ConfigInv, LoopsDone, AttachedLate, Attached, newEBPFConfig, Goto
<1>10. ASSUME NEW h \in cidrs, initCIDRMap(h)
       PROVE  VisitedCidrs' /\ VisitedPorts' /\ LoopsDone' /\ AttachedLate'
  BY <1>4, <1>10, CidrVisited DEF ConfigInv, LoopsDone, AttachedLate, Attached, initCIDRMap
<1>11. ASSUME NEW p \in ports, initPortMap(p)
       PROVE  VisitedCidrs' /\ VisitedPorts' /\ LoopsDone' /\ AttachedLate'
  BY <1>3, <1>11, PortVisited DEF ConfigInv, LoopsDone, AttachedLate, Attached, initPortMap
<1>12. CASE initStatsMap
  BY <1>3, <1>4, <1>12 DEF ConfigInv, LoopsDone, AttachedLate, Attached, initStatsMap
<1>13. CASE AttachSocket
  <2>1. /\ main = "attach" /\ coll = "loaded"
        /\ UNCHANGED <<main, cidrs, ports, innerMaps, coll>>
    BY <1>13 DEF ConfigInv, LifecycleInv, Phases, AttachSocket
  <2>2. LoopsDone' /\ AttachedLate'
    BY <2>1 DEF ConfigInv, LoopsDone, AttachedLate
  <2> QED
    BY <1>3, <1>4, <1>13, <2>2 DEF AttachSocket
<1>14. CASE AttachEnd
  BY <1>3, <1>4, <1>14 DEF ConfigInv, LoopsDone, AttachedLate, Attached, AttachEnd, Goto
<1>15. CASE CloseSocket
  BY <1>3, <1>4, <1>15 DEF ConfigInv, LifecycleInv, LifecycleTypeOK, StartupTypeOK, LoopsDone,
     AttachedLate, Attached, CloseSocket
<1>16. CASE CloseCollection
  BY <1>3, <1>4, <1>16 DEF ConfigInv, LifecycleInv, LifecycleTypeOK, StartupTypeOK, LoopsDone,
     AttachedLate, Attached, CloseCollection, Goto
<1>17. CASE SignalStep \/ StartFailed
  BY <1>6, <1>17 DEF SignalStep, StartFailed, Signal, StartupFatal
<1>18. CASE Fatal
  BY <1>6, <1>18 DEF Fatal
<1>19. CASE Start \/ Close
  BY <1>8, <1>9, <1>10, <1>11, <1>12, <1>13, <1>14, <1>15, <1>16, <1>19
     DEF Start, Close, StartStep, CloseStep
<1>20. CASE UNCHANGED mainVars
  BY <1>5, <1>20
<1>21. \/ UNCHANGED mainVars \/ SignalStep \/ StartFailed \/ Start \/ Close
       \/ Go \/ ReceiveSignal \/ Cancel \/ Wait \/ Fatal
  BY DEF LifecycleNext, vars, Ended, Ticker, ConnectionsTick, ConnectionsBodyEnd, ConnectionsDone,
     ExecutionTick, ExecutionRead, ExecutionClose, ExecutionDone, ApplyInc, ApplySent, ApplyZero,
     ApplyDone, ServerShutdown, ServerDone
<1> QED
  BY <1>7, <1>17, <1>18, <1>19, <1>20, <1>21

LEMMA ConfigStart == LifecycleInit => ConfigInv
<1> SUFFICES ASSUME LifecycleInit PROVE ConfigInv
  OBVIOUS
<1>1. VisitedCidrs /\ VisitedPorts
  BY DEF LifecycleInit, StartupInit, VisitedCidrs, VisitedPorts
<1>2. LoopsDone /\ AttachedLate
  BY DEF LifecycleInit, StartupInit, LoopsDone, AttachedLate, Attached
<1> QED
  BY <1>1, <1>2, LifecycleStart DEF ConfigInv

(* The key of an item matches the addresses that the item means.           *)
LEMMA KeyMeans ==
  ASSUME NEW h \in CidrItem, NEW key \in parseIPSizeCIDR(h), key.prefixlen <= AddressBits,
         NEW ip \in Addresses
  PROVE  Masked(ip, key.prefixlen) = key.ip <=> ip \in Meant(h)
<1>1. h.ip \in Addresses /\ h.size \in 0 .. AddressBits
  BY DEF CidrItem
<1>2. CASE h.form = "cidr4"
  <2>1. key.ip = {b \in h.ip : b < h.size} /\ key.prefixlen = h.size
    BY <1>2 DEF parseIPSizeCIDR, Masked
  <2>2. Meant(h) = {a \in Addresses : \A b \in 0 .. h.size - 1 : b \in a <=> b \in h.ip}
    BY <1>2 DEF Meant
  <2>3. ip \subseteq 0 .. AddressBits - 1 /\ h.ip \subseteq 0 .. AddressBits - 1
    BY <1>1 DEF Addresses
  <2>4. AddressBits \in Nat
    BY StartupAssumption
  <2>5. {b \in ip : b < h.size} = {b \in h.ip : b < h.size}
          <=> \A b \in 0 .. h.size - 1 : b \in ip <=> b \in h.ip
    BY <1>1, <2>3, <2>4
  <2> QED
    BY <2>1, <2>2, <2>5 DEF Masked
<1>3. CASE h.form \in {"ip4", "mapped_ip"}
  <2>1. key.ip = h.ip /\ key.prefixlen = AddressBits /\ Meant(h) = {h.ip}
    BY <1>3 DEF parseIPSizeCIDR, Meant
  <2>2. \A b \in ip : b < AddressBits
    BY StartupAssumption DEF Addresses
  <2>3. Masked(ip, AddressBits) = ip
    BY <2>2 DEF Masked
  <2> QED
    BY <2>1, <2>3
<1>4. CASE h.form = "mapped_cidr"
  <2>1. key.prefixlen = 96 + h.size
    BY <1>4 DEF parseIPSizeCIDR
  <2> QED
    BY <1>1, <2>1, StartupAssumption
<1>5. parseIPSizeCIDR(h) = {} \/ h.form \in {"cidr4", "mapped_cidr", "ip4", "mapped_ip"}
  BY DEF parseIPSizeCIDR
<1> QED
  BY <1>2, <1>3, <1>4, <1>5

(* What is meant are addresses.                                            *)
LEMMA MeantAddresses ==
  ASSUME NEW h \in CidrItem
  PROVE  Meant(h) \subseteq Addresses
BY DEF Meant, CidrItem

LEMMA ConfiguredWhenAttached == ConfigInv => AttachedIsConfigured
<1> SUFFICES ASSUME ConfigInv, Attached
             PROVE  /\ coll = "loaded" /\ innerMaps = STATS_SECONDS_COUNT
                    /\ Matched = UNION {Meant(h) : h \in AsSet(flags.r)}
                    /\ AsSet(flags.p) = {[form |-> "number", n |-> port] : port \in config_ports}
  BY DEF AttachedIsConfigured, Attached
<1>1. /\ coll = "loaded" /\ innerMaps = STATS_SECONDS_COUNT
      /\ cidrs = {} /\ ports = {}
  BY DEF ConfigInv, AttachedLate
<1>2. AsSet(flags.r) \subseteq CidrItem /\ AsSet(flags.p) \subseteq PortItem
  BY FlagsAssumption DEF ConfigInv, LifecycleInv, LifecycleTypeOK, StartupTypeOK, AsSet
<1>3. ASSUME NEW ip \in Matched
      PROVE  ip \in UNION {Meant(h) : h \in AsSet(flags.r)}
  <2>1. ip \in Addresses
    BY DEF Matched
  <2>2. PICK key \in config_cidrs : Masked(ip, key.prefixlen) = key.ip
    BY DEF Matched
  <2>3. PICK h \in AsSet(flags.r) : key \in parseIPSizeCIDR(h) /\ key.prefixlen <= AddressBits
    BY <2>2 DEF ConfigInv, VisitedCidrs
  <2> QED
    BY <1>2, <2>1, <2>2, <2>3, KeyMeans
<1>4. ASSUME NEW h \in AsSet(flags.r), NEW ip \in Meant(h)
      PROVE  ip \in Matched
  <2>1. PICK key \in parseIPSizeCIDR(h) : key \in config_cidrs /\ key.prefixlen <= AddressBits
    BY <1>1 DEF ConfigInv, VisitedCidrs
  <2>2. ip \in Addresses
    BY <1>2, MeantAddresses
  <2>3. Masked(ip, key.prefixlen) = key.ip
    BY <1>2, <2>1, <2>2, KeyMeans
  <2> QED
    BY <2>1, <2>2, <2>3 DEF Matched
<1>5. Matched = UNION {Meant(h) : h \in AsSet(flags.r)}
  BY <1>3, <1>4
<1>6. ASSUME NEW p \in PortItem, NEW port \in parsePort(p)
      PROVE  p = [form |-> "number", n |-> port]
  BY DEF parsePort, PortItem
<1>7. AsSet(flags.p) = {[form |-> "number", n |-> port] : port \in config_ports}
  BY <1>1, <1>2, <1>6 DEF ConfigInv, VisitedPorts
<1> QED
  BY <1>1, <1>5, <1>7

(***************************************************************************)
(* No socket runs the filter before it is configured, or after a part of   *)
(* the configuration was refused, or when its maps are gone: whatever the  *)
(* flags hold and whichever system calls fail, an attached socket takes    *)
(* exactly the addresses and the ports that the flags mean.                *)
(***************************************************************************)
THEOREM AttachedConfigured == LifecycleSpec => []AttachedIsConfigured
<1>1. ConfigInv /\ [LifecycleNext]_vars => ConfigInv'
  BY ConfigStep
<1> QED
  BY <1>1, ConfigStart, ConfiguredWhenAttached, PTL DEF LifecycleSpec
=============================================================================
