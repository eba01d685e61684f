----------------------------- MODULE Lifecycle ------------------------------
(***************************************************************************)
(* The process from its start to its end: module Startup, the WaitGroup    *)
(* and the context of main (main.go), the goroutines TrackConnections and  *)
(* TrackExecutionTime (packet/packet.go), Apply and ListenAndServe         *)
(* (metrics/metrics.go), and the two unbuffered channels between them.     *)
(* What TrackConnections does with a tick is the subject of the module of  *)
(* that name; here it is the number of increments it has to send.          *)
(***************************************************************************)
EXTENDS Startup

CONSTANTS
  MaxIncs   \* bound on the increments sent for one tick

VARIABLES
  cancelled,         \* ctx.Done() is closed
  wg,                \* counter of the WaitGroup
  go,                \* goroutine -> where it is
  toSend,            \* increments TrackConnections still has to send in this tick
  ticks,             \* goroutine -> ticks in the channel of its ticker
  snapshotsClosed    \* the channel snapshots is closed

mainVars == <<main, pending, startVars>>

goVars == <<cancelled, wg, go, toSend, ticks, snapshotsClosed>>

vars == <<mainVars, goVars>>

ASSUME LifecycleAssumption == MaxIncs \in Nat

Tickers == {"trackConnections", "trackExecution"}

Goroutines == Tickers \cup {"apply", "server"}

LifecycleTypeOK ==
  /\ StartupTypeOK
  /\ cancelled \in BOOLEAN /\ snapshotsClosed \in BOOLEAN
  /\ wg \in 0 .. 4
  /\ go \in [Goroutines -> {"unborn", "select", "body", "read", "send", "closing",
                            "serving", "shutdown", "done"}]
  /\ toSend \in 0 .. MaxIncs
  /\ ticks \in [Tickers -> {0, 1}]

LifecycleInit ==
  /\ StartupInit
  /\ cancelled = FALSE /\ wg = 0
  /\ go = [g \in Goroutines |-> "unborn"] /\ toSend = 0
  /\ ticks = [t \in Tickers |-> 0]
  /\ snapshotsClosed = FALSE

-----------------------------------------------------------------------------
(* main: wg.Add(4) and the four go statements; ...                            *)
Go ==
  /\ main = "go"
  /\ Goto("signals")
  /\ wg' = 4
  /\ go' = [g \in Goroutines |-> IF g = "server" THEN "serving" ELSE "select"]
  /\ UNCHANGED <<startVars, cancelled, toSend, ticks, snapshotsClosed>>

(* ... a signal is received, the context is cancelled, and the goroutines  *)
(* are waited for before the deferred Close of module Startup.             *)
ReceiveSignal ==
  /\ main = "signals" /\ pending
  /\ main' = "cancel" /\ pending' = FALSE
  /\ UNCHANGED <<startVars, goVars>>

Cancel ==
  /\ main = "cancel"
  /\ Goto("wait")
  /\ cancelled' = TRUE
  /\ UNCHANGED <<startVars, wg, go, toSend, ticks, snapshotsClosed>>

(***************************************************************************)
(* A deliberately wrong AllReturned: one goroutine is not waited for.      *)
(***************************************************************************)
AllButOneReturned == wg <= 1

(* wg.Wait() returns.                                                      *)
AllReturned == wg = 0

Wait ==
  /\ main = "wait" /\ AllReturned
  /\ Goto("close")
  /\ UNCHANGED <<startVars, goVars>>

(* klog.Fatal, when the histogram cannot be read or the server does not    *)
(* run, or the panic of TrackConnections, which module Exporter is about.  *)
Fatal ==
  /\ Running
  /\ \/ go["trackExecution"] = "read" \/ go["server"] = "serving"
     \/ go["trackConnections"] = "body"
  /\ Goto("fatal")
  /\ UNCHANGED <<startVars, goVars>>

-----------------------------------------------------------------------------
(* A second passes (external: time.Ticker); a full channel drops the tick. *)
Ticker(t) ==
  /\ Running /\ go[t] # "unborn"
  /\ ticks' = [ticks EXCEPT ![t] = 1]
  /\ UNCHANGED <<mainVars, cancelled, wg, go, toSend, snapshotsClosed>>

(* A goroutine goes on, or returns with the deferred wg.Done().            *)
Move(g, from, to) ==
  /\ Running /\ go[g] = from
  /\ go' = [go EXCEPT ![g] = to]

(***************************************************************************)
(* A deliberately wrong Return without wg.Done().                          *)
(***************************************************************************)
ReturnUncounted(g, from) == Move(g, from, "done") /\ UNCHANGED wg

Return(g, from) == Move(g, from, "done") /\ wg' = wg - 1

(* TrackConnections: select between a tick and the end.                    *)
ConnectionsTick ==
  /\ Move("trackConnections", "select", "body")
  /\ ticks["trackConnections"] = 1
  /\ ticks' = [ticks EXCEPT !["trackConnections"] = 0]
  /\ toSend' \in 0 .. MaxIncs
  /\ UNCHANGED <<mainVars, cancelled, wg, snapshotsClosed>>

ConnectionsBodyEnd ==
  /\ Move("trackConnections", "body", "select") /\ toSend = 0
  /\ UNCHANGED <<mainVars, cancelled, wg, toSend, ticks, snapshotsClosed>>

ConnectionsDone ==
  /\ Return("trackConnections", "select") /\ cancelled
  /\ UNCHANGED <<mainVars, cancelled, toSend, ticks, snapshotsClosed>>

(* TrackExecutionTime: the same, with one snapshot to read and to send per *)
(* tick; on return the channel is closed first.                            *)
ExecutionTick ==
  /\ Move("trackExecution", "select", "read")
  /\ ticks["trackExecution"] = 1
  /\ ticks' = [ticks EXCEPT !["trackExecution"] = 0]
  /\ UNCHANGED <<mainVars, cancelled, wg, toSend, snapshotsClosed>>

ExecutionRead ==
  /\ Move("trackExecution", "read", "send")
  /\ UNCHANGED <<mainVars, cancelled, wg, toSend, ticks, snapshotsClosed>>

ExecutionClose ==
  /\ Move("trackExecution", "select", "closing") /\ cancelled
  /\ snapshotsClosed' = TRUE
  /\ UNCHANGED <<mainVars, cancelled, wg, toSend, ticks>>

ExecutionDone ==
  /\ Return("trackExecution", "closing")
  /\ UNCHANGED <<mainVars, cancelled, toSend, ticks, snapshotsClosed>>

-----------------------------------------------------------------------------
(***************************************************************************)
(* A deliberately wrong IncOffered that does not wait for a sender.        *)
(***************************************************************************)
IncOfferedAlways == go["trackConnections"] = "body"

(***************************************************************************)
(* A deliberately wrong IncOffered that leaves the last increment.         *)
(***************************************************************************)
IncOfferedButLast == go["trackConnections"] = "body" /\ toSend > 1

(* TrackConnections is at incs <- inc.                                     *)
IncOffered == go["trackConnections"] = "body" /\ toSend > 0

(* Apply: select between the end, an increment and a snapshot.             *)
ApplyInc ==
  /\ Running /\ go["apply"] = "select" /\ IncOffered
  /\ toSend' = toSend - 1
  /\ UNCHANGED <<mainVars, cancelled, wg, go, ticks, snapshotsClosed>>

ApplySent ==
  /\ Move("trackExecution", "send", "select") /\ go["apply"] = "select"
  /\ UNCHANGED <<mainVars, cancelled, wg, toSend, ticks, snapshotsClosed>>

(* A closed channel is always ready; what Apply makes of the zero value is *)
(* the subject of module Histogram. It is back at its select.              *)
ApplyZero ==
  /\ Running /\ go["apply"] = "select" /\ snapshotsClosed
  /\ UNCHANGED vars

ApplyDone ==
  /\ Return("apply", "select") /\ cancelled
  /\ UNCHANGED <<mainVars, cancelled, toSend, ticks, snapshotsClosed>>

(* ListenAndServe: a goroutine of its own waits for the end and shuts the  *)
(* server down (external: net/http), upon which the server returns.        *)
ServerShutdown ==
  /\ Move("server", "serving", "shutdown") /\ cancelled
  /\ UNCHANGED <<mainVars, cancelled, wg, toSend, ticks, snapshotsClosed>>

ServerDone ==
  /\ Return("server", "shutdown")
  /\ UNCHANGED <<mainVars, cancelled, toSend, ticks, snapshotsClosed>>

-----------------------------------------------------------------------------
SignalStep  == Signal /\ UNCHANGED goVars
StartFailed == StartupFatal /\ UNCHANGED goVars
Start       == StartStep /\ UNCHANGED goVars
Close       == CloseStep /\ UNCHANGED goVars
Ended       == ~Running /\ UNCHANGED vars

LifecycleNext ==
  \/ SignalStep \/ StartFailed \/ Start \/ Close
  \/ Go \/ ReceiveSignal \/ Cancel \/ Wait \/ Fatal
  \/ \E t \in Tickers : Ticker(t)
  \/ ConnectionsTick \/ ConnectionsBodyEnd \/ ConnectionsDone
  \/ ExecutionTick \/ ExecutionRead \/ ExecutionClose \/ ExecutionDone
  \/ ApplyInc \/ ApplySent \/ ApplyZero \/ ApplyDone
  \/ ServerShutdown \/ ServerDone
  \/ Ended

(***************************************************************************)
(* main and the goroutines are scheduled, and the tickers tick. A select   *)
(* chooses among the ready cases at random, so the end, which is ready     *)
(* whenever a tracker comes back to its select, is chosen at last. No      *)
(* signal need ever come. Start-up comes to its end: an item that is       *)
(* refused leaves only klog.Fatal.                                         *)
(***************************************************************************)
LifecycleFairness ==
  /\ WF_vars(Start \/ StartFailed) /\ WF_vars(Close)
  /\ WF_vars(Go \/ ReceiveSignal \/ Cancel \/ Wait)
  /\ \A t \in Tickers : WF_vars(Ticker(t))
  /\ WF_vars(ConnectionsTick \/ ConnectionsBodyEnd) /\ SF_vars(ConnectionsDone)
  /\ WF_vars(ExecutionTick \/ ExecutionRead \/ ExecutionDone) /\ SF_vars(ExecutionClose)
  /\ WF_vars(ApplyInc) /\ WF_vars(ApplySent) /\ WF_vars(ApplyDone)
  /\ WF_vars(ServerShutdown \/ ServerDone)

LifecycleSpec == LifecycleInit /\ [][LifecycleNext]_vars /\ LifecycleFairness

-----------------------------------------------------------------------------
(* Properties.                                                             *)

(***************************************************************************)
(* The maps of the data source are there whenever a goroutine may use      *)
(* them: it is set up before the trackers are started, and closed when the *)
(* WaitGroup says that they have returned, all of them.                    *)
(***************************************************************************)
MapsInUse ==
  \A t \in Tickers : go[t] \notin {"unborn", "done"} => coll = "loaded"

(***************************************************************************)
(* Until a signal comes, Apply serves both senders: neither stays blocked  *)
(* on its channel.                                                         *)
(***************************************************************************)
SendersServed ==
  /\ (go["trackConnections"] = "body" /\ ~cancelled)
       ~> (go["trackConnections"] = "select" \/ cancelled \/ ~Running)
  /\ (go["trackExecution"] = "send" /\ ~cancelled)
       ~> (go["trackExecution"] = "select" \/ cancelled \/ ~Running)

(* A goroutine is sending to a channel from which nobody receives anymore. *)
SenderAbandoned ==
  go["apply"] = "done" /\ (IncOffered \/ go["trackExecution"] = "send")

(***************************************************************************)
(* A signal that comes while the process is still being started is not     *)
(* lost, and one that comes later is acted upon: the process ends, unless  *)
(* Apply returns while a goroutine still has something to send. That is    *)
(* the only way for it to hang.                                            *)
(***************************************************************************)
EndsUnlessAbandoned == pending ~> (~Running \/ SenderAbandoned)

(***************************************************************************)
(* main.go: "Initiating a graceful shutdown." After a signal the process   *)
(* ends.                                                                   *)
(***************************************************************************)
GracefulShutdown == cancelled ~> ~Running
=============================================================================
