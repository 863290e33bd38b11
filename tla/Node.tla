-------------------------------- MODULE Node --------------------------------
(***************************************************************************)
(* The native side of the application (rust/src/jni_impl.rs, state.rs):    *)
(* the process-wide RUNTIME handle, the network thread of every node       *)
(* started, the trace poller and the two globals it updates, SYNC_STATUS   *)
(* and LATEST_TIP.  Each global has a mutex of its own, so a step touches  *)
(* one of them.  Actions here are composed with the view models in         *)
(* AmaruApp.  The amaru crate (bootstrap, build_and_run_network) is        *)
(* external: what it logs and when it fails is a choice.                   *)
(***************************************************************************)
EXTENDS Naturals, Sequences, FiniteSets

CONSTANTS
    MaxStarts,    \* bound: start_node calls that succeed
    MaxEvents     \* bound: trace events of interest, over the whole run

ASSUME NodeAssumption == MaxStarts \in Nat \ {0} /\ MaxEvents \in Nat

Instances == 1..MaxStarts

\* "snapshots" stands for Downloading snapshot and Importing snapshot(s):
\* each sets a status of its own, which the screen shows as progress.
BootEvents == <<"snapshots", "Imported snapshots">>

\* "new_tip" stands for starting, track_peers.syncing.new_tip and the
\* forward_chain events, which are processed alike.
TipEvents == {"new_tip", "caught_up"}

\* "Snapshots" stands for DownloadingSnapshots and ImportingSnapshots.
Statuses == {"NotStarted", "Bootstrapping", "Snapshots", "Syncing", "CaughtUp"}

VARIABLES
    runtime,    \* RUNTIME: the node whose Arc it holds, 0 for None
    started,    \* how many nodes have been started
    net,        \* net[k]: where the network thread of node k stands
    logged,     \* logged[k]: how many of BootEvents node k has logged
    booted,     \* booted[k]: its bootstrap returned Ok
    db,         \* the node that has the databases open, 0 for none
    ledger,     \* the entries of the directory ledger.db
    emitted,    \* trace events so far; an event's number stands for its slot
    queue,      \* JsonTraceCollector: events the poller has yet to process
    half,       \* the poller has set the tip of the event, not the status yet
    status,     \* SYNC_STATUS, and which event it comes from when CaughtUp
    tip         \* LATEST_TIP: the event it comes from (0 for None), is_syncing

threads == <<runtime, started, net, logged, booted, db, ledger>>
traces  == <<emitted, queue, half, status, tip>>
native  == <<threads, traces>>

NoTip == [of |-> 0, syncing |-> TRUE]

InitNode ==
    /\ runtime = 0 /\ started = 0
    /\ net = [k \in Instances |-> "none"]
    /\ logged = [k \in Instances |-> 0]
    /\ booted = [k \in Instances |-> FALSE]
    /\ db = 0 /\ ledger = {}
    /\ emitted = 0 /\ queue = <<>> /\ half = FALSE
    /\ status = [is |-> "NotStarted", of |-> 0]
    /\ tip = NoTip

-----------------------------------------------------------------------------
(* start_node and stop_node.                                               *)

\* Mutant: RUNTIME is not looked at before it is set.
StartNodeUnchecked ==
    /\ started < MaxStarts
    /\ started' = started + 1
    /\ runtime' = started'
    /\ net' = [net EXCEPT ![started'] = "spawned"]
    /\ UNCHANGED <<logged, booted, db, ledger, traces>>

\* Check and set under one hold of the lock, then spawn the network thread.
\* The first call's poller runs for ever; later calls install no collector
\* (set_global_default fails) and their pollers flush an empty one.
StartNode ==
    /\ runtime = 0
    /\ started < MaxStarts
    /\ started' = started + 1
    /\ runtime' = started'
    /\ net' = [net EXCEPT ![started'] = "spawned"]
    /\ UNCHANGED <<logged, booted, db, ledger, traces>>

\* The call returns -6.
StartRefused == runtime # 0 /\ UNCHANGED native

\* The call returns -4: no tokio runtime could be created.
StartErrs == runtime = 0 /\ UNCHANGED native

\* stop_node takes the handle out; the network thread has an Arc of its own.
StopNode ==
    /\ runtime' = 0
    /\ UNCHANGED <<started, net, logged, booted, db, ledger, traces>>

-----------------------------------------------------------------------------
(* The network thread of node k.                                           *)

Goto(k, from, to) == net[k] = from /\ net' = [net EXCEPT ![k] = to]

Log(name) ==
    /\ emitted < MaxEvents
    /\ emitted' = emitted + 1
    /\ queue' = Append(queue, [name |-> name, of |-> emitted'])
    /\ UNCHANGED <<half, status, tip>>

SetStatus(s) ==
    /\ status' = [is |-> s, of |-> 0]
    /\ UNCHANGED <<emitted, queue, half, tip>>

\* "Bootstrap if needed": unless ledger.db holds a file CURRENT.
NetBegin(k) ==
    /\ Goto(k, "spawned", IF "CURRENT" \in ledger THEN "config" ELSE "bootstrap")
    /\ SetStatus("Bootstrapping")
    /\ UNCHANGED <<runtime, started, logged, booted, db, ledger>>

BootLog(k) ==
    /\ net[k] = "bootstrap"
    /\ logged[k] < Len(BootEvents)
    /\ logged' = [logged EXCEPT ![k] = @ + 1]
    /\ Log(BootEvents[logged'[k]])
    /\ UNCHANGED <<runtime, started, net, booted, db, ledger>>

\* The ledger store keeps its database in live/ under ledger.db.
BootSucceeds(k) ==
    /\ Goto(k, "bootstrap", "config")
    /\ logged[k] = Len(BootEvents)
    /\ db = 0
    /\ booted' = [booted EXCEPT ![k] = TRUE]
    /\ logged' = [logged EXCEPT ![k] = 0]
    /\ ledger' = ledger \cup {"live"}
    /\ UNCHANGED <<runtime, started, db, traces>>

\* A failed bootstrap is only logged.
BootFails(k) ==
    /\ Goto(k, "bootstrap", "config")
    /\ logged' = [logged EXCEPT ![k] = 0]
    /\ UNCHANGED <<runtime, started, booted, db, ledger, traces>>

\* setup_amaru_config gives a configuration, or None and the thread ends.
Configure(k) ==
    /\ Goto(k, "config", "open")
    /\ SetStatus("Syncing")
    /\ UNCHANGED <<runtime, started, logged, booted, db, ledger>>

ConfigureFails(k) ==
    /\ Goto(k, "config", "done")
    /\ UNCHANGED <<runtime, started, logged, booted, db, ledger, traces>>

\* build_and_run_network: RocksDB lets one owner open a database.
NetRuns(k) ==
    /\ Goto(k, "open", "run")
    /\ db = 0
    /\ db' = k
    /\ UNCHANGED <<runtime, started, logged, booted, ledger, traces>>

NetFails(k) ==
    /\ Goto(k, "open", "done")
    /\ UNCHANGED <<runtime, started, logged, booted, db, ledger, traces>>

NetLog(k) ==
    /\ net[k] = "run"
    /\ \E name \in TipEvents : Log(name)
    /\ UNCHANGED threads

\* join returns: the thread ends, RUNTIME and the status stay.
NetEnds(k) ==
    /\ Goto(k, "run", "done")
    /\ db' = 0
    /\ UNCHANGED <<runtime, started, logged, booted, ledger, traces>>

NetStep(k) ==
    \/ NetBegin(k)
    \/ BootLog(k) \/ BootSucceeds(k) \/ BootFails(k)
    \/ Configure(k) \/ ConfigureFails(k)
    \/ NetRuns(k) \/ NetFails(k)
    \/ NetLog(k)
    \/ NetEnds(k)

-----------------------------------------------------------------------------
(* The poller: process_trace_event on the oldest event not yet processed.  *)

\* Mutant: the end of the import is not recognised.
StatusOfWithoutImported(name) ==
    IF name = "snapshots" THEN "Snapshots" ELSE "none"

\* The status an event's name sets; "none" for the other events.
StatusOf(name) ==
    CASE name = "snapshots"          -> "Snapshots"
      [] name = "Imported snapshots" -> "Syncing"
      [] OTHER -> "none"

ProcessStatus ==
    /\ queue # <<>>
    /\ Head(queue).name \notin TipEvents
    /\ status' = IF StatusOf(Head(queue).name) = "none" THEN status
                 ELSE [is |-> StatusOf(Head(queue).name), of |-> 0]
    /\ queue' = Tail(queue)
    /\ UNCHANGED <<threads, emitted, half, tip>>

\* Mutant: the status of a caught_up event is set before its tip.
ProcessStatusFirst ==
    /\ queue # <<>> /\ ~half
    /\ LET e == Head(queue) IN
          /\ e.name \in TipEvents
          /\ IF e.name = "caught_up"
             THEN /\ status' = [is |-> "CaughtUp", of |-> e.of]
                  /\ half' = TRUE /\ UNCHANGED <<tip, queue>>
             ELSE /\ tip' = [of |-> e.of, syncing |-> TRUE]
                  /\ queue' = Tail(queue) /\ UNCHANGED <<status, half>>
    /\ UNCHANGED <<threads, emitted>>

\* The first write of a tip event; caught_up has a second one.
ProcessTip ==
    /\ queue # <<>> /\ ~half
    /\ LET e == Head(queue) IN
          /\ e.name \in TipEvents
          /\ tip' = [of |-> e.of, syncing |-> e.name # "caught_up"]
          /\ half' = (e.name = "caught_up")
          /\ queue' = IF half' THEN queue ELSE Tail(queue)
    /\ UNCHANGED <<threads, emitted, status>>

\* Mutant: a caught_up event only sets the tip, as a syncing one does.
ProcessCaughtUpTipOnly ==
    /\ half
    /\ half' = FALSE
    /\ queue' = Tail(queue)
    /\ UNCHANGED <<threads, emitted, status, tip>>

ProcessCaughtUp ==
    /\ half
    /\ status' = [is |-> "CaughtUp", of |-> Head(queue).of]
    /\ half' = FALSE
    /\ queue' = Tail(queue)
    /\ UNCHANGED <<threads, emitted, tip>>

Poller == ProcessStatus \/ ProcessTip \/ ProcessCaughtUp

-----------------------------------------------------------------------------

\* The process is killed: only the disk remains.
KillNode ==
    /\ runtime' = 0
    /\ net' = [k \in Instances |-> IF net[k] = "none" THEN "none" ELSE "killed"]
    /\ db' = 0
    /\ queue' = <<>> /\ half' = FALSE
    /\ status' = [is |-> "NotStarted", of |-> 0]
    /\ tip' = NoTip
    /\ logged' = [k \in Instances |-> 0]
    /\ booted' = [k \in Instances |-> FALSE]
    /\ UNCHANGED <<started, ledger, emitted>>

NodeTypeOK ==
    /\ runtime \in 0..MaxStarts /\ started \in 0..MaxStarts
    /\ net \in [Instances -> {"none", "spawned", "bootstrap", "config", "open",
                              "run", "done", "killed"}]
    /\ logged \in [Instances -> 0..Len(BootEvents)]
    /\ booted \in [Instances -> BOOLEAN]
    /\ db \in 0..MaxStarts
    /\ ledger \subseteq {"live", "CURRENT"}
    /\ emitted \in 0..MaxEvents
    /\ half \in BOOLEAN
    /\ status \in [is : Statuses, of : 0..MaxEvents]
    /\ tip \in [of : 0..MaxEvents, syncing : BOOLEAN]

\* The nodes whose thread has been spawned and has not ended.
Alive == {k \in Instances : net[k] \notin {"none", "done", "killed"}}
=============================================================================
