--------------------------- MODULE AmaruAppProofs ---------------------------
(***************************************************************************)
(* Proofs about the application: whatever the interleaving of view models, *)
(* network threads, the poller and kills, every live node is accounted     *)
(* for, a start is refused only after a race, and a screen that says the   *)
(* node has caught up shows a tip at least as recent as that.              *)
(***************************************************************************)
EXTENDS AmaruApp, TLAPS

Names == {"snapshots", "Imported snapshots", "new_tip", "caught_up"}
Event == [name : Names, of : 1..MaxEvents]

UiType ==
    [kind : {"loading", "starting", "progress", "connecting", "success",
             "refused", "error"},
     status : [is : Statuses, of : 0..MaxEvents],
     tip : [of : 0..MaxEvents, syncing : BOOLEAN]]

TypeInv == TypeOK /\ queue \in Seq(Event) /\ ui \in UiType

\* The events wait in the order of their numbers; the tip is not past any of
\* them, and it is the first one's while a caught_up event is half processed.
QueueInv ==
    /\ tip.of <= emitted
    /\ \A i \in 1..Len(queue) :
          /\ tip.of <= queue[i].of /\ queue[i].of <= emitted
          /\ \A j \in 1..Len(queue) : i < j => queue[i].of < queue[j].of
    /\ half => /\ queue # <<>>
               /\ queue[1].name = "caught_up" /\ tip.of = queue[1].of

\* No status is of a later event than the tip: neither the global one nor,
\* although it was read at another time, the one on the screen.
FreshInv ==
    /\ status.of <= tip.of
    /\ read.of <= tip.of
    /\ ui.status.of <= ui.tip.of

\* Unless a view model was cleared during its start call, the handle is the
\* open view model's, which has had the answer to its own.
RaceInv ==
    /\ \A v \in Views : v > opened => view[v] = "none"
    /\ \A v \in Views : view[v] # "none" /\ ~cleared[v] => v = opened
    /\ \A v \in Views : view[v] = "starting" /\ cleared[v] => raced
    /\ runtime # 0 /\ ~raced =>
          /\ opened \in Views /\ ~cleared[opened]
          /\ view[opened] \in {"poll", "read"}
    /\ ui.kind = "refused" => raced

\* A node that has logged the first event of its bootstrap, and has not, or
\* will never, log the last.
Halfway(k) ==
    \/ net[k] = "bootstrap" /\ logged[k] = 1
    \/ net[k] \in {"config", "open", "run", "done"} /\ ~booted[k]

BootInv ==
    \A k \in Instances :
        /\ k > started => net[k] = "none"
        /\ net[k] \in {"none", "spawned", "bootstrap"} => ~booted[k]

\* Some later event sets the status again.
Superseded(i) ==
    \E j \in 1..Len(queue) : i < j /\ queue[j].name = "Imported snapshots"

EventsInv ==
    (\A k \in Instances : ~Halfway(k)) =>
        \A i \in 1..Len(queue) : queue[i].name = "snapshots" => Superseded(i)

\* All bootstraps have succeeded: the status is that of a running node, or
\* will be set by an event that waits.
Sessions == {k \in Instances : net[k] \notin {"none", "killed"}}
AllBooted ==
    /\ Sessions # {}
    /\ \A k \in Sessions : booted[k] /\ net[k] \in {"open", "run"}
BootEventWaits == \E i \in 1..Len(queue) : queue[i].name \notin TipEvents
Settled == status.is \in {"Syncing", "CaughtUp"}

SettleInv == BootInv /\ EventsInv /\ (AllBooted => Settled \/ BootEventWaits)

IInv ==
    /\ TypeInv /\ QueueInv /\ FreshInv /\ AliveIsAccountedFor /\ RaceInv
    /\ SettleInv

-----------------------------------------------------------------------------
(* What the actions have in common.                                        *)

\* A node's threads that move on stay where they may be.
LEMMA GotoType ==
    ASSUME NodeTypeOK, NEW k \in Instances, NEW from,
           NEW to \in {"none", "spawned", "bootstrap", "config", "open", "run",
                       "done", "killed"},
           Goto(k, from, to)
    PROVE  net' \in [Instances -> {"none", "spawned", "bootstrap", "config",
                                   "open", "run", "done", "killed"}]
BY DEF NodeTypeOK, Goto

\* Logging an event.
LEMMA LogType ==
    ASSUME NodeTypeOK, queue \in Seq(Event), NEW name \in Names, Log(name)
    PROVE  /\ emitted' \in 1..MaxEvents
           /\ queue' \in Seq(Event)
           /\ half' = half /\ status' = status /\ tip' = tip
<1>1. emitted' = emitted + 1 /\ emitted' \in 1..MaxEvents
  BY NodeAssumption DEF NodeTypeOK, Log
<1>2. [name |-> name, of |-> emitted'] \in Event
  BY <1>1 DEF Event
<1>. QED  BY <1>1, <1>2 DEF Log

\* The number of the last event of a bootstrap.
LEMMA BootLength == Len(BootEvents) = 2
BY DEF BootEvents

LEMMA StartNodeType ==
    ASSUME NodeTypeOK, queue \in Seq(Event), StartNode
    PROVE  NodeTypeOK' /\ queue' \in Seq(Event)
<1>1. started' \in Instances
  BY NodeAssumption DEF NodeTypeOK, StartNode, Instances
<1>2. net' \in [Instances -> {"none", "spawned", "bootstrap", "config", "open",
                              "run", "done", "killed"}]
  BY <1>1 DEF NodeTypeOK, StartNode
<1>3. started' \in 0..MaxStarts /\ runtime' \in 0..MaxStarts
  BY <1>1 DEF StartNode, Instances
<1>. QED  BY <1>2, <1>3 DEF NodeTypeOK, StartNode, traces

LEMMA NetStepType ==
    ASSUME NodeTypeOK, queue \in Seq(Event), NEW k \in Instances, NetStep(k)
    PROVE  NodeTypeOK' /\ queue' \in Seq(Event)
<1>0. /\ "Bootstrapping" \in Statuses /\ "Syncing" \in Statuses
      /\ 0 \in 0..MaxEvents
  BY NodeAssumption DEF Statuses
<1>1. CASE NetBegin(k)
  <2>1. Goto(k, "spawned", "config") \/ Goto(k, "spawned", "bootstrap")
    BY <1>1 DEF NetBegin
  <2>2. net' \in [Instances -> {"none", "spawned", "bootstrap", "config", "open",
                                "run", "done", "killed"}]
    BY <2>1, GotoType
  <2>. QED  BY <1>0, <1>1, <2>2 DEF NetBegin, SetStatus, NodeTypeOK
<1>2. CASE BootLog(k)
  <2>1. logged[k] \in 0..1 /\ logged' = [logged EXCEPT ![k] = logged[k] + 1]
    BY <1>2, BootLength DEF BootLog, NodeTypeOK
  <2>2. logged' \in [Instances -> 0..Len(BootEvents)] /\ logged'[k] \in 1..2
    BY <2>1, BootLength DEF NodeTypeOK
  <2>3. BootEvents[logged'[k]] \in Names
    <3>1. BootEvents[1] \in Names /\ BootEvents[2] \in Names
      BY DEF BootEvents, Names
    <3>2. logged'[k] = 1 \/ logged'[k] = 2
      BY <2>2
    <3>. QED  BY <3>1, <3>2
  <2>4. /\ emitted' \in 1..MaxEvents /\ queue' \in Seq(Event)
        /\ half' = half /\ status' = status /\ tip' = tip
    BY <1>2, <2>3, LogType DEF BootLog
  <2>. QED  BY <1>2, <2>2, <2>4 DEF BootLog, NodeTypeOK
<1>3. CASE BootSucceeds(k)
  <2>1. net' \in [Instances -> {"none", "spawned", "bootstrap", "config", "open",
                                "run", "done", "killed"}]
    BY <1>3, GotoType DEF BootSucceeds
  <2>2. /\ logged' \in [Instances -> 0..Len(BootEvents)]
        /\ booted' \in [Instances -> BOOLEAN]
    BY <1>3, BootLength DEF BootSucceeds, NodeTypeOK
  <2>3. ledger' \subseteq {"live", "CURRENT"}
    BY <1>3 DEF BootSucceeds, NodeTypeOK
  <2>. QED  BY <1>3, <2>1, <2>2, <2>3 DEF BootSucceeds, NodeTypeOK, traces
<1>4. CASE BootFails(k)
  <2>1. net' \in [Instances -> {"none", "spawned", "bootstrap", "config", "open",
                                "run", "done", "killed"}]
    BY <1>4, GotoType DEF BootFails
  <2>2. /\ logged' \in [Instances -> 0..Len(BootEvents)]
        /\ booted' \in [Instances -> BOOLEAN]
    BY <1>4, BootLength DEF BootFails, NodeTypeOK
  <2>3. ledger' \subseteq {"live", "CURRENT"}
    BY <1>4 DEF BootFails, NodeTypeOK
  <2>. QED  BY <1>4, <2>1, <2>2, <2>3 DEF BootFails, NodeTypeOK, traces
<1>5. CASE Configure(k)
  <2>1. net' \in [Instances -> {"none", "spawned", "bootstrap", "config", "open",
                                "run", "done", "killed"}]
    BY <1>5, GotoType DEF Configure
  <2>. QED  BY <1>0, <1>5, <2>1 DEF Configure, SetStatus, NodeTypeOK
<1>6. CASE ConfigureFails(k) \/ NetRuns(k) \/ NetFails(k) \/ NetEnds(k)
  <2>1. net' \in [Instances -> {"none", "spawned", "bootstrap", "config", "open",
                                "run", "done", "killed"}]
    BY <1>6, GotoType DEF ConfigureFails, NetRuns, NetFails, NetEnds
  <2>2. db' \in 0..MaxStarts
    BY <1>6, NodeAssumption
    DEF ConfigureFails, NetRuns, NetFails, NetEnds, NodeTypeOK, Instances
  <2>. QED  BY <1>6, <2>1, <2>2
            DEF ConfigureFails, NetRuns, NetFails, NetEnds, NodeTypeOK, traces
<1>7. CASE NetLog(k)
  <2>1. PICK name \in TipEvents : Log(name)
    BY <1>7 DEF NetLog
  <2>2. name \in Names
    BY <2>1 DEF TipEvents, Names
  <2>3. /\ emitted' \in 1..MaxEvents /\ queue' \in Seq(Event)
        /\ half' = half /\ status' = status /\ tip' = tip
    BY <2>1, <2>2, LogType
  <2>. QED  BY <1>7, <2>3 DEF NetLog, NodeTypeOK, threads
<1>. QED  BY <1>1, <1>2, <1>3, <1>4, <1>5, <1>6, <1>7 DEF NetStep

LEMMA PollerType ==
    ASSUME NodeTypeOK, queue \in Seq(Event), Poller,
           half => queue # <<>>
    PROVE  NodeTypeOK' /\ queue' \in Seq(Event)
<1>1. queue # <<>>
  BY DEF Poller, ProcessStatus, ProcessTip, ProcessCaughtUp
<1>2. Head(queue) \in Event /\ Tail(queue) \in Seq(Event)
  BY <1>1
<1>3. Head(queue).of \in 0..MaxEvents
  BY <1>2, NodeAssumption DEF Event
<1>4. CASE ProcessStatus
  <2>1. StatusOf(Head(queue).name) \in {"none", "Snapshots", "Syncing"}
    BY DEF StatusOf
  <2>2. status' \in [is : Statuses, of : 0..MaxEvents]
    BY <1>4, <2>1, NodeAssumption DEF ProcessStatus, NodeTypeOK, Statuses
  <2>. QED  BY <1>2, <1>4, <2>2 DEF ProcessStatus, NodeTypeOK, threads
<1>5. CASE ProcessTip
  <2>1. tip' \in [of : 0..MaxEvents, syncing : BOOLEAN] /\ half' \in BOOLEAN
    BY <1>3, <1>5 DEF ProcessTip
  <2>2. queue' \in Seq(Event)
    BY <1>2, <1>5 DEF ProcessTip
  <2>. QED  BY <1>5, <2>1, <2>2 DEF ProcessTip, NodeTypeOK, threads
<1>6. CASE ProcessCaughtUp
  BY <1>2, <1>3, <1>6 DEF ProcessCaughtUp, NodeTypeOK, threads, Statuses
<1>. QED  BY <1>4, <1>5, <1>6 DEF Poller

-----------------------------------------------------------------------------
(* The traces: what a step does to the events, the status and the tip.     *)

\* A step logs an event, sets the status, processes an event, or is a kill.
LEMMA TraceEffect ==
    ASSUME [Next]_vars
    PROVE  \/ UNCHANGED traces
           \/ \E name : Log(name) /\ UNCHANGED views
           \/ \E s : SetStatus(s) /\ UNCHANGED views
           \/ Poller /\ UNCHANGED views
           \/ Kill
<1>1. CASE Open
  BY <1>1 DEF Open, native
<1>2. ASSUME NEW v \in Views, ViewStep(v)
      PROVE  UNCHANGED traces
  BY <1>2 DEF ViewStep, StartBegins, StartCancelled, StartReturns, StartFails,
              StartNode, StartRefused, StartErrs, PollStatus, PollTip, PollCancelled,
              Clear, StopNode, native, traces
<1>3. ASSUME NEW k \in Instances, NetStep(k), UNCHANGED views
      PROVE  \/ UNCHANGED traces
             \/ \E name : Log(name) /\ UNCHANGED views
             \/ \E s : SetStatus(s) /\ UNCHANGED views
  BY <1>3 DEF NetStep, NetBegin, BootLog, BootSucceeds, BootFails, Configure,
              ConfigureFails, NetRuns, NetFails, NetLog, NetEnds, traces
<1>4. CASE UNCHANGED vars
  BY <1>4 DEF vars, native
<1>. QED  BY <1>1, <1>2, <1>3, <1>4 DEF Next

LEMMA QueueStep ==
    ASSUME TypeInv, QueueInv, [Next]_vars
    PROVE  QueueInv'
<1>0. /\ queue \in Seq(Event) /\ emitted \in Nat /\ tip.of \in Nat
      /\ \A i \in 1..Len(queue) : queue[i].of \in Nat
  <2>1. /\ queue \in Seq(Event) /\ emitted \in 0..MaxEvents
        /\ tip \in [of : 0..MaxEvents, syncing : BOOLEAN]
    BY DEF TypeInv, TypeOK, NodeTypeOK
  <2>2. \A e \in Event : e.of \in Nat
    BY NodeAssumption DEF Event
  <2>3. \A i \in 1..Len(queue) : queue[i] \in Event
    BY <2>1
  <2>. QED  BY <2>1, <2>2, <2>3, NodeAssumption
<1>1. CASE UNCHANGED traces
  <2>1. emitted' = emitted /\ queue' = queue /\ half' = half /\ tip' = tip
    BY <1>1 DEF traces
  <2>. QED  BY <2>1 DEF QueueInv
<1>2. ASSUME NEW name, Log(name)
      PROVE  QueueInv'
  <2> DEFINE e == [name |-> name, of |-> emitted + 1]
  <2>1. /\ emitted' = emitted + 1 /\ queue' = Append(queue, e)
        /\ half' = half /\ tip' = tip
    BY <1>2 DEF Log
  <2>2. /\ Len(queue') = Len(queue) + 1 /\ queue'[Len(queue) + 1] = e
        /\ \A i \in 1..Len(queue) : queue'[i] = queue[i]
    BY <1>0, <2>1
  <2>3. e.of = emitted + 1
    OBVIOUS
  <2>4. \A i \in 1..Len(queue') :
          /\ tip'.of <= queue'[i].of /\ queue'[i].of <= emitted'
          /\ \A j \in 1..Len(queue') : i < j => queue'[i].of < queue'[j].of
    BY <1>0, <2>1, <2>2, <2>3 DEF QueueInv
  <2>5. half => queue # <<>> /\ 1 \in 1..Len(queue) /\ queue' # <<>>
    BY <1>0, <2>1 DEF QueueInv
  <2>. QED  BY <1>0, <2>1, <2>2, <2>4, <2>5 DEF QueueInv
<1>3. ASSUME NEW s, SetStatus(s)
      PROVE  QueueInv'
  BY <1>3 DEF SetStatus, QueueInv
<1>4. CASE Poller
  <2>1. queue # <<>>
    BY <1>4 DEF Poller, ProcessStatus, ProcessTip, ProcessCaughtUp, QueueInv
  <2>2. /\ Head(queue) = queue[1] /\ 1 \in 1..Len(queue)
        /\ Len(Tail(queue)) = Len(queue) - 1
        /\ \A i \in 1..Len(Tail(queue)) : Tail(queue)[i] = queue[i + 1]
    BY <1>0, <2>1
  <2>3. ASSUME queue' = Tail(queue), emitted' = emitted, ~half',
               tip'.of \in {tip.of, queue[1].of}
        PROVE  QueueInv'
    <3>1. tip'.of <= emitted
      BY <1>0, <2>2, <2>3 DEF QueueInv
    <3>2. \A i \in 1..Len(queue') :
            /\ tip'.of <= queue'[i].of /\ queue'[i].of <= emitted'
            /\ \A j \in 1..Len(queue') : i < j => queue'[i].of < queue'[j].of
      <4>1. TAKE i \in 1..Len(queue')
      <4>2. i + 1 \in 1..Len(queue) /\ queue'[i] = queue[i + 1] /\ 1 < i + 1
        BY <1>0, <2>2, <2>3
      <4>3. tip'.of <= queue'[i].of /\ queue'[i].of <= emitted'
        BY <1>0, <2>2, <2>3, <4>2 DEF QueueInv
      <4>4. ASSUME NEW j \in 1..Len(queue'), i < j
            PROVE  queue'[i].of < queue'[j].of
        <5>1. j + 1 \in 1..Len(queue) /\ queue'[j] = queue[j + 1] /\ i + 1 < j + 1
          BY <1>0, <2>2, <2>3, <4>4
        <5>. QED  BY <4>2, <5>1 DEF QueueInv
      <4>. QED  BY <4>3, <4>4
    <3>. QED  BY <2>3, <3>1, <3>2 DEF QueueInv
  <2>4. CASE ProcessStatus
    <3>1. ~half
      BY <2>2, <2>4 DEF ProcessStatus, QueueInv, TipEvents
    <3>. QED  BY <2>3, <2>4, <3>1 DEF ProcessStatus
  <2>5. CASE ProcessTip /\ ~half'
    BY <2>2, <2>3, <2>5 DEF ProcessTip
  <2>6. CASE ProcessTip /\ half'
    <3>1. /\ queue' = queue /\ emitted' = emitted /\ tip'.of = queue[1].of
          /\ queue[1].name = "caught_up"
      BY <2>2, <2>6 DEF ProcessTip
    <3>2. \A i \in 1..Len(queue) : queue[1].of <= queue[i].of
      BY <1>0, <2>2 DEF QueueInv
    <3>. QED  BY <1>0, <2>1, <2>2, <3>1, <3>2 DEF QueueInv
  <2>7. CASE ProcessCaughtUp
    BY <2>3, <2>7 DEF ProcessCaughtUp
  <2>. QED  BY <1>4, <2>4, <2>5, <2>6, <2>7 DEF Poller
<1>5. CASE Kill
  <2>1. queue' = <<>> /\ ~half' /\ tip'.of = 0 /\ emitted' = emitted
    BY <1>5 DEF Kill, KillNode, NoTip
  <2>. QED  BY <1>0, <2>1 DEF QueueInv
<1>. QED  BY <1>1, <1>2, <1>3, <1>4, <1>5, TraceEffect

\* What processing an event does to the status and the tip.
LEMMA FreshStep ==
    ASSUME TypeInv, QueueInv, FreshInv, [Next]_vars
    PROVE  FreshInv'
<1>0. /\ status.of \in Nat /\ tip.of \in Nat /\ read.of \in Nat
      /\ queue \in Seq(Event)
      /\ \A i \in 1..Len(queue) : queue[i].of \in Nat
  <2>1. \A e \in Event : e.of \in Nat
    BY NodeAssumption DEF Event
  <2>2. queue \in Seq(Event)
    BY DEF TypeInv
  <2>3. \A i \in 1..Len(queue) : queue[i] \in Event
    BY <2>2
  <2>4. status.of \in Nat /\ tip.of \in Nat /\ read.of \in Nat
    BY NodeAssumption DEF TypeInv, TypeOK, NodeTypeOK
  <2>. QED  BY <2>1, <2>2, <2>3, <2>4
<1>1. /\ \A k : Plain(k).status.of = 0 /\ Plain(k).tip.of = 0
      /\ NoStatus.of = 0 /\ NoTip.of = 0
  BY DEF Plain, Ui, NoStatus, NoTip
\* A screen without a report, and unchanged globals.
<1>2. ASSUME status' = status, tip' = tip, read' \in {read, NoStatus},
             ui' = ui \/ \E k : ui' = Plain(k)
      PROVE  FreshInv'
  <2>1. read'.of <= tip.of
    BY <1>0, <1>1, <1>2 DEF FreshInv
  <2>2. ui'.status.of <= ui'.tip.of
    <3>1. CASE ui' = ui
      BY <3>1 DEF FreshInv
    <3>2. ASSUME NEW k, ui' = Plain(k)
          PROVE  ui'.status.of = 0 /\ ui'.tip.of = 0
      BY <1>1, <3>2
    <3>3. CASE ui'.status.of = 0 /\ ui'.tip.of = 0
      BY <3>3
    <3>. QED  BY <1>2, <3>1, <3>2, <3>3
  <2>. QED  BY <1>2, <2>1, <2>2 DEF FreshInv
<1>3. ASSUME NEW v \in Views, ViewStep(v)
      PROVE  FreshInv'
  <2>1. CASE StartBegins(v) \/ StartCancelled(v) \/ StartReturns(v) \/ StartFails(v)
    <3>1. /\ status' = status /\ tip' = tip /\ read' = read
          /\ ui' \in {ui, Plain("starting"), Plain("refused"),
                     Plain("error")}
      BY <2>1
      DEF StartBegins, StartCancelled, StartReturns, StartFails, StartNode,
          StartRefused, StartErrs, Shows, native, traces
    <3>. QED  BY <1>2, <3>1
  <2>2. CASE PollStatus(v)
    <3>1. /\ status' = status /\ tip' = tip /\ ui' = ui /\ read' = status
      BY <2>2 DEF PollStatus, native, traces
    <3>. QED  BY <3>1 DEF FreshInv
  <2>3. CASE PollTip(v)
    <3>1. \/ Display(read, tip) = Plain("progress")
          \/ /\ Display(read, tip).status = read
             /\ Display(read, tip).tip = tip
      BY DEF Display, Ui
    <3>2. /\ status' = status /\ tip' = tip
          /\ read' \in {read, NoStatus} /\ ui' \in {ui, Display(read, tip)}
      BY <2>3 DEF PollTip, Shows, native, traces
    <3>3. CASE ui' = ui \/ ui' = Plain("progress")
      BY <1>2, <3>2, <3>3
    <3>4. CASE ui'.status = read /\ ui'.tip = tip
      BY <1>0, <1>1, <3>2, <3>4 DEF FreshInv
    <3>. QED  BY <3>1, <3>2, <3>3, <3>4
  <2>4. CASE PollCancelled(v) \/ Clear(v)
    <3>1. /\ status' = status /\ tip' = tip /\ read' \in {read, NoStatus}
          /\ ui' \in {ui, Plain("loading")}
      BY <2>4 DEF PollCancelled, Clear, StopNode, Loading, native, traces
    <3>. QED  BY <1>2, <3>1
  <2>. QED  BY <1>3, <2>1, <2>2, <2>3, <2>4 DEF ViewStep
<1>4. CASE Open
  <2>1. status' = status /\ tip' = tip /\ read' = read /\ ui' = Plain("loading")
    BY <1>4 DEF Open, Loading, native, traces
  <2>. QED  BY <1>2, <2>1
<1>5. CASE Poller /\ UNCHANGED views
  <2>1. /\ queue # <<>> /\ Head(queue) = queue[1] /\ 1 \in 1..Len(queue)
    BY <1>0, <1>5 DEF Poller, ProcessStatus, ProcessTip, ProcessCaughtUp, QueueInv
  <2>2. read' = read /\ ui' = ui
    BY <1>5 DEF views
  <2>3. CASE ProcessStatus
    BY <1>0, <2>2, <2>3 DEF ProcessStatus, FreshInv
  <2>4. CASE ProcessTip
    <3>1. status' = status /\ tip'.of = queue[1].of /\ tip.of <= tip'.of
      BY <2>1, <2>4 DEF ProcessTip, QueueInv
    <3>. QED  BY <1>0, <2>1, <2>2, <3>1 DEF FreshInv
  <2>5. CASE ProcessCaughtUp
    <3>1. status'.of = queue[1].of /\ tip' = tip /\ tip.of = queue[1].of
      BY <2>1, <2>5 DEF ProcessCaughtUp, QueueInv
    <3>. QED  BY <1>0, <2>1, <2>2, <3>1 DEF FreshInv
  <2>. QED  BY <1>5, <2>3, <2>4, <2>5 DEF Poller
<1>6. CASE Kill
  <2>1. status'.of = 0 /\ tip'.of = 0 /\ read'.of = 0 /\ ui' = Plain("loading")
    BY <1>6 DEF Kill, KillNode, NoStatus, NoTip, Loading
  <2>2. ui'.status.of = 0 /\ ui'.tip.of = 0
    BY <1>1, <2>1
  <2>. QED  BY <2>1, <2>2 DEF FreshInv
<1>7. ASSUME NEW k \in Instances, NetStep(k), UNCHANGED views
      PROVE  FreshInv'
  <2>1. read' = read /\ ui' = ui /\ tip' = tip
    BY <1>7
    DEF NetStep, NetBegin, BootLog, BootSucceeds, BootFails, Configure,
        ConfigureFails, NetRuns, NetFails, NetLog, NetEnds, SetStatus, Log,
        traces, views
  <2>2. \/ status' = status
        \/ \E s : SetStatus(s)
    BY <1>7
    DEF NetStep, NetBegin, BootLog, BootSucceeds, BootFails, Configure,
        ConfigureFails, NetRuns, NetFails, NetLog, NetEnds, Log, traces
  <2>3. status' = status \/ status'.of = 0
    BY <2>2 DEF SetStatus
  <2>. QED  BY <1>0, <2>1, <2>3 DEF FreshInv
<1>8. CASE UNCHANGED vars
  BY <1>2, <1>8 DEF vars, native, traces, views
<1>. QED  BY <1>3, <1>4, <1>5, <1>6, <1>7, <1>8 DEF Next

-----------------------------------------------------------------------------
(* The nodes and the view models.                                          *)

\* A network thread's step starts no thread and leaves the handle alone.
LEMMA NetStepKeeps ==
    ASSUME NodeTypeOK, NEW k \in Instances, NetStep(k)
    PROVE  runtime' = runtime /\ Alive' \subseteq Alive
<1>1. runtime' = runtime
  BY DEF NetStep, NetBegin, BootLog, BootSucceeds, BootFails, Configure,
         ConfigureFails, NetRuns, NetFails, NetLog, NetEnds, threads
<1>2. \/ net' = net
      \/ /\ net[k] \in {"spawned", "bootstrap", "config", "open", "run"}
         /\ \E to : net' = [net EXCEPT ![k] = to]
  BY DEF NetStep, NetBegin, BootLog, BootSucceeds, BootFails, Configure,
         ConfigureFails, NetRuns, NetFails, NetLog, NetEnds, Goto, threads
<1>. QED  BY <1>1, <1>2 DEF Alive, NodeTypeOK

\* Clearing a view model takes the handle of a live node into account, and a
\* node starts only when there is none.
LEMMA AliveStep ==
    ASSUME TypeInv, AliveIsAccountedFor, [Next]_vars
    PROVE  AliveIsAccountedFor'
<1>0. 0 \notin Instances /\ NodeTypeOK
  BY DEF Instances, TypeInv, TypeOK
<1>1. ASSUME runtime' = runtime, net' = net, orphans' = orphans
      PROVE  AliveIsAccountedFor'
  BY <1>1 DEF AliveIsAccountedFor, Alive
<1>2. ASSUME NEW v \in Views, StartReturns(v)
      PROVE  AliveIsAccountedFor'
  <2>1. Alive' \subseteq Alive \cup {runtime'}
    BY <1>0, <1>2 DEF StartReturns, StartNode, Alive, NodeTypeOK
  <2>2. Alive \subseteq orphans
    BY <1>0, <1>2 DEF StartReturns, StartNode, AliveIsAccountedFor, Alive
  <2>3. orphans' = orphans
    BY <1>2 DEF StartReturns
  <2>. QED  BY <2>1, <2>2, <2>3 DEF AliveIsAccountedFor
<1>3. ASSUME NEW v \in Views, Clear(v)
      PROVE  AliveIsAccountedFor'
  <2>1. Alive' = Alive /\ orphans' = (orphans \cup {runtime}) \cap Alive
    BY <1>3 DEF Clear, StopNode, Alive
  <2>. QED  BY <2>1 DEF AliveIsAccountedFor
<1>4. ASSUME NEW v \in Views,
             \/ StartBegins(v) \/ StartCancelled(v) \/ StartFails(v)
             \/ PollStatus(v) \/ PollTip(v) \/ PollCancelled(v)
      PROVE  AliveIsAccountedFor'
  BY <1>1, <1>4
  DEF StartBegins, StartCancelled, StartFails, StartRefused, StartErrs, PollStatus,
      PollTip, PollCancelled, native, threads
<1>5. ASSUME NEW k \in Instances, NetStep(k), UNCHANGED views
      PROVE  AliveIsAccountedFor'
  BY <1>0, <1>5, NetStepKeeps DEF AliveIsAccountedFor, views
<1>6. CASE Poller /\ UNCHANGED views
  BY <1>1, <1>6
  DEF Poller, ProcessStatus, ProcessTip, ProcessCaughtUp, threads, views
<1>7. CASE Kill
  BY <1>0, <1>7 DEF Kill, KillNode, AliveIsAccountedFor, Alive, NodeTypeOK
<1>8. CASE Open \/ UNCHANGED vars
  BY <1>1, <1>8 DEF Open, vars, native, threads, views
<1>. QED  BY <1>2, <1>3, <1>4, <1>5, <1>6, <1>7, <1>8 DEF Next, ViewStep

\* A step that changes no view model and no handle.
LEMMA RaceKept ==
    ASSUME RaceInv, runtime' = runtime, UNCHANGED views
    PROVE  RaceInv'
BY DEF RaceInv, views

\* The view models one by one.
LEMMA RaceStep ==
    ASSUME TypeInv, RaceInv, [Next]_vars
    PROVE  RaceInv'
<1>0. /\ opened \in 0..MaxViews /\ MaxViews \in Nat /\ raced \in BOOLEAN
      /\ cleared \in [Views -> BOOLEAN]
      /\ view \in [Views -> {"none", "launched", "starting", "poll", "read",
                             "over"}]
      /\ NodeTypeOK
  BY ViewAssumption DEF TypeInv, TypeOK
<1>1. CASE Open
  <2>1. /\ opened' = opened + 1 /\ opened' \in Views
        /\ runtime' = runtime /\ raced' = raced /\ cleared' = cleared
        /\ view' = [view EXCEPT ![opened'] = "launched"] /\ ui'.kind # "refused"
    BY <1>0, <1>1 DEF Open, Views, native, threads, Loading, Plain, Ui
  <2>2. \A v \in 1..opened : v \in Views /\ cleared[v]
    BY <1>0, <1>1 DEF Open, Views
  <2>3. runtime # 0 => raced
    BY <1>0, <2>2 DEF RaceInv, Views
  <2>4. \A v \in Views : v > opened' => view'[v] = "none"
    BY <1>0, <2>1 DEF RaceInv, Views
  <2>5. \A v \in Views : view'[v] # "none" /\ ~cleared'[v] => v = opened'
    BY <1>0, <2>1, <2>2 DEF RaceInv, Views
  <2>6. \A v \in Views : view'[v] = "starting" /\ cleared'[v] => raced'
    BY <1>0, <2>1 DEF RaceInv
  <2>. QED  BY <2>1, <2>3, <2>4, <2>5, <2>6 DEF RaceInv
<1>2. ASSUME NEW v \in Views, ViewStep(v)
      PROVE  RaceInv'
  <2>1. CASE StartBegins(v) \/ StartCancelled(v)
    <3>1. /\ runtime' = runtime /\ raced' = raced /\ cleared' = cleared
          /\ opened' = opened /\ view[v] = "launched"
          /\ \E to : view' = [view EXCEPT ![v] = to] /\ (to = "starting" => ~cleared[v])
          /\ ui'.kind = ui.kind \/ ui'.kind # "refused"
      BY <2>1 DEF StartBegins, StartCancelled, Step, Shows, Plain, Ui, native, threads
    <3>. QED  BY <1>0, <3>1 DEF RaceInv
  <2>2. CASE StartReturns(v)
    <3>1. /\ raced' = raced /\ cleared' = cleared /\ opened' = opened /\ ui' = ui
          /\ view[v] = "starting"
          /\ view' = [view EXCEPT ![v] = IF cleared[v] THEN "over" ELSE "poll"]
      BY <2>2 DEF StartReturns, Step
    <3>2. CASE cleared[v]
      BY <1>0, <3>1, <3>2 DEF RaceInv
    <3>3. CASE ~cleared[v]
      BY <1>0, <3>1, <3>3 DEF RaceInv
    <3>. QED  BY <3>2, <3>3
  <2>3. CASE StartFails(v)
    <3>1. /\ raced' = raced /\ cleared' = cleared /\ opened' = opened
          /\ view[v] = "starting" /\ view' = [view EXCEPT ![v] = "over"]
          /\ runtime' = runtime
      BY <2>3 DEF StartFails, Step, StartRefused, StartErrs, native, threads
    <3>2. \/ runtime # 0
          \/ ui' = ui \/ ui'.kind # "refused"
      BY <2>3 DEF StartFails, StartRefused, StartErrs, Shows, Plain, Ui
    <3>3. raced \/ runtime = 0
      BY <3>1 DEF RaceInv
    <3>. QED  BY <1>0, <3>1, <3>2, <3>3 DEF RaceInv
  <2>4. CASE PollStatus(v) \/ PollTip(v) \/ PollCancelled(v)
    <3>1. /\ runtime' = runtime /\ raced' = raced /\ cleared' = cleared
          /\ opened' = opened /\ view[v] \in {"poll", "read"}
          /\ \E to \in {"poll", "read", "over"} :
                /\ view' = [view EXCEPT ![v] = to]
                /\ to = "over" => cleared[v]
      BY <2>4 DEF PollStatus, PollTip, PollCancelled, Step, native, threads
    <3>2. ui'.kind = ui.kind \/ ui'.kind # "refused"
      BY <2>4 DEF PollStatus, PollTip, PollCancelled, Shows, Display, Plain, Ui
    <3>. QED  BY <1>0, <3>1, <3>2 DEF RaceInv
  <2>5. CASE Clear(v)
    <3>1. /\ runtime' = 0 /\ raced' = (raced \/ view[v] = "starting")
          /\ cleared' = [cleared EXCEPT ![v] = TRUE]
          /\ opened' = opened /\ view' = view /\ ui'.kind # "refused"
      BY <2>5 DEF Clear, StopNode, Loading, Plain, Ui
    <3>. QED  BY <1>0, <3>1 DEF RaceInv
  <2>. QED  BY <1>2, <2>1, <2>2, <2>3, <2>4, <2>5 DEF ViewStep
<1>3. ASSUME NEW k \in Instances, NetStep(k), UNCHANGED views
      PROVE  RaceInv'
  BY <1>0, <1>3, NetStepKeeps, RaceKept
<1>4. CASE Poller /\ UNCHANGED views
  <2>1. runtime' = runtime
    BY <1>4 DEF Poller, ProcessStatus, ProcessTip, ProcessCaughtUp, threads
  <2>. QED  BY <1>4, <2>1, RaceKept
<1>5. CASE Kill
  <2>1. /\ runtime' = 0 /\ opened' = opened /\ ui'.kind # "refused"
        /\ cleared' = [v \in Views |-> v <= opened]
        /\ view' = [v \in Views |-> IF v <= opened THEN "over" ELSE "none"]
    BY <1>5 DEF Kill, KillNode, Loading, Plain, Ui
  <2>2. ASSUME NEW v \in Views
        PROVE  \/ v > opened /\ view'[v] = "none"
               \/ ~(v > opened) /\ view'[v] = "over" /\ cleared'[v]
    <3>1. v > opened <=> ~(v <= opened)
      BY <1>0 DEF Views
    <3>2. CASE v <= opened
      BY <2>1, <3>1, <3>2
    <3>3. CASE ~(v <= opened)
      BY <2>1, <3>1, <3>3
    <3>. QED  BY <3>2, <3>3
  <2>. QED  BY <2>1, <2>2 DEF RaceInv
<1>6. CASE UNCHANGED vars
  <2>1. runtime' = runtime /\ UNCHANGED views
    BY <1>6 DEF vars, native, threads
  <2>. QED  BY <2>1, RaceKept
<1>. QED  BY <1>1, <1>2, <1>3, <1>4, <1>5, <1>6 DEF Next

-----------------------------------------------------------------------------
(* The types, and the theorems.                                            *)

\* What a view model puts on the screen is a screen.
LEMMA ScreenType ==
    /\ \A k \in {"loading", "starting", "progress", "refused", "error"} : Plain(k) \in UiType
    /\ \A s \in [is : Statuses, of : 0..MaxEvents] :
          \A t \in [of : 0..MaxEvents, syncing : BOOLEAN] : Display(s, t) \in UiType
    /\ NoStatus \in [is : Statuses, of : 0..MaxEvents]
    /\ NoTip \in [of : 0..MaxEvents, syncing : BOOLEAN]
<1>1. /\ NoStatus \in [is : Statuses, of : 0..MaxEvents]
      /\ NoTip \in [of : 0..MaxEvents, syncing : BOOLEAN]
  BY NodeAssumption DEF NoStatus, NoTip, Statuses
<1>2. ASSUME NEW k \in {"loading", "starting", "progress", "connecting",
                        "success", "refused", "error"},
             NEW s \in [is : Statuses, of : 0..MaxEvents],
             NEW t \in [of : 0..MaxEvents, syncing : BOOLEAN]
      PROVE  Ui(k, s, t) \in UiType
  BY <1>2 DEF Ui, UiType
<1>3. \A k \in {"loading", "starting", "progress", "refused", "error"} : Plain(k) \in UiType
  BY <1>1, <1>2 DEF Plain
<1>. QED  BY <1>1, <1>2, <1>3 DEF Display

\* A view model that moves on stays where it may be.
LEMMA StepType ==
    ASSUME TypeInv, NEW v \in Views, NEW from,
           NEW to \in {"launched", "starting", "poll", "read", "over"},
           Step(v, from, to)
    PROVE  view' \in [Views -> {"none", "launched", "starting", "poll", "read",
                               "over"}]
BY DEF TypeInv, TypeOK, Step

LEMMA ViewStepType ==
    ASSUME TypeInv, NEW v \in Views, ViewStep(v)
    PROVE  TypeInv'
<1>0. /\ NodeTypeOK /\ queue \in Seq(Event) /\ ui \in UiType
      /\ read \in [is : Statuses, of : 0..MaxEvents]
      /\ status \in [is : Statuses, of : 0..MaxEvents]
      /\ tip \in [of : 0..MaxEvents, syncing : BOOLEAN]
  BY DEF TypeInv, TypeOK, NodeTypeOK
<1>1. view' \in [Views -> {"none", "launched", "starting", "poll", "read", "over"}]
  <2>1. CASE Clear(v)
    BY <2>1 DEF Clear, TypeInv, TypeOK
  <2>2. CASE StartReturns(v)
    <3>1. \E to \in {"over", "poll"} : Step(v, "starting", to)
      BY <2>2 DEF StartReturns
    <3>. QED  BY <3>1, StepType
  <2>3. CASE PollTip(v)
    <3>1. \E to \in {"over", "poll"} : Step(v, "read", to)
      BY <2>3 DEF PollTip
    <3>. QED  BY <3>1, StepType
  <2>4. CASE StartBegins(v) \/ StartCancelled(v) \/ StartFails(v)
    BY <2>4, StepType DEF StartBegins, StartCancelled, StartFails
  <2>5. CASE PollStatus(v) \/ PollCancelled(v)
    BY <2>5, StepType DEF PollStatus, PollCancelled
  <2>. QED  BY <2>1, <2>2, <2>3, <2>4, <2>5 DEF ViewStep
<1>2. NodeTypeOK' /\ queue' \in Seq(Event)
  <2>1. CASE UNCHANGED native
    BY <1>0, <2>1 DEF native, threads, traces, NodeTypeOK
  <2>2. CASE StartNode
    BY <1>0, <2>2, StartNodeType
  <2>3. CASE StopNode
    BY <1>0, <2>3, NodeAssumption DEF StopNode, NodeTypeOK, traces
  <2>. QED
    BY <2>1, <2>2, <2>3
    DEF ViewStep, StartBegins, StartCancelled, StartReturns, StartFails,
        StartRefused, StartErrs, PollStatus, PollTip, PollCancelled, Clear
<1>3. ui' \in UiType
  <2>1. ui' \in {ui, Display(read, tip)} \cup
                 {Plain(k) : k \in {"loading", "starting", "refused", "error"}}
    BY DEF ViewStep, StartBegins, StartCancelled, StartReturns, StartFails,
           PollStatus, PollTip, PollCancelled, Clear, Shows, Loading
  <2>. QED  BY <1>0, <2>1, ScreenType
<1>4. read' \in [is : Statuses, of : 0..MaxEvents]
  <2>1. read' \in {read, status, NoStatus}
    BY DEF ViewStep, StartBegins, StartCancelled, StartReturns, StartFails,
           PollStatus, PollTip, PollCancelled, Clear
  <2>. QED  BY <1>0, <2>1, ScreenType
<1>5. opened' = opened /\ cleared' \in [Views -> BOOLEAN]
  BY DEF ViewStep, StartBegins, StartCancelled, StartReturns, StartFails,
         PollStatus, PollTip, PollCancelled, Clear, TypeInv, TypeOK
<1>6. orphans' \subseteq Instances /\ raced' \in BOOLEAN
  <2>1. CASE Clear(v)
    BY <2>1 DEF Clear, TypeInv, TypeOK, Alive
  <2>2. CASE ~Clear(v)
    BY <2>2 DEF ViewStep, StartBegins, StartCancelled, StartReturns, StartFails,
                PollStatus, PollTip, PollCancelled, TypeInv, TypeOK
  <2>. QED  BY <2>1, <2>2
<1>7. ui'.kind \in {"loading", "starting", "progress", "connecting", "success",
                   "refused", "error"}
  BY <1>3 DEF UiType
<1>. QED  BY <1>1, <1>2, <1>3, <1>4, <1>5, <1>6, <1>7 DEF TypeInv, TypeOK

LEMMA TypeStep ==
    ASSUME TypeInv, QueueInv, [Next]_vars
    PROVE  TypeInv'
<1>0. /\ NodeTypeOK /\ queue \in Seq(Event) /\ ui \in UiType
      /\ half => queue # <<>>
  BY DEF TypeInv, TypeOK, QueueInv
<1>1. ASSUME UNCHANGED views, NodeTypeOK', queue' \in Seq(Event)
      PROVE  TypeInv'
  BY <1>1 DEF views, TypeInv, TypeOK
<1>2. CASE Open
  <2>1. NodeTypeOK' /\ queue' \in Seq(Event)
    BY <1>0, <1>2 DEF Open, native, threads, traces, NodeTypeOK
  <2>2. opened' \in 0..MaxViews /\ opened' \in Views
    BY <1>2, ViewAssumption DEF Open, Views, TypeInv, TypeOK
  <2>3. view' \in [Views -> {"none", "launched", "starting", "poll", "read",
                            "over"}]
    BY <1>2 DEF Open, TypeInv, TypeOK
  <2>4. ui' \in UiType /\ ui'.kind = "loading"
    BY <1>2, ScreenType DEF Open, Loading, Plain, Ui
  <2>. QED  BY <1>2, <2>1, <2>2, <2>3, <2>4 DEF Open, TypeInv, TypeOK
<1>3. CASE Kill
  <2>1. NodeTypeOK'
    <3>1. /\ net' \in [Instances -> {"none", "spawned", "bootstrap", "config",
                                     "open", "run", "done", "killed"}]
          /\ logged' \in [Instances -> 0..Len(BootEvents)]
          /\ booted' \in [Instances -> BOOLEAN]
      BY <1>3, BootLength DEF Kill, KillNode
    <3>2. /\ status' \in [is : Statuses, of : 0..MaxEvents]
          /\ tip' \in [of : 0..MaxEvents, syncing : BOOLEAN]
      BY <1>3, ScreenType DEF Kill, KillNode, NoStatus
    <3>3. /\ 0 \in 0..MaxStarts /\ runtime' = 0 /\ db' = 0 /\ half' = FALSE
          /\ started' = started /\ ledger' = ledger /\ emitted' = emitted
      BY <1>3, NodeAssumption DEF Kill, KillNode
    <3>. QED  BY <1>0, <3>1, <3>2, <3>3 DEF NodeTypeOK
  <2>2. queue' \in Seq(Event)
    BY <1>3 DEF Kill, KillNode
  <2>3. /\ view' \in [Views -> {"none", "launched", "starting", "poll", "read",
                               "over"}]
        /\ cleared' \in [Views -> BOOLEAN] /\ opened' \in 0..MaxViews
    <3>1. \A v \in Views : (v <= opened) \in BOOLEAN
      OBVIOUS
    <3>. QED  BY <1>3, <3>1 DEF Kill, TypeInv, TypeOK
  <2>4. ui' \in UiType /\ ui'.kind = "loading" /\ read' = NoStatus
    BY <1>3, ScreenType DEF Kill, Loading, Plain, Ui
  <2>5. orphans' \subseteq Instances /\ raced' \in BOOLEAN
    BY <1>3 DEF Kill
  <2>. QED  BY <2>1, <2>2, <2>3, <2>4, <2>5, ScreenType DEF TypeInv, TypeOK
<1>4. ASSUME NEW k \in Instances, NetStep(k), UNCHANGED views
      PROVE  TypeInv'
  BY <1>0, <1>1, <1>4, NetStepType
<1>5. CASE Poller /\ UNCHANGED views
  BY <1>0, <1>1, <1>5, PollerType
<1>6. CASE UNCHANGED vars
  <2>1. NodeTypeOK' /\ queue' \in Seq(Event)
    BY <1>0, <1>6 DEF vars, native, threads, traces, NodeTypeOK
  <2>. QED  BY <1>1, <1>6, <2>1 DEF vars
<1>. QED  BY <1>2, <1>3, <1>4, <1>5, <1>6, ViewStepType DEF Next

-----------------------------------------------------------------------------
(* The status after the bootstraps.                                        *)

\* A step that takes no event out of the queue, and adds one or none.
LEMMA EventsKept ==
    ASSUME queue \in Seq(Event), EventsInv,
           \A k \in Instances : Halfway(k) => Halfway(k)',
           \/ queue' = queue
           \/ \E name, n : /\ queue' = Append(queue, [name |-> name, of |-> n])
                           /\ name = "snapshots" => \E k \in Instances : Halfway(k)'
    PROVE  EventsInv'
<1>. SUFFICES ASSUME \A k \in Instances : ~Halfway(k)', NEW i \in 1..Len(queue'),
                     queue'[i].name = "snapshots"
              PROVE  Superseded(i)'
  BY DEF EventsInv
<1>1. \A k \in Instances : ~Halfway(k)
  OBVIOUS
<1>2. CASE queue' = queue
  BY <1>1, <1>2 DEF EventsInv, Superseded
<1>3. ASSUME NEW name, NEW n, queue' = Append(queue, [name |-> name, of |-> n]),
             name = "snapshots" => \E k \in Instances : Halfway(k)'
      PROVE  Superseded(i)'
  <2>. DEFINE e == [name |-> name, of |-> n]
  <2>1. /\ Len(queue') = Len(queue) + 1 /\ queue'[Len(queue) + 1] = e
        /\ \A j \in 1..Len(queue) : queue'[j] = queue[j] /\ j \in 1..Len(queue')
        /\ Len(queue) \in Nat
    BY <1>3
  <2>2. e.name # "snapshots"
    BY <1>3
  <2>3. i \in 1..Len(queue) /\ queue[i].name = "snapshots"
    BY <2>1, <2>2
  <2>4. PICK j \in 1..Len(queue) : i < j /\ queue[j].name = "Imported snapshots"
    BY <1>1, <2>3 DEF EventsInv, Superseded
  <2>. QED  BY <2>1, <2>4 DEF Superseded
<1>. QED  BY <1>2, <1>3

\* A step of a node that logs no first event, and leaves the status alone.
LEMMA SettleKept ==
    ASSUME TypeInv, SettleInv, queue' = queue, status' = status,
           BootInv', AllBooted' => AllBooted,
           \A k \in Instances : Halfway(k) => Halfway(k)'
    PROVE  SettleInv'
<1>1. EventsInv'
  BY EventsKept DEF TypeInv, SettleInv
<1>2. Settled \/ BootEventWaits => Settled' \/ BootEventWaits'
  BY DEF Settled, BootEventWaits
<1>. QED  BY <1>1, <1>2 DEF SettleInv

\* What is appended comes last.
LEMMA AppendLast ==
    ASSUME NEW S, NEW q \in Seq(S), NEW e \in S
    PROVE  /\ Append(q, e)[Len(q) + 1] = e
           /\ Len(q) + 1 \in 1..Len(Append(q, e))
           /\ \A i \in 1..Len(Append(q, e)) : i # Len(q) + 1 => i < Len(q) + 1
<1>1. Len(q) \in Nat /\ Len(Append(q, e)) = Len(q) + 1 /\ Append(q, e)[Len(q) + 1] = e
  OBVIOUS
<1>. QED  BY <1>1

\* The end of the import, as the last event, supersedes every earlier event.
LEMMA ImportedSupersedes ==
    ASSUME queue \in Seq(Event), NEW e \in Event, e.name = "Imported snapshots",
           queue' = Append(queue, e)
    PROVE  EventsInv'
<1>1. /\ queue'[Len(queue) + 1] = e
      /\ Len(queue) + 1 \in 1..Len(queue')
      /\ \A i \in 1..Len(queue') : i # Len(queue) + 1 => i < Len(queue) + 1
  BY AppendLast, Zenon
<1>2. ASSUME NEW i \in 1..Len(queue'), queue'[i].name = "snapshots"
      PROVE  Superseded(i)'
  <2>1. i # Len(queue) + 1
    BY <1>1, <1>2, Zenon
  <2>. QED  BY <1>1, <2>1, Zenon DEF Superseded
<1>. QED  BY <1>2 DEF EventsInv

LEMMA ThreadStep ==
    ASSUME TypeInv, SettleInv, NEW k \in Instances, NetStep(k)
    PROVE  SettleInv'
<1>0. /\ net \in [Instances -> {"none", "spawned", "bootstrap", "config", "open",
                                "run", "done", "killed"}]
      /\ logged \in [Instances -> 0..Len(BootEvents)]
      /\ booted \in [Instances -> BOOLEAN]
      /\ queue \in Seq(Event)
  BY DEF TypeInv, TypeOK, NodeTypeOK
<1>1. BootInv /\ EventsInv /\ (AllBooted => Settled \/ BootEventWaits)
  BY DEF SettleInv
<1>2. BootEvents[1] = "snapshots" /\ BootEvents[2] = "Imported snapshots"
      /\ Len(BootEvents) = 2
  BY DEF BootEvents
<1>3. CASE NetBegin(k)
  <2>1. /\ net[k] = "spawned" /\ net'[k] \in {"config", "bootstrap"}
        /\ \A j \in Instances : j # k => net'[j] = net[j]
        /\ started' = started /\ logged' = logged /\ booted' = booted /\ queue' = queue
    BY <1>0, <1>3 DEF NetBegin, Goto, SetStatus
  <2>2. ~AllBooted'
    BY <2>1 DEF AllBooted, Sessions
  <2>3. BootInv'
    BY <1>1, <2>1 DEF BootInv
  <2>4. EventsInv'
    BY <1>0, <1>1, <2>1, EventsKept DEF Halfway
  <2>. QED  BY <2>2, <2>3, <2>4 DEF SettleInv
<1>4. CASE BootLog(k)
  <2>0. /\ net[k] = "bootstrap" /\ net' = net /\ booted' = booted /\ started' = started
        /\ logged[k] < 2 /\ logged' = [logged EXCEPT ![k] = @ + 1]
    BY <1>2, <1>4 DEF BootLog
  <2>1. /\ logged[k] \in {0, 1} /\ logged'[k] = logged[k] + 1
        /\ \A j \in Instances : j # k => logged'[j] = logged[j]
    <3>1. logged[k] \in 0..2
      BY <1>0, <1>2
    <3>. QED  BY <1>0, <2>0, <3>1
  <2>2. queue' = Append(queue, [name |-> BootEvents[logged'[k]], of |-> emitted'])
    BY <1>4 DEF BootLog, Log
  <2>3. ~AllBooted' /\ BootInv'
    BY <1>1, <2>0, <2>1 DEF AllBooted, Sessions, BootInv
  <2>4. CASE logged[k] = 0
    <3>1. Halfway(k)'
      BY <2>0, <2>1, <2>4 DEF Halfway
    <3>. QED  BY <2>3, <3>1 DEF SettleInv, EventsInv
  <2>5. CASE logged[k] = 1
    <3>1. BootEvents[logged'[k]] = "Imported snapshots"
      <4>1. logged'[k] = 2
        BY <2>1, <2>5
      <4>. QED  BY <1>2, <4>1
    <3>2. emitted' \in 1..MaxEvents
      <4>1. emitted \in Nat /\ emitted < MaxEvents /\ emitted' = emitted + 1
        BY <1>4 DEF BootLog, Log, TypeInv, TypeOK, NodeTypeOK
      <4>. QED  BY <4>1, NodeAssumption
    <3>3. [name |-> "Imported snapshots", of |-> emitted'] \in Event
      BY <3>2 DEF Event, Names
    <3>4. EventsInv'
      BY <1>0, <2>2, <3>1, <3>3, ImportedSupersedes
    <3>. QED  BY <2>3, <3>4 DEF SettleInv
  <2>. QED  BY <2>1, <2>4, <2>5
<1>5. CASE BootSucceeds(k) \/ BootFails(k) \/ ConfigureFails(k) \/ NetRuns(k) \/ NetFails(k)
           \/ NetEnds(k)
  <2>1. /\ started' = started /\ queue' = queue /\ status' = status
        /\ \A j \in Instances : j # k =>
              net'[j] = net[j] /\ logged'[j] = logged[j] /\ booted'[j] = booted[j]
    BY <1>0, <1>5 DEF BootSucceeds, BootFails, ConfigureFails, NetRuns, NetFails, NetEnds,
                      Goto, traces
  <2>2. CASE BootSucceeds(k)
    <3>1. net[k] = "bootstrap" /\ logged[k] = 2 /\ net'[k] = "config" /\ booted'[k]
      BY <1>0, <1>2, <2>2 DEF BootSucceeds, Goto
    <3>2. BootInv' /\ ~AllBooted'
      BY <1>1, <2>1, <3>1 DEF BootInv, AllBooted, Sessions
    <3>3. \A j \in Instances : Halfway(j) => Halfway(j)'
      BY <2>1, <3>1 DEF Halfway
    <3>. QED  BY <2>1, <3>2, <3>3, SettleKept
  <2>3. CASE BootFails(k)
    <3>1. net[k] = "bootstrap" /\ net'[k] = "config" /\ booted' = booted
      BY <1>0, <2>3 DEF BootFails, Goto
    <3>2. BootInv' /\ ~AllBooted' /\ ~booted[k]
      BY <1>1, <2>1, <3>1 DEF BootInv, AllBooted, Sessions
    <3>3. \A j \in Instances : Halfway(j) => Halfway(j)'
      BY <2>1, <3>1, <3>2 DEF Halfway
    <3>. QED  BY <2>1, <3>2, <3>3, SettleKept
  <2>4. CASE ConfigureFails(k) \/ NetFails(k) \/ NetEnds(k)
    <3>1. net[k] \in {"config", "open", "run"} /\ net'[k] = "done" /\ booted' = booted
      BY <1>0, <2>4 DEF ConfigureFails, NetFails, NetEnds, Goto
    <3>2. BootInv' /\ ~AllBooted'
      BY <1>1, <2>1, <3>1 DEF BootInv, AllBooted, Sessions
    <3>3. \A j \in Instances : Halfway(j) => Halfway(j)'
      BY <2>1, <3>1, <3>2 DEF Halfway
    <3>. QED  BY <2>1, <3>2, <3>3, SettleKept
  <2>5. CASE NetRuns(k)
    <3>1. net[k] = "open" /\ net'[k] = "run" /\ booted' = booted
      BY <1>0, <2>5 DEF NetRuns, Goto
    <3>2. BootInv'
      BY <1>1, <2>1, <3>1 DEF BootInv
    <3>3. AllBooted' => AllBooted
      <4>1. Sessions' = Sessions /\ k \in Sessions
        BY <2>1, <3>1 DEF Sessions
      <4>. QED  BY <2>1, <3>1, <4>1 DEF AllBooted, Sessions
    <3>4. \A j \in Instances : Halfway(j) => Halfway(j)'
      BY <2>1, <3>1, <3>2 DEF Halfway
    <3>. QED  BY <2>1, <3>2, <3>3, <3>4, SettleKept
  <2>. QED  BY <1>5, <2>2, <2>3, <2>4, <2>5
<1>6. CASE Configure(k)
  <2>1. /\ net[k] = "config" /\ net'[k] = "open" /\ booted' = booted
        /\ started' = started /\ logged' = logged /\ queue' = queue
        /\ status'.is = "Syncing"
        /\ \A j \in Instances : j # k => net'[j] = net[j]
    BY <1>0, <1>6 DEF Configure, Goto, SetStatus
  <2>2. BootInv' /\ Settled'
    BY <1>1, <2>1 DEF BootInv, Settled
  <2>3. EventsInv'
    BY <1>0, <1>1, <2>1, EventsKept DEF Halfway
  <2>. QED  BY <2>2, <2>3 DEF SettleInv
<1>7. CASE NetLog(k)
  <2>1. PICK name \in TipEvents : Log(name)
    BY <1>7 DEF NetLog
  <2>2. UNCHANGED <<net, logged, booted, started>> /\ status' = status
        /\ queue' = Append(queue, [name |-> name, of |-> emitted'])
        /\ name # "snapshots"
    BY <1>7, <2>1 DEF NetLog, threads, Log, TipEvents
  <2>3. BootInv' /\ (AllBooted' => AllBooted)
    BY <1>1, <2>2 DEF BootInv, AllBooted, Sessions
  <2>4. EventsInv'
    BY <1>0, <1>1, <2>2, EventsKept DEF Halfway
  <2>5. Settled \/ BootEventWaits => Settled' \/ BootEventWaits'
    <3>1. /\ Len(queue') = Len(queue) + 1 /\ Len(queue) \in Nat
          /\ \A j \in 1..Len(queue) : queue'[j] = queue[j]
      BY <1>0, <2>2
    <3>. QED  BY <2>2, <3>1 DEF Settled, BootEventWaits
  <2>. QED  BY <1>1, <2>3, <2>4, <2>5 DEF SettleInv
<1>. QED  BY <1>3, <1>4, <1>5, <1>6, <1>7 DEF NetStep

LEMMA PollerSettles ==
    ASSUME TypeInv, QueueInv, SettleInv, Poller
    PROVE  SettleInv'
<1>0. /\ UNCHANGED <<net, logged, booted, started>>
      /\ queue \in Seq(Event) /\ status \in [is : Statuses, of : 0..MaxEvents]
      /\ queue # <<>>
  BY DEF Poller, ProcessStatus, ProcessTip, ProcessCaughtUp, threads, TypeInv, TypeOK,
         NodeTypeOK, QueueInv
<1>1. BootInv' /\ (AllBooted' <=> AllBooted) /\ \A k \in Instances : Halfway(k)' <=> Halfway(k)
  BY <1>0 DEF SettleInv, BootInv, AllBooted, Sessions, Halfway
<1>2. /\ Head(queue) = queue[1] /\ 1 \in 1..Len(queue) /\ queue[1] \in Event
      /\ Len(queue) \in Nat /\ Len(Tail(queue)) = Len(queue) - 1
      /\ \A i \in 1..Len(Tail(queue)) :
            Tail(queue)[i] = queue[i + 1] /\ i + 1 \in 1..Len(queue)
      /\ \A i \in 1..Len(queue) :
            i > 1 => i - 1 \in 1..Len(Tail(queue)) /\ Tail(queue)[i - 1] = queue[i]
  BY <1>0
<1>3. EventsInv'
  <2>1. CASE queue' = queue
    BY <1>1, <2>1 DEF SettleInv, EventsInv, Superseded
  <2>2. CASE queue' = Tail(queue)
    <3>1. SUFFICES ASSUME \A k \in Instances : ~Halfway(k), NEW i \in 1..Len(queue'),
                          queue'[i].name = "snapshots"
                   PROVE  Superseded(i)'
      BY <1>1 DEF EventsInv
    <3>2. i + 1 \in 1..Len(queue) /\ queue[i + 1].name = "snapshots"
      BY <1>2, <2>2, <3>1
    <3>3. PICK j \in 1..Len(queue) : i + 1 < j /\ queue[j].name = "Imported snapshots"
      BY <3>1, <3>2 DEF SettleInv, EventsInv, Superseded
    <3>4. j > 1 /\ i < j - 1
      <4>1. i \in 1..(Len(queue) - 1) /\ Len(queue) \in Nat
        BY <1>2, <2>2
      <4>2. i + 1 < j
        BY <3>3
      <4>. QED  BY <4>1, <4>2
    <3>5. j - 1 \in 1..Len(queue') /\ queue'[j - 1].name = "Imported snapshots"
      BY <1>2, <2>2, <3>3, <3>4
    <3>. QED  BY <3>4, <3>5 DEF Superseded
  <2>. QED  BY <2>1, <2>2 DEF Poller, ProcessStatus, ProcessTip, ProcessCaughtUp
<1>4. ASSUME AllBooted, queue' = Tail(queue), BootEventWaits, ~BootEventWaits'
      PROVE  queue[1].name = "Imported snapshots"
  <2>1. PICK i \in 1..Len(queue) : queue[i].name \notin TipEvents
    BY <1>4 DEF BootEventWaits
  <2>2. \A j \in 1..Len(queue) : j > 1 => queue[j].name \in TipEvents
    BY <1>2, <1>4 DEF BootEventWaits
  <2>3. queue[1].name \notin TipEvents /\ queue[1].name \in Names
    BY <1>2, <2>1, <2>2 DEF Event
  <2>4. \A k \in Instances : ~Halfway(k)
    BY <1>4 DEF AllBooted, Sessions, Halfway
  <2>5. ASSUME queue[1].name = "snapshots"
        PROVE  FALSE
    <3>1. PICK j \in 1..Len(queue) : 1 < j /\ queue[j].name = "Imported snapshots"
      BY <1>2, <2>4, <2>5 DEF SettleInv, EventsInv, Superseded
    <3>. QED  BY <2>2, <3>1 DEF TipEvents
  <2>. QED  BY <2>3, <2>5 DEF Names, TipEvents
<1>5. AllBooted => Settled' \/ BootEventWaits'
  <2>1. SUFFICES ASSUME AllBooted, ~BootEventWaits'
                 PROVE  Settled'
    OBVIOUS
  <2>2. Settled \/ BootEventWaits
    BY <2>1 DEF SettleInv
  <2>3. CASE ProcessCaughtUp
    BY <2>3 DEF ProcessCaughtUp, Settled
  <2>4. CASE ProcessTip
    <3>1. Settled' <=> Settled
      BY <2>4 DEF ProcessTip, Settled
    <3>2. ~BootEventWaits
      <4>1. queue[1].name \in TipEvents
        BY <1>2, <2>4 DEF ProcessTip
      <4>2. CASE queue' = queue
        BY <2>1, <4>2 DEF BootEventWaits
      <4>3. CASE queue' = Tail(queue)
        BY <1>4, <2>1, <4>1, <4>3 DEF TipEvents
      <4>. QED  BY <2>4, <4>2, <4>3 DEF ProcessTip
    <3>. QED  BY <2>2, <3>1, <3>2
  <2>5. CASE ProcessStatus
    <3>1. queue' = Tail(queue) /\ queue[1].name \notin TipEvents
      BY <1>2, <2>5 DEF ProcessStatus
    <3>2. BootEventWaits
      BY <1>2, <3>1 DEF BootEventWaits
    <3>3. queue[1].name = "Imported snapshots"
      BY <1>4, <2>1, <3>1, <3>2
    <3>4. status' = [is |-> "Syncing", of |-> 0]
      BY <1>2, <2>5, <3>3 DEF ProcessStatus, StatusOf
    <3>. QED  BY <3>4 DEF Settled
  <2>. QED  BY <2>3, <2>4, <2>5 DEF Poller
<1>. QED  BY <1>1, <1>3, <1>5 DEF SettleInv

LEMMA SettleStep ==
    ASSUME TypeInv, QueueInv, SettleInv, [Next]_vars
    PROVE  SettleInv'
<1>1. ASSUME UNCHANGED <<started, net, logged, booted, queue, status>>
      PROVE  SettleInv'
  BY <1>1 DEF SettleInv, BootInv, EventsInv, Superseded, Halfway, AllBooted, Sessions,
              Settled, BootEventWaits
<1>2. ASSUME NEW v \in Views, StartReturns(v)
      PROVE  SettleInv'
  <2>1. /\ started' = started + 1 /\ started' \in Instances
        /\ net' = [net EXCEPT ![started'] = "spawned"]
        /\ UNCHANGED <<logged, booted, queue, status>>
    BY <1>2, NodeAssumption
    DEF StartReturns, StartNode, traces, Instances, TypeInv, TypeOK, NodeTypeOK
  <2>2. /\ net'[started'] = "spawned" /\ net[started'] = "none"
        /\ \A k \in Instances : k # started' => net'[k] = net[k]
        /\ started \in Nat
    BY <2>1, NodeAssumption DEF TypeInv, TypeOK, NodeTypeOK, SettleInv, BootInv
  <2>3. BootInv'
    BY <2>1, <2>2 DEF SettleInv, BootInv, Instances
  <2>4. ~AllBooted'
    BY <2>1, <2>2 DEF AllBooted, Sessions
  <2>5. \A k \in Instances : Halfway(k) => Halfway(k)'
    BY <2>1, <2>2 DEF Halfway
  <2>. QED  BY <2>1, <2>3, <2>4, <2>5, SettleKept
<1>3. ASSUME NEW v \in Views, ViewStep(v), ~StartReturns(v)
      PROVE  SettleInv'
  <2>1. UNCHANGED <<started, net, logged, booted, queue, status>>
    BY <1>3
    DEF ViewStep, StartBegins, StartCancelled, StartFails, StartRefused, StartErrs, PollStatus,
        PollTip, PollCancelled, Clear, StopNode, native, threads, traces
  <2>. QED  BY <1>1, <2>1
<1>4. CASE Open \/ UNCHANGED vars
  <2>1. UNCHANGED <<started, net, logged, booted, queue, status>>
    BY <1>4 DEF Open, vars, native, threads, traces
  <2>. QED  BY <1>1, <2>1
<1>5. CASE Kill
  <2>1. /\ queue' = <<>> /\ started' = started
        /\ net' = [k \in Instances |-> IF net[k] = "none" THEN "none" ELSE "killed"]
        /\ booted' = [k \in Instances |-> FALSE]
    BY <1>5 DEF Kill, KillNode
  <2>2. BootInv' /\ ~AllBooted' /\ EventsInv'
    BY <2>1 DEF SettleInv, BootInv, AllBooted, Sessions, EventsInv
  <2>. QED  BY <2>2 DEF SettleInv
<1>. QED  BY <1>2, <1>3, <1>4, <1>5, ThreadStep, PollerSettles DEF Next

LEMMA InitHolds == Init => IInv
<1> SUFFICES ASSUME Init PROVE IInv
  OBVIOUS
<1>1. /\ status = NoStatus /\ read = NoStatus /\ tip = NoTip
      /\ ui = Plain("loading") /\ queue = <<>> /\ ~half /\ emitted = 0
      /\ runtime = 0 /\ opened = 0 /\ net = [k \in Instances |-> "none"]
  BY DEF Init, InitNode, NoStatus, Loading
<1>2. ui.status.of = 0 /\ ui.tip.of = 0 /\ ui.kind = "loading"
  BY <1>1 DEF Plain, Ui, NoStatus, NoTip
<1>3. TypeInv
  <2>1. NodeTypeOK
    <3>1. /\ 0 \in 0..MaxStarts /\ 0 \in 0..MaxEvents
          /\ 0 \in 0..Len(BootEvents)
      BY BootLength, NodeAssumption
    <3>2. /\ net \in [Instances -> {"none", "spawned", "bootstrap", "config",
                                    "open", "run", "done", "killed"}]
          /\ logged \in [Instances -> 0..Len(BootEvents)]
          /\ booted \in [Instances -> BOOLEAN]
      BY <3>1 DEF Init, InitNode
    <3>. QED  BY <1>1, <3>1, <3>2, ScreenType DEF Init, InitNode, NodeTypeOK
  <2>2. ui \in UiType /\ read \in [is : Statuses, of : 0..MaxEvents]
    BY <1>1, ScreenType
  <2>3. queue \in Seq(Event)
    BY <1>1
  <2>4. /\ opened \in 0..MaxViews
        /\ view \in [Views -> {"none", "launched", "starting", "poll", "read",
                              "over"}]
        /\ cleared \in [Views -> BOOLEAN]
        /\ orphans \subseteq Instances /\ raced \in BOOLEAN
    <3>1. opened \in 0..MaxViews
      BY ViewAssumption DEF Init
    <3>2. /\ view = [v \in Views |-> "none"] /\ cleared = [v \in Views |-> FALSE]
          /\ orphans = {} /\ raced = FALSE
      BY DEF Init
    <3>. QED  BY <3>1, <3>2
  <2>. QED  BY <1>2, <2>1, <2>2, <2>3, <2>4 DEF TypeInv, TypeOK
<1>4. QueueInv
  BY <1>1 DEF QueueInv, NoTip
<1>5. FreshInv
  BY <1>1, <1>2 DEF FreshInv, NoTip, NoStatus
<1>6. AliveIsAccountedFor
  BY <1>1 DEF AliveIsAccountedFor, Alive
<1>7. RaceInv
  BY <1>1, <1>2 DEF Init, RaceInv
<1>8. SettleInv
  <2>1. \A k \in Instances : net[k] = "none" /\ booted[k] = FALSE
    BY DEF Init, InitNode
  <2>. QED  BY <1>1, <2>1 DEF SettleInv, BootInv, EventsInv, AllBooted, Sessions
<1>. QED  BY <1>3, <1>4, <1>5, <1>6, <1>7, <1>8 DEF IInv

\* Whatever the order in which view models, network threads, the poller and
\* kills take their steps, the application stays within the invariant.
THEOREM AppSafety == Spec => []IInv
<1>1. IInv /\ [Next]_vars => IInv'
  BY TypeStep, QueueStep, FreshStep, AliveStep, RaceStep, SettleStep DEF IInv
<1>. QED  BY <1>1, InitHolds, PTL DEF Spec

\* Every variable of the application and its native node keeps its kind.
THEOREM AppTypes == Spec => []TypeOK
<1>1. IInv => TypeOK
  BY DEF IInv, TypeInv
<1>. QED  BY <1>1, AppSafety, PTL

\* Overlapping start calls of view models never leave a live node that neither
\* RUNTIME nor an earlier stopNode accounts for (jni_impl.rs, start_node).
THEOREM NodesAreAccountedFor == Spec => []AliveIsAccountedFor
<1>1. IInv => AliveIsAccountedFor
  BY DEF IInv
<1>. QED  BY <1>1, AppSafety, PTL

\* The error "already running" reaches a screen only when some view model was
\* cleared while its start call was under way (AmaruViewModel.kt).
THEOREM RefusalNeedsARace == Spec => []RefusedOnlyAfterRace
<1>1. IInv => RefusedOnlyAfterRace
  BY DEF IInv, RaceInv, RefusedOnlyAfterRace
<1>. QED  BY <1>1, AppSafety, PTL

\* The status and the tip of a screen are read at two times, under two locks,
\* and a caught-up status is still never shown with an earlier tip.
THEOREM CaughtUpIsFresh == Spec => []CaughtUpTipIsFresh
<1>1. ASSUME IInv PROVE CaughtUpTipIsFresh
  <2>1. ui.status.of \in Nat /\ ui.tip.of \in Nat
    BY <1>1, NodeAssumption DEF IInv, TypeInv, UiType
  <2>. QED  BY <1>1, <2>1 DEF IInv, FreshInv, CaughtUpTipIsFresh
<1>. QED  BY <1>1, AppSafety, PTL

\* When every bootstrap begun has succeeded and the poller has processed its
\* events, however late and however those of two nodes fell together, the
\* status is that of a running node (jni_impl.rs: the network thread sets it at
\* once, process_trace_event up to half a second later).
THEOREM LateEventsSettle == Spec => []StatusSettles
<1>1. ASSUME IInv PROVE StatusSettles
  <2>1. AllBooted => Settled \/ BootEventWaits
    BY <1>1 DEF IInv, SettleInv
  <2>. QED  BY <2>1 DEF StatusSettles, AllBooted, Sessions, Settled, BootEventWaits
<1>. QED  BY <1>1, AppSafety, PTL
=============================================================================
