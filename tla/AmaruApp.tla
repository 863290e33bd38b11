------------------------------ MODULE AmaruApp ------------------------------
(***************************************************************************)
(* The application: the view models (AmaruViewModel.kt) over the native    *)
(* node.  Each opening of the app makes a view model, which starts the     *)
(* node from a coroutine on an IO thread and then polls it; closing it     *)
(* clears the view model, which stops the node.  A coroutine is cancelled  *)
(* only at a suspension point, so a call into native code that is under    *)
(* way when its view model is cleared still completes.                     *)
(***************************************************************************)
EXTENDS Node

CONSTANT MaxViews     \* bound: view models created

ASSUME ViewAssumption == MaxViews \in Nat \ {0}

Views == 1..MaxViews

VARIABLES
    opened,     \* view models created so far
    view,       \* view[v]: where the coroutines of view model v stand
    cleared,    \* cleared[v]: onCleared has run
    read,       \* the open one's getLatestTip: the status read, before the tip
    ui,         \* the open one's _tipState: what the screen shows
    orphans,    \* history: live nodes whose handle a stopNode took
    raced       \* history: in this process, a view model was cleared while
                \* its start call was under way

views == <<opened, view, cleared, read, ui, orphans, raced>>
vars  == <<native, views>>

NoStatus == [is |-> "NotStarted", of |-> 0]
Ui(kind, s, t) == [kind |-> kind, status |-> s, tip |-> t]
Plain(kind)    == Ui(kind, NoStatus, NoTip)
Loading        == Plain("loading")

Init ==
    /\ InitNode
    /\ opened = 0
    /\ view = [v \in Views |-> "none"]
    /\ cleared = [v \in Views |-> FALSE]
    /\ read = NoStatus
    /\ ui = Loading
    /\ orphans = {} /\ raced = FALSE

Step(v, from, to) == view[v] = from /\ view' = [view EXCEPT ![v] = to]

\* View model v sets its _tipState to u; a cleared one's is not on screen.
Shows(v, u) == ui' = IF cleared[v] THEN ui ELSE u

-----------------------------------------------------------------------------

\* The app is opened: the constructor launches startNode("preprod").
Open ==
    /\ opened < MaxViews
    /\ \A v \in 1..opened : cleared[v]
    /\ opened' = opened + 1
    /\ view' = [view EXCEPT ![opened'] = "launched"]
    /\ ui' = Loading
    /\ UNCHANGED <<native, cleared, read, orphans, raced>>

\* The coroutine is dispatched, unless its scope is cancelled by then.
StartBegins(v) ==
    /\ ~cleared[v]
    /\ Step(v, "launched", "starting")
    /\ Shows(v, Plain("starting"))
    /\ UNCHANGED <<native, opened, cleared, read, orphans, raced>>

StartCancelled(v) ==
    /\ cleared[v]
    /\ Step(v, "launched", "over")
    /\ UNCHANGED <<native, opened, cleared, read, ui, orphans, raced>>

\* AmaruBridge.startNode returns 0: poll, if the scope still is active.
StartReturns(v) ==
    /\ Step(v, "starting", IF cleared[v] THEN "over" ELSE "poll")
    /\ StartNode
    /\ UNCHANGED <<opened, cleared, read, ui, orphans, raced>>

\* It returns an error code; the view model does not try again.
StartFails(v) ==
    /\ Step(v, "starting", "over")
    /\ \/ StartRefused /\ Shows(v, Plain("refused"))
       \/ StartErrs /\ Shows(v, Plain("error"))
    /\ UNCHANGED <<opened, cleared, read, orphans, raced>>

-----------------------------------------------------------------------------
(* One turn of the polling loop: getLatestTip reads the status, then the   *)
(* tip under another lock; the loop then sets the UI state.                *)

PollStatus(v) ==
    /\ ~cleared[v]
    /\ Step(v, "poll", "read")
    /\ read' = status
    /\ UNCHANGED <<native, opened, cleared, ui, orphans, raced>>

\* Mutant: a tip that is not there is shown as an unknown state.
DisplayUnknown(s, t) == Ui(IF t.of > 0 THEN "success" ELSE "unknown", s, t)

\* Which TipState a report becomes.
Display(s, t) ==
    IF s.is \in {"Bootstrapping", "Snapshots"}
    THEN Plain("progress")
    ELSE Ui(IF t.of > 0 THEN "success" ELSE "connecting", s, t)

PollTip(v) ==
    /\ Step(v, "read", IF cleared[v] THEN "over" ELSE "poll")
    /\ Shows(v, Display(read, tip))
    /\ read' = IF cleared[v] THEN read ELSE NoStatus
    /\ UNCHANGED <<native, opened, cleared, orphans, raced>>

PollCancelled(v) ==
    /\ cleared[v]
    /\ Step(v, "poll", "over")
    /\ UNCHANGED <<native, opened, cleared, read, ui, orphans, raced>>

\* Mutant: clearing a view model leaves the node's handle in place.
ClearKeepsHandle(v) ==
    /\ view[v] # "none" /\ ~cleared[v]
    /\ cleared' = [cleared EXCEPT ![v] = TRUE]
    /\ ui' = Loading
    /\ read' = NoStatus
    /\ raced' = (raced \/ view[v] = "starting")
    /\ UNCHANGED <<native, opened, view, orphans>>

\* onCleared, after the scope is cancelled: stopNode.
Clear(v) ==
    /\ view[v] # "none" /\ ~cleared[v]
    /\ cleared' = [cleared EXCEPT ![v] = TRUE]
    /\ orphans' = (orphans \cup {runtime}) \cap Alive
    /\ StopNode
    /\ ui' = Loading
    /\ read' = NoStatus
    /\ raced' = (raced \/ view[v] = "starting")
    /\ UNCHANGED <<opened, view>>

\* Android kills the process, and every view model with it.
Kill ==
    /\ opened > 0
    /\ KillNode
    /\ cleared' = [v \in Views |-> v <= opened]
    /\ view' = [v \in Views |-> IF v <= opened THEN "over" ELSE "none"]
    /\ read' = NoStatus
    /\ ui' = Loading
    /\ orphans' = {} /\ raced' = FALSE
    /\ UNCHANGED opened

-----------------------------------------------------------------------------

ViewStep(v) ==
    \/ StartBegins(v) \/ StartCancelled(v)
    \/ StartReturns(v) \/ StartFails(v)
    \/ PollStatus(v) \/ PollTip(v) \/ PollCancelled(v)
    \/ Clear(v)

Next ==
    \/ Open
    \/ \E v \in Views : ViewStep(v)
    \/ \E k \in Instances : NetStep(k) /\ UNCHANGED views
    \/ Poller /\ UNCHANGED views
    \/ Kill

\* The poller thread and a view's polling loop run for ever.
Fairness ==
    /\ WF_vars(Poller /\ UNCHANGED views)
    /\ \A v \in Views : WF_vars(PollStatus(v)) /\ WF_vars(PollTip(v))

Spec == Init /\ [][Next]_vars /\ Fairness

-----------------------------------------------------------------------------
(* Properties.                                                             *)

\* The composable that renders the TipState, what it says in the three states
\* that are Bootstrapping with another message, and what it shows of a tip.
Screen ==
    CASE ui.kind = "success" ->
            [view |-> "TipInfoDisplay", tip |-> ui.tip.of,
             caughtUp |-> ~ui.tip.syncing]
      [] ui.kind \in {"starting", "progress", "connecting"} ->
            [view |-> "BootstrappingView"]
      [] ui.kind \in {"refused", "error"} -> [view |-> "ErrorView"]
      [] ui.kind = "loading" -> [view |-> "LoadingView"]

\* Every variable holds a value of its kind.
TypeOK ==
    /\ NodeTypeOK
    /\ opened \in 0..MaxViews
    /\ view \in [Views -> {"none", "launched", "starting", "poll", "read",
                           "over"}]
    /\ cleared \in [Views -> BOOLEAN]
    /\ read \in [is : Statuses, of : 0..MaxEvents]
    /\ ui.kind \in {"loading", "starting", "progress", "connecting",
                    "success", "refused", "error"}
    /\ orphans \subseteq Instances
    /\ raced \in BOOLEAN

\* Every node that is alive is the registered one or one whose handle a
\* stopNode took: overlapping start calls of two view models never start two.
AliveIsAccountedFor == Alive \subseteq {runtime} \cup orphans

\* Once every bootstrap begun has succeeded and its events are processed, no
\* late event has left the status behind that of a running node.
StatusSettles ==
    LET sessions == {k \in Instances : net[k] \notin {"none", "killed"}}
    IN  /\ sessions # {}
        /\ \A k \in sessions : booted[k] /\ net[k] \in {"open", "run"}
        /\ \A i \in 1..Len(queue) : queue[i].name \in TipEvents
        => status.is \in {"Syncing", "CaughtUp"}

\* A screen that says so because the node caught up shows the tip it caught
\* up at or a later one, although status and tip are read separately.
CaughtUpTipIsFresh ==
    ui.status.is = "CaughtUp" => ui.tip.of >= ui.status.of

\* A view model is told that a node is already running only if some view
\* model was cleared while its own start call was under way.
RefusedOnlyAfterRace == ui.kind = "refused" => raced

\* When the last event logged says the node has caught up, the screen of a
\* session with one node shows that tip as caught up, or is closed first.
LastSeenIsShown ==
    \A v \in Views :
        (/\ emitted = MaxEvents /\ started = 1
         /\ queue # <<>> /\ queue[Len(queue)].name = "caught_up"
         /\ view[v] \in {"poll", "read"} /\ ~cleared[v])
        ~> \/ cleared[v]
           \/ Screen = [view |-> "TipInfoDisplay", tip |-> MaxEvents,
                         caughtUp |-> TRUE]

\* No node is started while another is running ("startNode called while node
\* is already running -- this is a bug"; "Stop the Amaru node").
AtMostOneNode == Cardinality(Alive) <= 1

\* After a bootstrap has succeeded, a later start finds the ledger and does
\* not bootstrap again ("Bootstrap if needed").
BootstrapsOnce ==
    \A k \in Instances : net[k] = "bootstrap" => "live" \notin ledger
=============================================================================
