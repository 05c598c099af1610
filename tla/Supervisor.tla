---------------------------- MODULE Supervisor ----------------------------
(***************************************************************************)
(* The life of the api process and of one of its background tasks:         *)
(* spawn_supervised, the end of main and shutdown_signal of                *)
(* backend/src/main.rs.  A receiver of the shutdown broadcast gets only    *)
(* what is sent after it subscribed; the supervisor subscribes anew, for   *)
(* itself and for the task, each time it starts the task.                  *)
(***************************************************************************)
EXTENDS Naturals

CONSTANT MaxPanics \* bound: times the task panics

VARIABLES
  phase,     \* "up", "draining" after the signal, "closed" with the pool, "down"
  task,      \* "running", "ended", or "none" while there is no handle
  watcher,   \* the supervisor: "watching", "sleeping" or "gone"
  signal,    \* the receivers with the signal in them: "task", "watcher"
  panics

supervision == <<phase, task, watcher, signal, panics>>

Started ==
  /\ phase' = "up" /\ task' = "running" /\ watcher' = "watching" /\ signal' = {}

SupervisorInit ==
  /\ phase = "up" /\ panics = 0
  /\ task = "running" /\ watcher = "watching" /\ signal = {}

TaskPanics ==
  /\ task = "running" /\ panics < MaxPanics
  /\ task' = "ended" /\ panics' = panics + 1
  /\ signal' = signal \ {"task"}
  /\ UNCHANGED <<phase, watcher>>

\* The select of the task's loop takes the signal and the loop breaks.
TaskHears ==
  /\ task = "running" /\ "task" \in signal
  /\ task' = "ended" /\ signal' = signal \ {"task"}
  /\ UNCHANGED <<phase, watcher, panics>>

WatcherLeaves ==
  /\ watcher = "watching" /\ task = "ended"
  /\ watcher' = (IF panics = MaxPanics THEN "gone" ELSE "sleeping") /\ task' = "none"
  /\ UNCHANGED <<phase, signal, panics>>

\* The supervisor's select takes the end of the task.  receiver_count() is never
\* zero here, for shutdown_rx is alive, so the loop always goes on to its sleep.
WatcherSeesEnd ==
  /\ watcher = "watching" /\ task = "ended"
  /\ watcher' = "sleeping" /\ task' = "none"
  /\ UNCHANGED <<phase, signal, panics>>

\* Its select takes the signal; dropping the handle does not stop the task.
WatcherHears ==
  /\ watcher = "watching" /\ "watcher" \in signal
  /\ watcher' = "gone" /\ signal' = signal \ {"watcher"}
  /\ UNCHANGED <<phase, task, panics>>

\* After the backoff the loop subscribes and starts the task again: a signal that
\* was sent during the sleep is in a receiver nobody reads any more.
Restart ==
  /\ watcher = "sleeping"
  /\ watcher' = "watching" /\ task' = "running" /\ signal' = {}
  /\ UNCHANGED <<phase, panics>>

\* SIGTERM or Ctrl+C: the broadcast, and the watchdog is armed.
Signal ==
  /\ phase = "up"
  /\ phase' = "draining"
  /\ signal' = (IF task = "running" THEN {"task"} ELSE {})
               \cup (IF watcher = "gone" THEN {} ELSE {"watcher"})
  /\ UNCHANGED <<task, watcher, panics>>

\* The server has no open request left; two seconds later the pool is closed.
PoolCloses ==
  /\ phase = "draining" /\ phase' = "closed"
  /\ UNCHANGED <<task, watcher, signal, panics>>

Gone == phase' = "down" /\ task' = "none" /\ watcher' = "gone" /\ signal' = {}

\* main returns, which ends every task.
MainReturns ==
  /\ phase = "closed" /\ Gone /\ UNCHANGED <<panics>>

\* GRACEFUL_SHUTDOWN_TIMEOUT after the signal the process exits as it is.
Watchdog ==
  /\ phase \in {"draining", "closed"} /\ Gone /\ UNCHANGED <<panics>>

PanelCrashes == phase = "up" /\ Gone /\ UNCHANGED <<panics>>

\* systemd, or somebody, starts the panel again.
Boot == phase = "down" /\ Started /\ UNCHANGED panics

SupervisorTypeOK ==
  /\ phase \in {"up", "draining", "closed", "down"}
  /\ task \in {"running", "ended", "none"} /\ panics \in 0 .. MaxPanics
  /\ watcher \in {"watching", "sleeping", "gone"}
  /\ signal \subseteq {"task", "watcher"}

\* A task that has ended runs again, unless the process goes: neither a panic nor
\* a signal that comes during the backoff leaves the panel up without it.
TaskComesBack ==
  task # "running" ~> task = "running" \/ phase # "up"
============================================================================
