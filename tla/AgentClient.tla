---------------------------- MODULE AgentClient ----------------------------
(***************************************************************************)
(* The panel's client of the local agent (backend/src/services/agent.rs):  *)
(* the circuit breaker, the two pools of permits, the lock around the      *)
(* token, which a call holds from its request to the end of the answer,    *)
(* and the branch of rotate_token (routes/servers.rs) that takes that lock *)
(* to put a new token in.  The calls come from handlers and from the       *)
(* background tasks of module Supervisor; a shutdown waits for the open    *)
(* ones.                                                                   *)
(***************************************************************************)
EXTENDS Supervisor, FiniteSets

CONSTANTS
  Quick, Stream, \* bound: calls under way of get, post, put; of post_long_ndjson
  QuickPool,     \* MAX_CONCURRENT_CONNECTIONS
  LongPool,      \* MAX_LONG_CONNECTIONS
  Threshold,     \* CIRCUIT_BREAKER_THRESHOLD
  MaxOutages     \* bound: times the agent goes down

ASSUME AgentClientAssumption ==
  /\ Quick \cap Stream = {}
  /\ {QuickPool, LongPool, Threshold} \subseteq Nat \ {0}
  /\ {MaxOutages, MaxPanics} \subseteq Nat

VARIABLES
  call,      \* how far each call is
  failures,  \* consecutive_failures
  recent,    \* last_failure_time is less than CIRCUIT_BREAKER_RESET_SECS ago
  token,     \* the token in the client
  file,      \* AGENT_TOKEN in api.env, the client's token at the next start
  writer,    \* rotate_token: "none", "save", "waits" for the lock, "env" or "done"
  up, agentToken, \* the agent and its token
  outages,
  \* history: a rotation ended before it had put the token in, or the process before
  \* the token was in api.env; api.env was not written
  cut, unwritten

clientState == <<call, failures, recent, token, file, writer>>
localAgent  == <<up, agentToken, outages>>
tokenGhosts == <<cut, unwritten>>
local       == <<clientState, localAgent, tokenGhosts>>
clientVars  == <<supervision, local>>

Call == Quick \cup Stream
Old == 1
New == 2

ClientInit ==
  /\ SupervisorInit
  /\ call = [c \in Call |-> "none"] /\ failures = 0 /\ recent = FALSE
  /\ token = Old /\ file = Old /\ writer = "none"
  /\ up = TRUE /\ agentToken = Old /\ outages = 0
  /\ cut = FALSE /\ unwritten = FALSE

Serving == phase \in {"up", "draining"}
In(where) == {c \in Call : call[c] = where}
To(c, where) == call' = [call EXCEPT ![c] = where]
Ends(c) == To(c, "none")

Pool(c) == IF c \in Quick THEN Quick ELSE Stream
Permits(c) == IF c \in Quick THEN QuickPool ELSE LongPool
Permitted(c) == {d \in Pool(c) : call[d] \in {"connect", "lock", "sent", "stamp"}}
Open == failures >= Threshold /\ recent
Readers == In("sent")

-----------------------------------------------------------------------------
(* A call.                                                                  *)

CheckShut(c) ==
  /\ Serving /\ call[c] = "none" /\ failures < Threshold
  /\ To(c, "queue")
  /\ UNCHANGED <<supervision, failures, recent, token, file, writer, localAgent, tokenGhosts>>

\* CircuitBreaker::check, before the wait for a permit.
Check(c) ==
  /\ Serving /\ call[c] = "none" /\ ~Open
  /\ To(c, "queue")
  /\ UNCHANGED <<supervision, failures, recent, token, file, writer, localAgent, tokenGhosts>>

PermitDropped(c) ==
  /\ call[c] = "queue" /\ Cardinality({d \in Pool(c) : call[d] = "connect"}) < Permits(c)
  /\ To(c, "connect")
  /\ UNCHANGED <<supervision, failures, recent, token, file, writer, localAgent, tokenGhosts>>

Permit(c) ==
  /\ call[c] = "queue" /\ Cardinality(Permitted(c)) < Permits(c)
  /\ To(c, "connect")
  /\ UNCHANGED <<supervision, failures, recent, token, file, writer, localAgent, tokenGhosts>>

Connect(c) ==
  /\ call[c] = "connect" /\ up
  /\ To(c, "lock")
  /\ UNCHANGED <<supervision, failures, recent, token, file, writer, localAgent, tokenGhosts>>

\* record_failure: the counter, then the time, with the breaker still closed in
\* between when the last failure is long ago.
ConnectFails(c) ==
  /\ call[c] = "connect" /\ ~up
  /\ To(c, "stamp")
  /\ failures' = IF failures < Threshold THEN failures + 1 ELSE failures
  /\ UNCHANGED <<supervision, recent, token, file, writer, localAgent, tokenGhosts>>

Stamp(c) ==
  /\ call[c] = "stamp"
  /\ Ends(c) /\ recent' = TRUE
  /\ UNCHANGED <<supervision, failures, token, file, writer, localAgent, tokenGhosts>>

\* The read lock: it is fair, so a writer that waits holds up every later reader.
Lock(c) ==
  /\ call[c] = "lock" /\ writer # "waits"
  /\ To(c, "sent")
  /\ UNCHANGED <<supervision, failures, recent, token, file, writer, localAgent, tokenGhosts>>

\* The answer: only a good one resets the breaker; an error status, of a token
\* that is out of date or of anything else, does not, and neither does a connection
\* that breaks off.
Answer(c) ==
  /\ call[c] = "sent" /\ Ends(c)
  /\ (up /\ failures' = 0) \/ UNCHANGED failures
  /\ UNCHANGED <<supervision, recent, token, file, writer, localAgent, tokenGhosts>>

TimesOutCounted(c) ==
  /\ call[c] \in {"queue", "connect", "lock", "sent"}
  /\ IF call[c] = "sent" THEN To(c, "stamp") /\ failures' = (IF failures < Threshold THEN failures + 1 ELSE failures)
                        ELSE Ends(c) /\ UNCHANGED failures
  /\ UNCHANGED <<supervision, recent, token, file, writer, localAgent, tokenGhosts>>

\* The time of a quick call covers its waits; a stream is given up when it is
\* silent, and while it talks it may go on for ever.
Silent(c) == c \in Quick \/ call[c] # "sent"
TimesOut(c) ==
  /\ call[c] \in {"queue", "connect", "lock", "sent"}
  /\ Ends(c)
  /\ UNCHANGED <<supervision, failures, recent, token, file, writer, localAgent, tokenGhosts>>

\* Half a minute without a failure.
CoolsDown ==
  /\ recent /\ recent' = FALSE
  /\ UNCHANGED <<supervision, call, failures, token, file, writer, localAgent, tokenGhosts>>

-----------------------------------------------------------------------------
(* The rotation of the local agent's token.                                 *)

\* The agent's handler (module FleetMember has its two tokens).
RotateAsks ==
  /\ phase = "up" /\ up /\ writer = "none" /\ token = agentToken
  /\ agentToken' = New /\ writer' = "save"
  /\ UNCHANGED <<supervision, call, failures, recent, token, file, up, outages, tokenGhosts>>

\* The reply is lost or without a token, the UPDATE of the row fails, the handler is
\* dropped, or a registry that could not look the local server up at its start does
\* not know it: nobody puts the token in.
RotateReturns ==
  /\ writer = "save" /\ writer' = "done" /\ cut' = TRUE
  /\ UNCHANGED <<supervision, call, failures, recent, token, file, localAgent, unwritten>>

RotateStores ==
  /\ writer = "save" /\ writer' = "waits"
  /\ UNCHANGED <<supervision, call, failures, recent, token, file, localAgent, tokenGhosts>>

UpdateTokenTries ==
  /\ writer = "waits" /\ writer' = "env"
  /\ token' = IF Readers = {} THEN New ELSE token
  /\ UNCHANGED <<supervision, call, failures, recent, file, localAgent, tokenGhosts>>

\* update_token has the write lock once no call is in flight.
UpdateToken ==
  /\ writer = "waits" /\ Readers = {}
  /\ token' = New /\ writer' = "env"
  /\ UNCHANGED <<supervision, call, failures, recent, file, localAgent, tokenGhosts>>

\* Then api.env, unless it cannot be read or written, which is not an error.
UpdateEnv ==
  /\ writer = "env" /\ writer' = "done"
  /\ (file' = New /\ UNCHANGED unwritten) \/ (unwritten' = TRUE /\ UNCHANGED file)
  /\ UNCHANGED <<supervision, call, failures, recent, token, localAgent, cut>>

\* The TimeoutLayer of 300 s drops the handler in its wait, and the rest with it.
RotateCut ==
  /\ writer = "waits" /\ Readers # {}
  /\ writer' = "done" /\ cut' = TRUE
  /\ UNCHANGED <<supervision, call, failures, recent, token, file, localAgent, unwritten>>

\* The agent reads its token from its file when it starts.
AgentDown ==
  /\ up /\ outages < MaxOutages /\ up' = FALSE /\ outages' = outages + 1
  /\ UNCHANGED <<supervision, clientState, agentToken, tokenGhosts>>

AgentUp ==
  /\ ~up /\ up' = TRUE
  /\ UNCHANGED <<supervision, clientState, agentToken, outages, tokenGhosts>>

-----------------------------------------------------------------------------
(* The process of the panel.                                                *)

Dies ==
  /\ call' = [c \in Call |-> "none"] /\ failures' = 0 /\ recent' = FALSE
  /\ token' = file
  /\ writer' = (IF writer = "none" THEN "none" ELSE "done")
  /\ cut' = (cut \/ writer \in {"save", "waits", "env"} \/ unwritten)
  /\ UNCHANGED <<file, localAgent, unwritten>>

Lives ==
  \/ (TaskPanics \/ TaskHears \/ WatcherSeesEnd \/ WatcherHears \/ Restart \/ Signal \/ Boot)
     /\ UNCHANGED local
  \/ (\A c \in Call : call[c] = "none") /\ PoolCloses /\ UNCHANGED local
  \/ (MainReturns \/ Watchdog \/ PanelCrashes) /\ Dies

ClientNext ==
  \/ Lives
  \/ \E c \in Call : \/ Check(c) \/ Permit(c) \/ Connect(c) \/ ConnectFails(c) \/ Stamp(c)
                     \/ Lock(c) \/ Answer(c) \/ TimesOut(c)
  \/ CoolsDown
  \/ RotateAsks \/ RotateReturns \/ RotateStores \/ UpdateToken \/ UpdateEnv \/ RotateCut
  \/ AgentDown \/ AgentUp

ClientSpec == ClientInit /\ [][ClientNext]_clientVars

\* The clock of a call runs out, and what follows a failure is run; the panel's
\* periodic tasks go on calling; time passes for the breaker and the supervisor.
\* Nothing is assumed of the agent, nor of the end of a stream that talks.
Settles(c) == Stamp(c) \/ (Silent(c) /\ TimesOut(c))
TaskReturns == (WatcherSeesEnd \/ Restart) /\ UNCHANGED local
ClientFairSpec ==
  /\ ClientSpec
  /\ \A c \in Call : WF_clientVars(Settles(c))
  /\ WF_clientVars(\E c \in Quick : Check(c))
  /\ WF_clientVars(CoolsDown) /\ WF_clientVars(TaskReturns)

-----------------------------------------------------------------------------

\* Type correctness of the calls, the breaker, the tokens and the process; the
\* calls with a permit are never more than their pool has.
ClientTypeOK ==
  /\ SupervisorTypeOK
  /\ call \in [Call -> {"none", "queue", "connect", "stamp", "lock", "sent"}]
  /\ \A c \in Call : Cardinality(Permitted(c)) <= Permits(c)
  /\ failures \in 0 .. Threshold /\ recent \in BOOLEAN
  /\ {token, file, agentToken} \subseteq {Old, New}
  /\ writer \in {"none", "save", "waits", "env", "done"}
  /\ up \in BOOLEAN /\ outages \in 0 .. MaxOutages /\ {cut, unwritten} \subseteq BOOLEAN

\* A busy agent is never counted as one that is down: without an outage the breaker
\* counts nothing, however many calls wait, time out or are answered with an error.
BusyIsNotDown == outages = 0 => failures = 0 /\ ~recent

\* The client has the agent's token whenever no rotation is between the two, and so
\* has the file that the next process starts with, through every wait for the lock.
\* Excepted are a rotation that ended before it had put the token in: by an error or a
\* lost reply, without the registry's entry, or cut off behind a call that holds the
\* lock; a process that ended before the file had the token; and, for the file, an
\* api.env that could not be read or written, which the handler answers as a success.
TokenFollows ==
  /\ ~cut /\ writer \notin {"save", "waits"} => token = agentToken
  /\ ~cut /\ ~unwritten /\ writer \notin {"save", "waits", "env"} => file = agentToken

\* An agent that is up is called again in the end, whatever the failures of its
\* outage that are still to be counted.
BreakerLetsThrough == up ~> (\E c \in Call : call[c] # "none") \/ ~up \/ phase # "up"
============================================================================
