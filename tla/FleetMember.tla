---------------------------- MODULE FleetMember ----------------------------
(***************************************************************************)
(* A remote server of the fleet: its row and the handlers that edit it     *)
(* (backend/src/routes/servers.rs), the check-in of its agent              *)
(* (routes/agent_checkin.rs), the sweep of the server monitor              *)
(* (services/server_monitor.rs), the registry's cache of clients            *)
(* (services/agent.rs), and the agent's own token (agent/src/routes/mod.rs,*)
(* agent/src/main.rs).  A client carries the url, the token and the pin    *)
(* that were in the row when it was built.                                 *)
(***************************************************************************)
EXTENDS Naturals

CONSTANTS
  Insecure, \* AGENT_TLS_VERIFY=insecure: a client without a pin takes any certificate
  MaxCert, \* bound: certificates of the agent
  MaxRotations, \* bound: calls of rotate_token, in the order they begin
  MaxFaults \* bound: lost replies, failed writes, deaths of the agent

ASSUME FleetMemberAssumption ==
  Insecure \in BOOLEAN /\ MaxCert \in Nat \ {0} /\ {MaxRotations, MaxFaults} \subseteq Nat

VARIABLES
  row,      \* of servers: [st, url, token, pin, seen]
  cache,    \* the client in remote_cache, NoClient without one
  resolver, \* for_server after its read: the client it will insert
  edit,     \* a handler between its UPDATE and its invalidate
  checkin,  \* the check-in under way: [at, cert], None for one without a fingerprint
  rotation, \* the calls of rotate_token: [at, token]
  alive, cert, current, previous, \* the agent, its certificate, its two tokens
  faults,
  \* history: a row that was edited under a resolver; a pin that was cleared; a
  \* check-in without a fingerprint that found no pin; a token the agent has and the
  \* panel not, or the other way round
  overlapped, cleared, unpinned, lost

panel  == <<row, cache, resolver, edit, checkin, rotation>>
agent  == <<alive, cert, current, previous>>
ghosts == <<overlapped, cleared, unpinned, lost>>
vars   == <<panel, agent, faults, ghosts>>

None == 0
NoClient == [url |-> None, token |-> None, pin |-> None]
Home == 1
Installed == 1
Rotation == 1 .. MaxRotations
\* The token the r-th rotation makes.
Made(r) == r + 1
Token == 1 .. MaxRotations + 1

Init ==
  /\ row = [st |-> "pending", url |-> Home, token |-> Installed, pin |-> None, seen |-> "never"]
  /\ cache = NoClient /\ resolver = NoClient /\ edit = FALSE
  /\ checkin = [at |-> "none", cert |-> None]
  /\ rotation = [r \in Rotation |-> [at |-> "new", token |-> None]]
  /\ alive = TRUE /\ cert = 1 /\ current = Installed /\ previous = None
  /\ faults = 0 /\ overlapped = FALSE /\ cleared = FALSE /\ unpinned = FALSE /\ lost = FALSE

Exists == row.st # "gone"
Client == [url |-> row.url, token |-> row.token, pin |-> row.pin]
Resolving == resolver # NoClient
Faulty == faults < MaxFaults /\ faults' = faults + 1
AgentTakes(token) == token \in {current, previous} \ {None}
\* The certificate is self-signed: a client with its pin accepts it, and one without
\* a pin when it is told to accept any.
Reaches(client) ==
  /\ alive /\ client.url = Home
  /\ client.pin = cert \/ (client.pin = None /\ Insecure)

-----------------------------------------------------------------------------
(* The registry's cache.                                                    *)

ResolveReadsPending ==
  /\ cache = NoClient /\ ~Resolving /\ Exists
  /\ resolver' = Client /\ overlapped' = FALSE
  /\ UNCHANGED <<row, cache, edit, checkin, rotation, agent, faults, cleared, unpinned, lost>>

\* for_server misses the cache and reads the row.
ResolveReads ==
  /\ cache = NoClient /\ ~Resolving
  /\ row.st \notin {"pending", "gone"}
  /\ resolver' = Client /\ overlapped' = FALSE
  /\ UNCHANGED <<row, cache, edit, checkin, rotation, agent, faults, cleared, unpinned, lost>>

\* The insert asks nobody whether the row is still the same.
ResolveInserts ==
  /\ Resolving
  /\ cache' = resolver /\ resolver' = NoClient
  /\ UNCHANGED <<row, edit, checkin, rotation, agent, faults, ghosts>>

Forget ==
  /\ cache' = NoClient /\ overlapped' = (overlapped /\ Resolving)

-----------------------------------------------------------------------------
(* The handlers of an administrator.                                        *)

\* What a handler writes to the row, with its invalidate still to come.
Edits(new) ==
  /\ Exists /\ ~edit
  /\ row' = new /\ edit' = TRUE
  /\ overlapped' = (overlapped \/ Resolving)
  /\ UNCHANGED <<cache, resolver, checkin, rotation, agent, faults, unpinned, lost>>

Update == \E url \in {1, 2} \ {row.url} : Edits([row EXCEPT !.url = url]) /\ UNCHANGED cleared
RotateCertPin == Edits([row EXCEPT !.pin = None]) /\ cleared' = TRUE
Remove == Edits([row EXCEPT !.st = "gone"]) /\ UNCHANGED cleared

Invalidate ==
  /\ edit /\ edit' = FALSE /\ Forget
  /\ UNCHANGED <<row, resolver, checkin, rotation, agent, faults, cleared, unpinned, lost>>

\* test_connection asks for /health, which no token protects.
TestConnection ==
  /\ Exists /\ cache # NoClient
  /\ row' = IF Reaches(cache) THEN [row EXCEPT !.st = "online", !.seen = "recent"]
                              ELSE [row EXCEPT !.st = "offline"]
  /\ UNCHANGED <<cache, resolver, edit, checkin, rotation, agent, faults, ghosts>>

-----------------------------------------------------------------------------
(* The rotation of the token.                                               *)

Rotating == \E r \in Rotation : rotation[r].at = "save"

RotateCallsAbruptly(r) ==
  /\ Exists /\ rotation[r].at = "new" /\ (r > 1 => rotation[r - 1].at # "new")
  /\ Reaches(cache) /\ AgentTakes(cache.token)
  /\ current' = Made(r) /\ rotation' = [rotation EXCEPT ![r] = [at |-> "save", token |-> Made(r)]]
  /\ lost' = (lost \/ Rotating)
  /\ UNCHANGED <<row, cache, resolver, edit, checkin, alive, cert, previous, faults, overlapped, cleared, unpinned>>

\* The agent's handler: the old token is remembered first, then the new one is
\* written and taken.  Its write may fail, its reply may be lost.
RotateCalls(r) ==
  /\ Exists /\ rotation[r].at = "new" /\ (r > 1 => rotation[r - 1].at # "new")
  /\ Reaches(cache) /\ AgentTakes(cache.token)
  /\ previous' = current
  /\ \/ /\ current' = Made(r) /\ rotation' = [rotation EXCEPT ![r] = [at |-> "save", token |-> Made(r)]]
        /\ lost' = (lost \/ Rotating) /\ UNCHANGED faults
     \/ /\ Faulty /\ current' = Made(r) /\ lost' = TRUE
        /\ rotation' = [rotation EXCEPT ![r] = [at |-> "done", token |-> None]]
     \/ /\ Faulty /\ rotation' = [rotation EXCEPT ![r] = [at |-> "done", token |-> None]]
        /\ lost' = (lost \/ Rotating) /\ UNCHANGED current
  /\ UNCHANGED <<row, cache, resolver, edit, checkin, alive, cert, overlapped, cleared, unpinned>>

\* The token and its hash; two rotations may save in the other order.
RotateSaves(r) ==
  /\ rotation[r].at = "save"
  /\ row' = [row EXCEPT !.token = rotation[r].token]
  /\ rotation' = [rotation EXCEPT ![r] = [at |-> "forget", token |-> None]]
  /\ overlapped' = (overlapped \/ Resolving)
  /\ lost' = (rotation[r].token # current)
  /\ UNCHANGED <<cache, resolver, edit, checkin, agent, faults, cleared, unpinned>>

RotateForgetsNothing(r) ==
  /\ rotation[r].at = "forget"
  /\ rotation' = [rotation EXCEPT ![r].at = "done"]
  /\ UNCHANGED <<row, cache, resolver, edit, checkin, agent, faults, ghosts>>

RotateForgets(r) ==
  /\ rotation[r].at = "forget" /\ Forget
  /\ rotation' = [rotation EXCEPT ![r].at = "done"]
  /\ UNCHANGED <<row, resolver, edit, checkin, agent, faults, cleared, unpinned, lost>>

-----------------------------------------------------------------------------
(* The check-in, with the token the agent was installed with, for ever.     *)

NoCheckin == [at |-> "none", cert |-> None]

\* The token is compared, then the pin looked up and compared, of which an agent
\* that sends no fingerprint is let off.
CheckinStarts ==
  /\ alive /\ Exists /\ checkin = NoCheckin
  /\ row.token = Installed
  /\ \/ /\ row.pin \in {None, cert}
        /\ checkin' = [at |-> IF row.pin = None THEN "capture" ELSE "write", cert |-> cert]
     \/ checkin' = [at |-> "write", cert |-> None]
  /\ UNCHANGED <<row, cache, resolver, edit, rotation, agent, faults, ghosts>>

\* Trust on first use: the pin is written whatever it is by now, and the client
\* in the cache keeps the one it was built with.
CheckinCaptures ==
  /\ checkin.at = "capture"
  /\ row' = IF Exists THEN [row EXCEPT !.pin = checkin.cert] ELSE row
  /\ checkin' = [checkin EXCEPT !.at = "write"]
  /\ UNCHANGED <<cache, resolver, edit, rotation, agent, faults, ghosts>>

\* A query fails, the agent has called too often, or it hangs up.
CheckinBreaksOff ==
  /\ checkin # NoCheckin /\ checkin' = NoCheckin
  /\ UNCHANGED <<row, cache, resolver, edit, rotation, agent, faults, ghosts>>

CheckinWritesStatus ==
  /\ checkin.at = "write"
  /\ row' = IF Exists THEN [row EXCEPT !.st = "online"] ELSE row
  /\ checkin' = NoCheckin
  /\ unpinned' = (unpinned \/ (row.pin = None /\ checkin.cert = None))
  /\ UNCHANGED <<cache, resolver, edit, rotation, agent, faults, overlapped, cleared, lost>>

CheckinWrites ==
  /\ checkin.at = "write"
  /\ row' = IF Exists THEN [row EXCEPT !.st = "online", !.seen = "recent"] ELSE row
  /\ checkin' = NoCheckin
  /\ unpinned' = (unpinned \/ (row.pin = None /\ checkin.cert = None))
  /\ UNCHANGED <<cache, resolver, edit, rotation, agent, faults, overlapped, cleared, lost>>

-----------------------------------------------------------------------------
(* The monitor, time, and the agent, which is not followed any further once *)
(* its row is gone.                                                         *)

\* The UPDATE of a tick; when it fails there is the next tick.
MonitorSweeps ==
  /\ row.st = "online" /\ row.seen = "old"
  /\ row' = [row EXCEPT !.st = "offline"]
  /\ UNCHANGED <<cache, resolver, edit, checkin, rotation, agent, faults, ghosts>>

\* Two minutes without a check-in.
Age ==
  /\ row.seen = "recent" /\ row' = [row EXCEPT !.seen = "old"]
  /\ UNCHANGED <<cache, resolver, edit, checkin, rotation, agent, faults, ghosts>>

\* TOKEN_ROTATION_GRACE_SECS; a panel that has its reply saves it within a minute.
GraceEnds ==
  /\ previous # None /\ Exists /\ ~Rotating
  /\ previous' = None
  /\ UNCHANGED <<panel, alive, cert, current, faults, ghosts>>

AgentDies ==
  /\ alive /\ Exists /\ Faulty /\ alive' = FALSE
  /\ UNCHANGED <<panel, cert, current, previous, ghosts>>

\* AGENT_TOKEN of the unit, which is still the first one, wins over the file.  The
\* certificate may be a new one.
AgentStarts ==
  /\ ~alive /\ Exists /\ alive' = TRUE
  /\ current' = Installed /\ previous' = None
  /\ lost' = (lost \/ row.token # Installed \/ Rotating)
  /\ cert' \in {c \in cert .. cert + 1 : c <= MaxCert}
  /\ UNCHANGED <<panel, faults, overlapped, cleared, unpinned>>

-----------------------------------------------------------------------------
(* The process of the panel.                                                *)

\* It is started again at once; what it remembered is lost, and the calls that
\* were under way with it.
Crash ==
  /\ cache' = NoClient /\ resolver' = NoClient /\ edit' = FALSE /\ checkin' = NoCheckin
  /\ rotation' = [r \in Rotation |->
       IF rotation[r].at = "new" THEN rotation[r] ELSE [at |-> "done", token |-> None]]
  /\ lost' = (lost \/ Rotating)
  /\ overlapped' = FALSE
  /\ UNCHANGED <<row, agent, faults, cleared, unpinned>>

Next ==
  \/ Crash
  \/ ResolveReads \/ ResolveInserts
  \/ Update \/ RotateCertPin \/ Remove \/ Invalidate \/ TestConnection
  \/ \E r \in Rotation : RotateCalls(r) \/ RotateSaves(r) \/ RotateForgets(r)
  \/ CheckinStarts \/ CheckinCaptures \/ CheckinBreaksOff \/ CheckinWrites
  \/ MonitorSweeps \/ Age \/ GraceEnds \/ AgentDies \/ AgentStarts

Spec == Init /\ [][Next]_vars

-----------------------------------------------------------------------------

Clients == [url : 0 .. 2, token : Token \cup {None}, pin : 0 .. MaxCert]

\* Type correctness of the row, the clients, the check-in and the rotations; a
\* server is online only with a time it was seen, without which the monitor's sweep
\* would never match it.
TypeOK ==
  /\ row \in [st : {"pending", "online", "offline", "gone"}, url : 1 .. 2, token : Token,
              pin : 0 .. MaxCert, seen : {"never", "recent", "old"}]
  /\ {cache, resolver} \subseteq Clients /\ edit \in BOOLEAN
  /\ checkin \in [at : {"none", "capture", "write"}, cert : 0 .. MaxCert]
  /\ rotation \in [Rotation -> [at : {"new", "save", "forget", "done"}, token : Token \cup {None}]]
  /\ cert \in 1 .. MaxCert /\ current \in Token /\ previous \in Token \cup {None}
  /\ row.st = "online" => row.seen # "never"
  /\ {overlapped, cleared, unpinned, lost, alive} \subseteq BOOLEAN /\ faults \in 0 .. MaxFaults

\* The client in the cache is the one the row describes, whatever edits, rotations
\* and check-ins have come since it was built, unless one of them is about to
\* invalidate it or came between the read of a for_server and its insert.  Its pin
\* may be missing: a check-in captures without an invalidate.
CacheAgrees ==
  cache # NoClient /\ ~edit /\ ~overlapped /\ (\A r \in Rotation : rotation[r].at # "forget")
    => /\ Exists /\ cache.url = row.url /\ cache.token = row.token
       /\ cache.pin \in {None, row.pin}

\* The agent takes the token in the row, at every moment of a rotation, unless a
\* reply was lost, two rotations overlapped, or the agent started again with the
\* token of its unit.
TokenTaken == Exists /\ ~lost => AgentTakes(row.token)

\* No call is made without a pin before an administrator clears it: a pending
\* server has no client, and the check-in that ends "pending" captures first.
\* Excepted is a server that a check-in without a fingerprint, of an older agent,
\* showed online while there was no pin: it has clients without one from then on.
FirstCallPinned == cache # NoClient /\ cache.pin = None => cleared \/ unpinned
=============================================================================
