------------------------- MODULE AgentLinksProofs -------------------------
(***************************************************************************)
(* The panel's links to its agents.  A remote one (FleetMember): the       *)
(* client in the cache is the one the row describes, the agent takes the   *)
(* token in the row and no call precedes the pin of an agent that has one  *)
(* to give, for any number of certificates, rotations and failures.  The   *)
(* local one (AgentClient): no pool of permits is overdrawn, the breaker   *)
(* counts outages alone and the token follows the agent's, for any calls,  *)
(* pools and outages.                                                      *)
(***************************************************************************)
EXTENDS FleetMember, AgentClient, FiniteSetTheorems, TLAPS

(* A remote server.                                                         *)

\* A rotation that is about to save has a token.
Saving == \A r \in Rotation : rotation[r].at = "save" => rotation[r].token # None

\* A for_server that has read the row found no client, and inserts what the row
\* still says, unless somebody wrote the row since.
Agrees(client) ==
  /\ Exists /\ client.url = row.url /\ client.token = row.token
  /\ client.pin \in {None, row.pin}
Resolves ==
  Resolving => /\ cache = NoClient
               /\ ~overlapped => Agrees(resolver)

\* A check-in that is to capture found no pin, and nobody else writes one; after
\* it there is a pin, until an administrator clears it.
Captures ==
  /\ checkin.at = "capture" => row.pin = None /\ checkin.cert # None
  /\ checkin.at = "write" /\ checkin.cert # None /\ Exists => row.pin # None \/ cleared

\* A server leaves "pending" with a pin, or by a check-in that has none to give, and
\* nobody has a client of it before.
Pinned ==
  /\ row.st \in {"online", "offline"} => row.pin # None \/ cleared \/ unpinned
  /\ cache # NoClient \/ Resolving => row.st # "pending"
  /\ Resolving /\ resolver.pin = None => cleared \/ unpinned

\* The agent's token is in the row, or it was the token before the rotation that
\* is about to save.
Rotates == Exists /\ ~lost => row.token = current \/ (Rotating /\ row.token = previous)

\* TypeOK in parts, for the provers.
RowOK ==
  /\ row \in [st : {"pending", "online", "offline", "gone"}, url : 1 .. 2, token : Token,
              pin : 0 .. MaxCert, seen : {"never", "recent", "old"}]
  /\ row.st = "online" => row.seen # "never"
ClientsOK == cache \in Clients /\ resolver \in Clients
CheckinOK == checkin \in [at : {"none", "capture", "write"}, cert : 0 .. MaxCert]
RotationsOK ==
  rotation \in [Rotation -> [at : {"new", "save", "forget", "done"}, token : Token \cup {None}]]
AgentOK ==
  /\ cert \in 1 .. MaxCert /\ current \in Token /\ previous \in Token \cup {None}
  /\ alive \in BOOLEAN /\ faults \in 0 .. MaxFaults
FlagsOK ==
  /\ edit \in BOOLEAN /\ overlapped \in BOOLEAN
  /\ cleared \in BOOLEAN /\ unpinned \in BOOLEAN /\ lost \in BOOLEAN

Typed == RowOK /\ ClientsOK /\ CheckinOK /\ RotationsOK /\ AgentOK /\ FlagsOK

IInv ==
  /\ Typed /\ Saving
  /\ Resolves /\ CacheAgrees
  /\ Captures /\ Pinned /\ FirstCallPinned
  /\ Rotates

-----------------------------------------------------------------------------
LEMMA TypeParts == Typed <=> TypeOK
  BY DEF Typed, TypeOK, RowOK, ClientsOK, CheckinOK, RotationsOK, AgentOK, FlagsOK

LEMMA Initially == Init => IInv
<1> SUFFICES ASSUME Init
             PROVE  IInv
  OBVIOUS
<1> USE FleetMemberAssumption DEF Init, None, NoClient, Installed, Home, Exists
<1>1. RowOK /\ ClientsOK /\ CheckinOK
  BY DEF RowOK, ClientsOK, CheckinOK, Clients, Token
<1>2. RotationsOK /\ Saving
  BY DEF RotationsOK, Saving, Token
<1>3. AgentOK
  <2>1. cert \in 1 .. MaxCert /\ current \in Token /\ previous \in Token \cup {None}
    BY DEF Token
  <2>2. alive \in BOOLEAN
    OBVIOUS
  <2>3. faults \in 0 .. MaxFaults
    OBVIOUS
  <2> QED
    BY <2>1, <2>2, <2>3 DEF AgentOK
<1>4. FlagsOK
  BY DEF FlagsOK
<1>5. Resolves /\ CacheAgrees
  BY DEF Resolves, Resolving, CacheAgrees
<1>6. Captures /\ Pinned /\ FirstCallPinned
  BY DEF Captures, Pinned, FirstCallPinned, Resolving
<1>7. Rotates
  BY DEF Rotates
<1> QED
  BY <1>1, <1>2, <1>3, <1>4, <1>5, <1>6, <1>7 DEF IInv, Typed

-----------------------------------------------------------------------------
(* Types: each part, with the actions that write it.                       *)

LEMMA RowTyped ==
  ASSUME Typed, Saving, [Next]_vars
  PROVE  RowOK'
<1> USE FleetMemberAssumption DEF Typed, RowOK, CheckinOK, RotationsOK, Rotation, Token,
        None, panel, agent, ghosts
<1>1. CASE Update
  BY <1>1 DEF Update, Edits
<1>2. CASE RotateCertPin
  BY <1>2 DEF RotateCertPin, Edits
<1>3. CASE Remove
  BY <1>3 DEF Remove, Edits
<1>4. CASE TestConnection
  BY <1>4 DEF TestConnection
<1>5. CASE \E r \in Rotation : RotateSaves(r)
  BY <1>5 DEF RotateSaves, Saving
<1>6. CASE CheckinCaptures
  BY <1>6 DEF CheckinCaptures
<1>7. CASE CheckinWrites
  BY <1>7 DEF CheckinWrites, NoCheckin
<1>8. CASE MonitorSweeps
  BY <1>8 DEF MonitorSweeps
<1>9. CASE Age
  BY <1>9 DEF Age
<1>10. CASE \/ Crash \/ ResolveReads \/ ResolveInserts \/ Invalidate
            \/ (\E r \in Rotation : RotateCalls(r))
            \/ (\E r \in Rotation : RotateForgets(r)) \/ CheckinStarts
            \/ CheckinBreaksOff \/ GraceEnds \/ AgentDies \/ AgentStarts \/ UNCHANGED vars
  BY <1>10 DEF Crash, NoCheckin, ResolveReads, Client, ResolveInserts, Invalidate,
      Forget, RotateCalls, Faulty, Made, RotateForgets, CheckinStarts,
      CheckinBreaksOff, GraceEnds, AgentDies, AgentStarts, vars
<1> QED
  BY <1>1, <1>2, <1>3, <1>4, <1>5, <1>6, <1>7, <1>8, <1>9, <1>10 DEF Next

LEMMA ClientsTyped ==
  ASSUME Typed, [Next]_vars
  PROVE  ClientsOK'
<1> USE FleetMemberAssumption DEF Typed, ClientsOK, RowOK, Clients, NoClient, Token,
        None, panel, agent, ghosts
<1>1. CASE Crash
  BY <1>1 DEF Crash, NoCheckin
<1>2. CASE ResolveReads
  BY <1>2 DEF ResolveReads, Client
<1>3. CASE ResolveInserts
  BY <1>3 DEF ResolveInserts
<1>4. CASE Invalidate
  BY <1>4 DEF Invalidate, Forget
<1>5. CASE \E r \in Rotation : RotateForgets(r)
  BY <1>5 DEF RotateForgets, Forget
<1>6. CASE \/ Update \/ RotateCertPin \/ Remove \/ TestConnection
           \/ (\E r \in Rotation : RotateCalls(r))
           \/ (\E r \in Rotation : RotateSaves(r)) \/ CheckinStarts
           \/ CheckinBreaksOff \/ CheckinCaptures \/ CheckinWrites \/ MonitorSweeps \/ Age \/ GraceEnds \/ AgentDies
           \/ AgentStarts \/ UNCHANGED vars
  BY <1>6 DEF Update, Edits, RotateCertPin, Remove, TestConnection, RotateCalls,
      Faulty, Made, RotateSaves, CheckinStarts, CheckinBreaksOff, NoCheckin, CheckinCaptures,
      CheckinWrites, MonitorSweeps, Age, GraceEnds, AgentDies, AgentStarts, vars
<1> QED
  BY <1>1, <1>2, <1>3, <1>4, <1>5, <1>6 DEF Next

LEMMA CheckinTyped ==
  ASSUME Typed, [Next]_vars
  PROVE  CheckinOK'
<1> USE FleetMemberAssumption DEF Typed, CheckinOK, AgentOK, None, panel, agent, ghosts
<1>1. CASE Crash
  BY <1>1 DEF Crash, NoCheckin
<1>2. CASE CheckinStarts
  BY <1>2 DEF CheckinStarts, NoCheckin
<1>3. CASE CheckinCaptures
  BY <1>3 DEF CheckinCaptures
<1>4. CASE CheckinBreaksOff \/ CheckinWrites
  BY <1>4 DEF CheckinBreaksOff, CheckinWrites, NoCheckin
<1>5. CASE \/ ResolveReads \/ ResolveInserts \/ Update \/ RotateCertPin \/ Remove
           \/ Invalidate \/ TestConnection \/ (\E r \in Rotation : RotateCalls(r))
           \/ (\E r \in Rotation : RotateSaves(r))
           \/ (\E r \in Rotation : RotateForgets(r)) \/ MonitorSweeps \/ Age
           \/ GraceEnds \/ AgentDies \/ AgentStarts \/ UNCHANGED vars
  BY <1>5 DEF ResolveReads, Client, ResolveInserts, Update, Edits, RotateCertPin,
      Remove, Invalidate, Forget, TestConnection, RotateCalls, Faulty, Made,
      RotateSaves, RotateForgets, MonitorSweeps, Age, GraceEnds, AgentDies,
      AgentStarts, vars
<1> QED
  BY <1>1, <1>2, <1>3, <1>4, <1>5 DEF Next

LEMMA RotationsTyped ==
  ASSUME Typed, Saving, [Next]_vars
  PROVE  RotationsOK' /\ Saving'
<1> USE FleetMemberAssumption DEF Typed, RotationsOK, Saving, Token, Rotation, None,
        panel, agent, ghosts
<1>1. CASE Crash
  BY <1>1 DEF Crash, NoCheckin
<1>2. CASE \E r \in Rotation : RotateCalls(r)
  BY <1>2 DEF RotateCalls, Faulty, Made
<1>3. CASE \E r \in Rotation : RotateSaves(r)
  BY <1>3 DEF RotateSaves
<1>4. CASE \E r \in Rotation : RotateForgets(r)
  BY <1>4 DEF RotateForgets, Forget
<1>5. CASE \/ ResolveReads \/ ResolveInserts \/ Update \/ RotateCertPin \/ Remove
           \/ Invalidate \/ TestConnection \/ CheckinStarts \/ CheckinBreaksOff \/ CheckinCaptures
           \/ CheckinWrites \/ MonitorSweeps \/ Age \/ GraceEnds \/ AgentDies
           \/ AgentStarts \/ UNCHANGED vars
  BY <1>5 DEF ResolveReads, Client, ResolveInserts, Update, Edits, RotateCertPin,
      Remove, Invalidate, Forget, TestConnection, CheckinStarts, CheckinBreaksOff, NoCheckin,
      CheckinCaptures, CheckinWrites, MonitorSweeps, Age, GraceEnds, AgentDies,
      Faulty, AgentStarts, vars
<1> QED
  BY <1>1, <1>2, <1>3, <1>4, <1>5 DEF Next

LEMMA AgentTyped ==
  ASSUME Typed, [Next]_vars
  PROVE  AgentOK'
<1> USE FleetMemberAssumption DEF Typed, AgentOK, Token, Rotation, None, Installed,
        panel, agent, ghosts
<1>1. CASE \E r \in Rotation : RotateCalls(r)
  BY <1>1 DEF RotateCalls, Faulty, Made
<1>2. CASE GraceEnds
  BY <1>2 DEF GraceEnds
<1>3. CASE AgentDies
  <2>1. faults' \in 0 .. MaxFaults
    BY <1>3 DEF AgentDies, Faulty
  <2>2. alive' \in BOOLEAN /\ UNCHANGED <<cert, current, previous>>
    BY <1>3 DEF AgentDies
  <2> QED
    BY <2>1, <2>2
<1>4. CASE AgentStarts
  BY <1>4 DEF AgentStarts
<1>5. CASE \/ Crash \/ ResolveReads \/ ResolveInserts \/ Update \/ RotateCertPin
           \/ Remove \/ Invalidate \/ TestConnection
           \/ (\E r \in Rotation : RotateSaves(r))
           \/ (\E r \in Rotation : RotateForgets(r)) \/ CheckinStarts
           \/ CheckinBreaksOff \/ CheckinCaptures \/ CheckinWrites \/ MonitorSweeps \/ Age \/ UNCHANGED vars
  BY <1>5 DEF Crash, NoCheckin, ResolveReads, Client, ResolveInserts, Update, Edits,
      RotateCertPin, Remove, Invalidate, Forget, TestConnection, RotateSaves,
      RotateForgets, CheckinStarts, CheckinBreaksOff, CheckinCaptures, CheckinWrites, MonitorSweeps,
      Age, vars
<1> QED
  BY <1>1, <1>2, <1>3, <1>4, <1>5 DEF Next

LEMMA FlagsTyped ==
  ASSUME Typed, [Next]_vars
  PROVE  FlagsOK'
<1> USE DEF Typed, FlagsOK, panel, agent, ghosts
<1>1. CASE Crash
  BY <1>1 DEF Crash, NoCheckin
<1>2. CASE ResolveReads
  BY <1>2 DEF ResolveReads, Client
<1>3. CASE Update
  BY <1>3 DEF Update, Edits
<1>4. CASE RotateCertPin
  BY <1>4 DEF RotateCertPin, Edits
<1>5. CASE Remove
  BY <1>5 DEF Remove, Edits
<1>6. CASE Invalidate
  BY <1>6 DEF Invalidate, Forget
<1>7. CASE \E r \in Rotation : RotateCalls(r)
  BY <1>7 DEF RotateCalls, Faulty, Made
<1>8. CASE \E r \in Rotation : RotateSaves(r)
  BY <1>8 DEF RotateSaves
<1>9. CASE \E r \in Rotation : RotateForgets(r)
  BY <1>9 DEF RotateForgets, Forget
<1>10. CASE AgentStarts
  BY <1>10 DEF AgentStarts
<1>11. CASE CheckinWrites
  BY <1>11 DEF CheckinWrites
<1>12. CASE \/ ResolveInserts \/ TestConnection \/ CheckinStarts \/ CheckinBreaksOff
            \/ CheckinCaptures \/ MonitorSweeps \/ Age \/ GraceEnds \/ AgentDies
            \/ UNCHANGED vars
  BY <1>12 DEF ResolveInserts, TestConnection, CheckinStarts, CheckinBreaksOff,
      CheckinCaptures, MonitorSweeps, Age, GraceEnds, AgentDies, Faulty, vars
<1> QED
  BY <1>1, <1>2, <1>3, <1>4, <1>5, <1>6, <1>7, <1>8, <1>9, <1>10, <1>11, <1>12 DEF Next

-----------------------------------------------------------------------------
(* The cache: an edit is on record until its invalidate, and what a        *)
(* for_server has read is still there or overlapped.                       *)

LEMMA CacheKeeps ==
  ASSUME IInv, [Next]_vars
  PROVE  Resolves' /\ CacheAgrees'
<1> USE DEF IInv, Resolves, CacheAgrees, Agrees, Resolving, Exists, None, panel, agent,
        ghosts
<1>1. CASE Crash
  BY <1>1 DEF Crash, NoCheckin, NoClient
<1>2. CASE ResolveReads
  BY <1>2 DEF ResolveReads, Client, NoClient, Typed, RowOK, Token
<1>3. CASE ResolveInserts
  BY <1>3 DEF ResolveInserts
<1>4. CASE Update
  BY <1>4 DEF Update, Edits
<1>5. CASE RotateCertPin
  BY <1>5 DEF RotateCertPin, Edits
<1>6. CASE Remove
  BY <1>6 DEF Remove, Edits
<1>7. CASE Invalidate
  BY <1>7 DEF Invalidate, Forget
<1>8. CASE TestConnection
  BY <1>8 DEF TestConnection
<1>9. CASE \E r \in Rotation : RotateCalls(r)
  <2>1. PICK r \in Rotation : RotateCalls(r)
    BY <1>9
  <2>2. \A k \in Rotation : rotation[k].at = "forget" => rotation'[k].at = "forget"
    BY <2>1 DEF RotateCalls, Typed, RotationsOK
  <2> QED
    BY <2>1, <2>2 DEF RotateCalls
<1>10. CASE \E r \in Rotation : RotateSaves(r)
  <2>1. PICK r \in Rotation : RotateSaves(r)
    BY <1>10
  <2>2. rotation'[r].at = "forget"
    BY <2>1 DEF RotateSaves, Typed, RotationsOK
  <2>3. CacheAgrees'
    BY <2>2
  <2>4. Resolves'
    BY <2>1 DEF RotateSaves
  <2> QED
    BY <2>3, <2>4
<1>11. CASE \E r \in Rotation : RotateForgets(r)
  BY <1>11 DEF RotateForgets, Forget
<1>12. CASE CheckinCaptures
  BY <1>12 DEF CheckinCaptures, Captures
<1>13. CASE CheckinWrites
  BY <1>13 DEF CheckinWrites, NoCheckin
<1>14. CASE MonitorSweeps
  BY <1>14 DEF MonitorSweeps
<1>15. CASE Age
  BY <1>15 DEF Age
<1>16. CASE \/ CheckinStarts \/ CheckinBreaksOff \/ GraceEnds \/ AgentDies \/ AgentStarts
            \/ UNCHANGED vars
  BY <1>16 DEF CheckinStarts, CheckinBreaksOff, NoCheckin, GraceEnds, AgentDies, Faulty, AgentStarts,
      vars
<1> QED
  BY <1>1, <1>2, <1>3, <1>4, <1>5, <1>6, <1>7, <1>8, <1>9, <1>10, <1>11, <1>12, <1>13,
     <1>14, <1>15, <1>16 DEF Next

-----------------------------------------------------------------------------
(* The pin.                                                                 *)

LEMMA PinKeeps ==
  ASSUME IInv, [Next]_vars
  PROVE  Captures' /\ Pinned' /\ FirstCallPinned'
<1> USE DEF IInv, Captures, Pinned, FirstCallPinned, Resolving, Exists, None, panel,
        agent, ghosts
<1>1. CASE Crash
  BY <1>1 DEF Crash, NoCheckin
<1>2. CASE ResolveReads
  BY <1>2 DEF ResolveReads, Client, NoClient, Typed, RowOK, Token
<1>3. CASE ResolveInserts
  BY <1>3 DEF ResolveInserts
<1>4. CASE Update
  BY <1>4 DEF Update, Edits
<1>5. CASE RotateCertPin
  BY <1>5 DEF RotateCertPin, Edits
<1>6. CASE Remove
  BY <1>6 DEF Remove, Edits
<1>7. CASE Invalidate
  BY <1>7 DEF Invalidate, Forget
<1>8. CASE TestConnection
  BY <1>8 DEF TestConnection, Typed, RowOK
<1>9. CASE \E r \in Rotation : RotateSaves(r)
  BY <1>9 DEF RotateSaves
<1>10. CASE \E r \in Rotation : RotateForgets(r)
  BY <1>10 DEF RotateForgets, Forget
<1>11. CASE CheckinStarts
  BY <1>11 DEF CheckinStarts, NoCheckin, Typed, AgentOK
<1>12. CASE CheckinCaptures
  BY <1>12 DEF CheckinCaptures
<1>13. CASE CheckinWrites
  <2>1. row'.pin = row.pin /\ UNCHANGED <<cache, resolver, cleared>>
    BY <1>13 DEF CheckinWrites, Typed, RowOK
  <2>2. unpinned => unpinned'
    BY <1>13 DEF CheckinWrites
  <2>3. Exists => row.pin # None \/ cleared \/ unpinned'
    BY <1>13 DEF CheckinWrites
  <2>4. Captures' /\ FirstCallPinned'
    BY <1>13, <2>1, <2>2 DEF CheckinWrites, NoCheckin
  <2>5. row'.st \in {"online", "offline"} => Exists
    BY <1>13 DEF CheckinWrites
  <2>6. row'.st = "pending" => row.st = "pending"
    BY <1>13 DEF CheckinWrites, Typed, RowOK
  <2> QED
    BY <2>1, <2>2, <2>3, <2>4, <2>5, <2>6
<1>14. CASE MonitorSweeps
  BY <1>14 DEF MonitorSweeps
<1>15. CASE Age
  BY <1>15 DEF Age
<1>16. CASE \/ (\E r \in Rotation : RotateCalls(r)) \/ CheckinBreaksOff \/ GraceEnds
            \/ AgentDies \/ AgentStarts \/ UNCHANGED vars
  BY <1>16 DEF RotateCalls, CheckinBreaksOff, NoCheckin, Faulty, Made, GraceEnds, AgentDies, AgentStarts, vars
<1> QED
  BY <1>1, <1>2, <1>3, <1>4, <1>5, <1>6, <1>7, <1>8, <1>9, <1>10, <1>11, <1>12, <1>13,
     <1>14, <1>15, <1>16 DEF Next

-----------------------------------------------------------------------------
(* The token.                                                               *)

LEMMA TokenKeeps ==
  ASSUME IInv, [Next]_vars
  PROVE  Rotates'
<1> USE DEF IInv, Rotates, Rotating, Exists, panel, agent, ghosts
<1>1. CASE Crash
  BY <1>1 DEF Crash, NoCheckin
<1>2. CASE Update
  BY <1>2 DEF Update, Edits
<1>3. CASE RotateCertPin
  BY <1>3 DEF RotateCertPin, Edits
<1>4. CASE Remove
  BY <1>4 DEF Remove, Edits
<1>5. CASE TestConnection
  BY <1>5 DEF TestConnection
<1>6. CASE \E r \in Rotation : RotateCalls(r)
  <2>1. PICK r \in Rotation : RotateCalls(r)
    BY <1>6
  <2>2. previous' = current /\ row' = row
    BY <2>1 DEF RotateCalls
  <2>3. lost' => Rotates'
    OBVIOUS
  <2>4. CASE ~lost'
    <3>1. ~lost /\ ~Rotating
      BY <2>1, <2>4 DEF RotateCalls
    <3>2. Exists /\ row.token = current
      BY <2>1, <3>1 DEF RotateCalls
    <3>3. current' = current \/ rotation'[r].at = "save"
      BY <2>1, <2>4 DEF RotateCalls, Typed, RotationsOK
    <3> QED
      BY <2>2, <3>2, <3>3
  <2> QED
    BY <2>3, <2>4
<1>7. CASE \E r \in Rotation : RotateSaves(r)
  BY <1>7 DEF RotateSaves, Typed, RotationsOK, RowOK
<1>8. CASE \E r \in Rotation : RotateForgets(r)
  BY <1>8 DEF RotateForgets, Forget, Typed, RotationsOK
<1>9. CASE CheckinCaptures
  BY <1>9 DEF CheckinCaptures
<1>10. CASE CheckinWrites
  BY <1>10 DEF CheckinWrites, NoCheckin
<1>11. CASE MonitorSweeps
  BY <1>11 DEF MonitorSweeps
<1>12. CASE Age
  BY <1>12 DEF Age
<1>13. CASE GraceEnds
  BY <1>13 DEF GraceEnds
<1>14. CASE AgentStarts
  BY <1>14 DEF AgentStarts
<1>15. CASE \/ ResolveReads \/ ResolveInserts \/ Invalidate \/ CheckinStarts
            \/ CheckinBreaksOff \/ AgentDies \/ UNCHANGED vars
  BY <1>15 DEF ResolveReads, Client, ResolveInserts, Invalidate, Forget,
      CheckinStarts, CheckinBreaksOff, NoCheckin, AgentDies, Faulty, vars
<1> QED
  BY <1>1, <1>2, <1>3, <1>4, <1>5, <1>6, <1>7, <1>8, <1>9, <1>10, <1>11, <1>12, <1>13,
     <1>14, <1>15 DEF Next

-----------------------------------------------------------------------------
LEMMA StepKeeps == IInv /\ [Next]_vars => IInv'
<1> SUFFICES ASSUME IInv, [Next]_vars
             PROVE  IInv'
  OBVIOUS
<1>1. Typed' /\ Saving'
  BY RowTyped, ClientsTyped, CheckinTyped, RotationsTyped, AgentTyped, FlagsTyped
  DEF IInv, Typed
<1> QED
  BY <1>1, CacheKeeps, PinKeeps, TokenKeeps DEF IInv

\* The inductive invariant: what a for_server, a check-in and a rotation that are
\* under way have read or done still stands.
THEOREM FleetInvariant == Spec => []IInv
  BY Initially, StepKeeps, PTL DEF Spec

\* The row, the clients, the check-in and the rotations only hold what the code can
\* write.
THEOREM FleetTyped == Spec => []TypeOK
<1>1. IInv => TypeOK
  BY TypeParts DEF IInv
<1> QED
  BY <1>1, FleetInvariant, PTL

\* for_server: the client in the cache is the row's, outside the two windows that
\* CacheAgrees names.
THEOREM CacheAgreesHolds == Spec => []CacheAgrees
<1>1. IInv => CacheAgrees
  BY DEF IInv
<1> QED
  BY <1>1, FleetInvariant, PTL

\* rotate_token: the token in the row is good at the agent at every moment.
THEOREM TokenTakenHolds == Spec => []TokenTaken
<1>1. IInv => TokenTaken
  BY DEF IInv, Typed, RowOK, Token, None, Rotates, TokenTaken, AgentTakes
<1> QED
  BY <1>1, FleetInvariant, PTL

\* agent_checkin: there is no client without a pin before an administrator asks for
\* one, or a check-in without a fingerprint shows a server without a pin online.
THEOREM FirstCallPinnedHolds == Spec => []FirstCallPinned
<1>1. IInv => FirstCallPinned
  BY DEF IInv
<1> QED
  BY <1>1, FleetInvariant, PTL

-----------------------------------------------------------------------------
(* The panel's client of the local agent.                                   *)

\* The calls with a permit are finitely many, and no more than their pool has.
PoolsOK ==
  \A c \in Call : IsFiniteSet(Permitted(c)) /\ Cardinality(Permitted(c)) <= Permits(c)

\* Only a connection that cannot be made is counted, and for that the agent was down.
OutagesCounted ==
  outages = 0 => up /\ failures = 0 /\ ~recent /\ \A c \in Call : call[c] # "stamp"

\* Where the new token is by now, at each step of a rotation that did not end early.
TokenMoves ==
  /\ agentToken = (IF writer = "none" THEN Old ELSE New)
  /\ writer = "none" => token = Old /\ file = Old /\ ~cut /\ ~unwritten
  /\ writer \in {"save", "waits"} /\ ~cut => token = Old /\ file = Old
  /\ writer \in {"env", "done"} /\ ~cut => token = New
  /\ writer = "done" /\ ~cut /\ ~unwritten => file = New

\* ClientTypeOK but its pools, in parts, for the provers.
CallsOK ==
  /\ call \in [Call -> {"none", "queue", "connect", "stamp", "lock", "sent"}]
  /\ failures \in 0 .. Threshold /\ recent \in BOOLEAN
TokensOK ==
  /\ token \in {Old, New} /\ file \in {Old, New} /\ agentToken \in {Old, New}
  /\ writer \in {"none", "save", "waits", "env", "done"}
  /\ cut \in BOOLEAN /\ unwritten \in BOOLEAN
LocalAgentOK == up \in BOOLEAN /\ outages \in 0 .. MaxOutages

ClientTyped == SupervisorTypeOK /\ CallsOK /\ TokensOK /\ LocalAgentOK

ClientInv == ClientTyped /\ PoolsOK /\ OutagesCounted /\ TokenMoves

-----------------------------------------------------------------------------
LEMMA ClientBounds ==
  /\ QuickPool \in Nat /\ LongPool \in Nat
  /\ Threshold \in Nat /\ Threshold > 0
  /\ MaxOutages \in Nat /\ MaxPanics \in Nat
<1>1. {QuickPool, LongPool, Threshold} \subseteq Nat \ {0} /\ {MaxOutages, MaxPanics} \subseteq Nat
  BY AgentClientAssumption
<1> QED
  BY <1>1

LEMMA ClientInitially == ClientInit => ClientInv
<1> SUFFICES ASSUME ClientInit
             PROVE  ClientInv
  OBVIOUS
<1> USE ClientBounds DEF ClientInit
<1>1. SupervisorTypeOK
  BY DEF SupervisorInit, SupervisorTypeOK
<1>2. CallsOK
  <2>1. call \in [Call -> {"none", "queue", "connect", "stamp", "lock", "sent"}]
    OBVIOUS
  <2>2. failures \in 0 .. Threshold
    OBVIOUS
  <2>3. recent \in BOOLEAN
    OBVIOUS
  <2> QED
    BY <2>1, <2>2, <2>3 DEF CallsOK
<1>3. TokensOK /\ LocalAgentOK
  <2>1. TokensOK
    <3>1. token \in {Old, New} /\ file \in {Old, New} /\ agentToken \in {Old, New}
      OBVIOUS
    <3>2. writer \in {"none", "save", "waits", "env", "done"}
      OBVIOUS
    <3>3. cut \in BOOLEAN /\ unwritten \in BOOLEAN
      OBVIOUS
    <3> QED
      BY <3>1, <3>2, <3>3 DEF TokensOK
  <2>2. outages \in 0 .. MaxOutages
    OBVIOUS
  <2>3. up \in BOOLEAN
    OBVIOUS
  <2> QED
    BY <2>1, <2>2, <2>3 DEF LocalAgentOK
<1>4. PoolsOK
  <2> SUFFICES ASSUME NEW c \in Call
               PROVE  IsFiniteSet(Permitted(c)) /\ Cardinality(Permitted(c)) <= Permits(c)
    BY DEF PoolsOK
  <2>1. Permitted(c) = {}
    BY DEF Permitted, Pool, Call
  <2> QED
    BY <2>1, FS_EmptySet DEF Permits
<1>5. OutagesCounted /\ TokenMoves
  BY DEF OutagesCounted, TokenMoves
<1> QED
  BY <1>1, <1>2, <1>3, <1>4, <1>5 DEF ClientInv, ClientTyped

-----------------------------------------------------------------------------
(* What a step of a call may do to the rest.                                *)

\* The steps of one call.
Steps(c) ==
  \/ Check(c) \/ Permit(c) \/ Connect(c) \/ ConnectFails(c) \/ Stamp(c)
  \/ Lock(c) \/ Answer(c) \/ TimesOut(c)

\* A step of a call leaves the process, the tokens and the agent alone.
LEMMA CallsLeave ==
  ASSUME NEW c \in Call, Steps(c)
  PROVE  UNCHANGED <<supervision, token, file, writer, localAgent, tokenGhosts>>
  BY DEF Steps, Check, Permit, Connect, ConnectFails, Stamp, Lock, Answer, TimesOut

\* Only the end of the panel and the steps of calls write the calls.
LEMMA CallsWritten ==
  ASSUME [ClientNext]_clientVars
  PROVE  (\E c \in Call : Steps(c)) \/ Dies \/ call' = call
<1> USE DEF clientVars, local, clientState
<1>1. CASE Lives
  BY <1>1 DEF Lives
<1>2. CASE \E c \in Call : Steps(c)
  BY <1>2
<1>3. CASE \/ CoolsDown \/ RotateAsks \/ RotateReturns \/ RotateStores
           \/ UpdateToken \/ UpdateEnv \/ RotateCut
  BY <1>3 DEF CoolsDown, RotateAsks, RotateReturns, RotateStores, UpdateToken,
      UpdateEnv, RotateCut
<1>4. CASE AgentDown \/ AgentUp
  BY <1>4 DEF AgentDown, AgentUp
<1>5. CASE UNCHANGED clientVars
  BY <1>5
<1> QED
  BY <1>1, <1>2, <1>3, <1>4, <1>5 DEF ClientNext, Steps

-----------------------------------------------------------------------------
(* Types.                                                                   *)

LEMMA SupervisorTyped ==
  ASSUME ClientTyped, [ClientNext]_clientVars
  PROVE  SupervisorTypeOK'
<1> USE ClientBounds DEF ClientTyped, SupervisorTypeOK, supervision
<1>1. CASE Lives
  <2>1. CASE TaskPanics
    BY <2>1 DEF TaskPanics
  <2>2. CASE TaskHears \/ WatcherSeesEnd \/ WatcherHears \/ Restart
    BY <2>2 DEF TaskHears, WatcherSeesEnd, WatcherHears, Restart
  <2>3. CASE Signal \/ Boot
    BY <2>3 DEF Signal, Boot, Started
  <2>4. CASE PoolCloses \/ MainReturns \/ Watchdog \/ PanelCrashes
    BY <2>4 DEF PoolCloses, MainReturns, Watchdog, PanelCrashes, Gone
  <2> QED
    BY <1>1, <2>1, <2>2, <2>3, <2>4 DEF Lives
<1>2. CASE \E c \in Call : Steps(c)
  BY <1>2, CallsLeave
<1>3. CASE \/ CoolsDown \/ RotateAsks \/ RotateReturns \/ RotateStores
           \/ UpdateToken \/ UpdateEnv \/ RotateCut
  BY <1>3 DEF CoolsDown, RotateAsks, RotateReturns, RotateStores, UpdateToken,
      UpdateEnv, RotateCut
<1>4. CASE AgentDown \/ AgentUp \/ UNCHANGED clientVars
  BY <1>4 DEF AgentDown, AgentUp, clientVars
<1> QED
  BY <1>1, <1>2, <1>3, <1>4 DEF ClientNext, Steps

LEMMA CallsTyped ==
  ASSUME ClientTyped, [ClientNext]_clientVars
  PROVE  CallsOK'
<1> USE ClientBounds DEF ClientTyped, CallsOK
<1>1. CASE Dies
  <2>1. call' \in [Call -> {"none", "queue", "connect", "stamp", "lock", "sent"}]
    BY <1>1 DEF Dies
  <2>2. failures' \in 0 .. Threshold
    BY <1>1 DEF Dies
  <2>3. recent' \in BOOLEAN
    BY <1>1 DEF Dies
  <2> QED
    BY <2>1, <2>2, <2>3
<1>2. ASSUME NEW c \in Call, Steps(c)
      PROVE  CallsOK'
  <2> USE DEF To, Ends
  <2>1. CASE Check(c) \/ Permit(c) \/ Connect(c)
    BY <2>1 DEF Check, Permit, Connect
  <2>2. CASE ConnectFails(c)
    BY <2>2 DEF ConnectFails
  <2>3. CASE Stamp(c) \/ Lock(c)
    BY <2>3 DEF Stamp, Lock
  <2>4. CASE Answer(c) \/ TimesOut(c)
    BY <2>4 DEF Answer, TimesOut
  <2> QED
    BY <1>2, <2>1, <2>2, <2>3, <2>4 DEF Steps
<1>3. CASE \/ CoolsDown \/ RotateAsks \/ RotateReturns \/ RotateStores
           \/ UpdateToken \/ UpdateEnv \/ RotateCut
  BY <1>3 DEF CoolsDown, RotateAsks, RotateReturns, RotateStores, UpdateToken,
      UpdateEnv, RotateCut
<1>4. CASE AgentDown \/ AgentUp \/ UNCHANGED local
  BY <1>4 DEF AgentDown, AgentUp, local, clientState
<1> QED
  BY <1>1, <1>2, <1>3, <1>4 DEF ClientNext, Steps, Lives, clientVars

\* Who has the new token, and that every token is one of the two.
LEMMA TokensMove ==
  ASSUME TokensOK, TokenMoves, [ClientNext]_clientVars
  PROVE  TokensOK' /\ TokenMoves'
<1> USE DEF TokensOK, TokenMoves, localAgent, tokenGhosts
<1>1. CASE Dies
  BY <1>1 DEF Dies
<1>2. CASE UNCHANGED local
  BY <1>2 DEF local, clientState
<1>3. CASE \E c \in Call : Steps(c)
  BY <1>3, CallsLeave
<1>4. CASE CoolsDown
  BY <1>4 DEF CoolsDown
<1>5. CASE RotateAsks
  BY <1>5 DEF RotateAsks
<1>6. CASE RotateReturns \/ RotateCut
  BY <1>6 DEF RotateReturns, RotateCut
<1>7. CASE RotateStores \/ UpdateToken
  BY <1>7 DEF RotateStores, UpdateToken
<1>8. CASE UpdateEnv
  BY <1>8 DEF UpdateEnv
<1>9. CASE AgentDown \/ AgentUp
  BY <1>9 DEF AgentDown, AgentUp, clientState
<1> QED
  BY <1>1, <1>2, <1>3, <1>4, <1>5, <1>6, <1>7, <1>8, <1>9
  DEF ClientNext, Steps, Lives, clientVars

LEMMA LocalAgentTyped ==
  ASSUME ClientTyped, [ClientNext]_clientVars
  PROVE  LocalAgentOK'
<1> USE ClientBounds DEF ClientTyped, LocalAgentOK, localAgent
<1>1. CASE Lives
  BY <1>1 DEF Lives, Dies, local
<1>2. CASE \E c \in Call : Steps(c)
  BY <1>2, CallsLeave
<1>3. CASE \/ CoolsDown \/ RotateAsks \/ RotateReturns \/ RotateStores
           \/ UpdateToken \/ UpdateEnv \/ RotateCut
  BY <1>3 DEF CoolsDown, RotateAsks, RotateReturns, RotateStores, UpdateToken,
      UpdateEnv, RotateCut
<1>4. CASE AgentDown
  <2>1. up' = FALSE /\ outages' = outages + 1 /\ outages < MaxOutages
    BY <1>4 DEF AgentDown
  <2>2. outages' \in 0 .. MaxOutages
    BY <2>1
  <2>3. up' \in BOOLEAN
    BY <2>1
  <2> QED
    BY <2>2, <2>3
<1>5. CASE AgentUp
  <2>1. up' = TRUE /\ outages' = outages
    BY <1>5 DEF AgentUp
  <2> QED
    BY <2>1
<1>6. CASE UNCHANGED clientVars
  BY <1>6 DEF clientVars, local
<1> QED
  BY <1>1, <1>2, <1>3, <1>4, <1>5, <1>6 DEF ClientNext, Steps

-----------------------------------------------------------------------------
(* The pools of permits.                                                    *)

\* A step of a call that is not given a permit takes none.
LEMMA OthersTakeNone ==
  ASSUME ClientTyped, NEW c \in Call, Steps(c), ~Permit(c), NEW d \in Call
  PROVE  Permitted(d)' \subseteq Permitted(d)
<1> SUFFICES ASSUME NEW e \in Permitted(d)'
             PROVE  e \in Permitted(d)
  OBVIOUS
<1> USE DEF Permitted, Pool, Call, ClientTyped, CallsOK, To, Ends
<1>1. CASE Check(c)
  BY <1>1 DEF Check
<1>2. CASE Connect(c) \/ ConnectFails(c) \/ Lock(c)
  BY <1>2 DEF Connect, ConnectFails, Lock
<1>3. CASE Stamp(c) \/ Answer(c) \/ TimesOut(c)
  BY <1>3 DEF Stamp, Answer, TimesOut
<1> QED
  BY <1>1, <1>2, <1>3 DEF Steps

\* A permit is given to one call, out of its own pool.
LEMMA PermitTakesOne ==
  ASSUME ClientTyped, NEW c \in Call, Permit(c), NEW d \in Call
  PROVE  \/ Pool(d) = Pool(c) /\ Permits(d) = Permits(c)
            /\ Permitted(d) = Permitted(c) /\ Permitted(d)' \subseteq Permitted(c) \cup {c}
         \/ Permitted(d)' \subseteq Permitted(d)
<1> USE AgentClientAssumption DEF Permitted, Pool, Call, ClientTyped, CallsOK, To, Permit
<1>1. CASE c \in Quick <=> d \in Quick
  <2>1. Pool(d) = Pool(c) /\ Permits(d) = Permits(c) /\ Permitted(d) = Permitted(c)
    BY <1>1 DEF Permits
  <2>2. ASSUME NEW e \in Permitted(d)'
        PROVE  e \in Permitted(c) \cup {c}
    BY <1>1, <2>2
  <2> QED
    BY <2>1, <2>2
<1>2. CASE ~(c \in Quick <=> d \in Quick)
  <2>1. ASSUME NEW e \in Permitted(d)'
        PROVE  e \in Permitted(d)
    BY <1>2, <2>1
  <2> QED
    BY <2>1
<1> QED
  BY <1>1, <1>2

LEMMA PoolsKept ==
  ASSUME ClientTyped, PoolsOK, [ClientNext]_clientVars
  PROVE  PoolsOK'
<1> SUFFICES ASSUME NEW d \in Call
             PROVE  IsFiniteSet(Permitted(d)') /\ Cardinality(Permitted(d)') <= Permits(d)
  BY DEF PoolsOK, Permits, Call
<1>1. /\ IsFiniteSet(Permitted(d)) /\ Cardinality(Permitted(d)) \in Nat
      /\ Cardinality(Permitted(d)) <= Permits(d) /\ Permits(d) \in Nat
  BY FS_CardinalityType, ClientBounds DEF PoolsOK, Permits
<1>2. ASSUME Permitted(d)' \subseteq Permitted(d)
      PROVE  IsFiniteSet(Permitted(d)') /\ Cardinality(Permitted(d)') <= Permits(d)
  <2>1. /\ IsFiniteSet(Permitted(d)') /\ Cardinality(Permitted(d)') \in Nat
        /\ Cardinality(Permitted(d)') <= Cardinality(Permitted(d))
    BY <1>1, <1>2, FS_Subset, FS_CardinalityType
  <2> QED
    BY <1>1, <2>1
<1>3. ASSUME NEW c \in Call, Permit(c), ~(Permitted(d)' \subseteq Permitted(d))
      PROVE  IsFiniteSet(Permitted(d)') /\ Cardinality(Permitted(d)') <= Permits(d)
  <2>1. /\ Permits(d) = Permits(c) /\ Permitted(d) = Permitted(c)
        /\ Permitted(d)' \subseteq Permitted(c) \cup {c}
    BY <1>3, PermitTakesOne
  <2>2. /\ IsFiniteSet(Permitted(c)) /\ Cardinality(Permitted(c)) \in Nat
        /\ Cardinality(Permitted(c)) < Permits(c)
    BY <1>1, <1>3, <2>1 DEF Permit
  <2>3. /\ IsFiniteSet(Permitted(c) \cup {c})
        /\ Cardinality(Permitted(c) \cup {c}) <= Cardinality(Permitted(c)) + 1
    <3>1. /\ IsFiniteSet(Permitted(c) \cup {c})
          /\ Cardinality(Permitted(c) \cup {c}) =
               IF c \in Permitted(c) THEN Cardinality(Permitted(c)) ELSE Cardinality(Permitted(c)) + 1
      BY <2>2, FS_AddElement, Zenon
    <3> QED
      BY <2>2, <3>1
  <2>4. /\ IsFiniteSet(Permitted(d)') /\ Cardinality(Permitted(d)') \in Nat
        /\ Cardinality(Permitted(c) \cup {c}) \in Nat
        /\ Cardinality(Permitted(d)') <= Cardinality(Permitted(c) \cup {c})
    BY <2>1, <2>3, FS_Subset, FS_CardinalityType
  <2>5. Permits(d) \in Nat /\ Permits(d) = Permits(c)
    BY <1>1, <2>1
  <2> QED
    BY <2>2, <2>3, <2>4, <2>5
<1>4. ASSUME NEW c \in Call, Steps(c), ~Permit(c)
      PROVE  Permitted(d)' \subseteq Permitted(d)
  BY <1>4, OthersTakeNone
<1>5. ASSUME Dies
      PROVE  Permitted(d)' \subseteq Permitted(d)
  BY <1>5 DEF Dies, Permitted, Pool, Call
<1>6. ASSUME call' = call
      PROVE  Permitted(d)' \subseteq Permitted(d)
  BY <1>6 DEF Permitted, Pool
<1> QED
  <2>1. CASE \E c \in Call : Steps(c)
    BY <1>2, <1>3, <1>4, <2>1
  <2>2. CASE Dies
    BY <1>2, <1>5, <2>2
  <2>3. CASE call' = call
    BY <1>2, <1>6, <2>3
  <2> QED
    BY <2>1, <2>2, <2>3, CallsWritten

-----------------------------------------------------------------------------
(* The breaker.                                                             *)

LEMMA OutagesKept ==
  ASSUME ClientTyped, OutagesCounted, [ClientNext]_clientVars
  PROVE  OutagesCounted'
<1> USE DEF ClientTyped, CallsOK, LocalAgentOK, OutagesCounted, localAgent
<1>1. CASE Lives
  BY <1>1 DEF Lives, Dies, local, clientState
<1>2. ASSUME NEW c \in Call, Steps(c)
      PROVE  OutagesCounted'
  <2> USE DEF To, Ends
  <2>1. CASE Check(c) \/ Permit(c) \/ Connect(c) \/ Lock(c)
    BY <2>1 DEF Check, Permit, Connect, Lock
  <2>2. CASE ConnectFails(c)
    BY <2>2 DEF ConnectFails
  <2>3. CASE Stamp(c)
    BY <2>3 DEF Stamp
  <2>4. CASE Answer(c) \/ TimesOut(c)
    BY <2>4 DEF Answer, TimesOut
  <2> QED
    BY <1>2, <2>1, <2>2, <2>3, <2>4 DEF Steps
<1>3. CASE \/ CoolsDown \/ RotateAsks \/ RotateReturns \/ RotateStores
           \/ UpdateToken \/ UpdateEnv \/ RotateCut
  BY <1>3 DEF CoolsDown, RotateAsks, RotateReturns, RotateStores, UpdateToken,
      UpdateEnv, RotateCut
<1>4. CASE AgentDown \/ AgentUp \/ UNCHANGED clientVars
  BY <1>4 DEF AgentDown, AgentUp, clientVars, local, clientState
<1> QED
  BY <1>1, <1>2, <1>3, <1>4 DEF ClientNext, Steps

-----------------------------------------------------------------------------
LEMMA ClientStepKeeps == ClientInv /\ [ClientNext]_clientVars => ClientInv'
<1> SUFFICES ASSUME ClientInv, [ClientNext]_clientVars
             PROVE  ClientInv'
  OBVIOUS
<1>1. ClientTyped' /\ TokenMoves'
  BY SupervisorTyped, CallsTyped, TokensMove, LocalAgentTyped DEF ClientInv, ClientTyped
<1>2. PoolsOK' /\ OutagesCounted'
  BY PoolsKept, OutagesKept DEF ClientInv
<1> QED
  BY <1>1, <1>2 DEF ClientInv

\* The inductive invariant of the local client: the permits out, what the breaker
\* has counted, and how far a rotation has brought the new token.
THEOREM ClientInvariant == ClientSpec => []ClientInv
  BY ClientInitially, ClientStepKeeps, PTL DEF ClientSpec

\* permit_within: neither pool is ever overdrawn, whatever calls wait, fail or time
\* out, for pools of any size.
THEOREM PoolsNeverOverdrawn == ClientSpec => []ClientTypeOK
<1>1. ClientInv => ClientTypeOK
  BY DEF ClientInv, ClientTyped, ClientTypeOK, CallsOK, TokensOK, LocalAgentOK, PoolsOK
<1> QED
  BY <1>1, ClientInvariant, PTL

\* record_failure: without an outage the breaker has counted nothing, however many
\* calls there are and whatever the threshold.
THEOREM BusyIsNotCounted == ClientSpec => []BusyIsNotDown
<1>1. ClientInv => BusyIsNotDown
  BY DEF ClientInv, OutagesCounted, BusyIsNotDown
<1> QED
  BY <1>1, ClientInvariant, PTL

\* rotate_token and update_token: the client and its file have the agent's token
\* outside the steps of a rotation, but for the rotations, the ends of the process and
\* the failures of api.env that TokenFollows names.
THEOREM LocalTokenFollows == ClientSpec => []TokenFollows
<1>1. ClientInv => TokenFollows
  BY DEF ClientInv, ClientTyped, TokensOK, TokenMoves, TokenFollows
<1> QED
  BY <1>1, ClientInvariant, PTL

-----------------------------------------------------------------------------
(* The background task and its supervisor.                                  *)

\* While the panel is up nobody has been sent a signal, and the supervisor waits for
\* the end of the task or sleeps before the next start: no end of the task is missed.
\* This is what TaskComesBack needs of every state; the rest of it is fairness.
TaskIsWatched ==
  phase = "up" =>
    /\ signal = {} /\ watcher \in {"watching", "sleeping"}
    /\ watcher = "sleeping" <=> task = "none"

\* spawn_supervised: for any number of panics, and through shutdowns and crashes at
\* any moment, a panel that is up has its task or somebody who starts it.
THEOREM TaskNeverForgotten == ClientSpec => []TaskIsWatched
<1>1. ClientInit => TaskIsWatched
  BY DEF ClientInit, SupervisorInit, TaskIsWatched
<1>2. TaskIsWatched /\ [ClientNext]_clientVars => TaskIsWatched'
  <2> SUFFICES ASSUME TaskIsWatched, [ClientNext]_clientVars
               PROVE  TaskIsWatched'
    OBVIOUS
  <2> USE DEF TaskIsWatched, supervision
  <2>1. CASE TaskPanics \/ TaskHears
    BY <2>1 DEF TaskPanics, TaskHears
  <2>2. CASE WatcherSeesEnd \/ WatcherHears
    BY <2>2 DEF WatcherSeesEnd, WatcherHears
  <2>3. CASE Restart \/ Boot
    BY <2>3 DEF Restart, Boot, Started
  <2>4. CASE Signal \/ PoolCloses
    BY <2>4 DEF Signal, PoolCloses
  <2>5. CASE MainReturns \/ Watchdog \/ PanelCrashes
    BY <2>5 DEF MainReturns, Watchdog, PanelCrashes, Gone
  <2>6. CASE UNCHANGED supervision
    BY <2>6
  <2>7. CASE \E c \in Call : Steps(c)
    BY <2>6, <2>7, CallsLeave
  <2>8. CASE \/ CoolsDown \/ RotateAsks \/ RotateReturns \/ RotateStores
             \/ UpdateToken \/ UpdateEnv \/ RotateCut
    BY <2>8 DEF CoolsDown, RotateAsks, RotateReturns, RotateStores, UpdateToken,
        UpdateEnv, RotateCut
  <2>9. CASE AgentDown \/ AgentUp
    BY <2>9 DEF AgentDown, AgentUp
  <2> QED
    BY <2>1, <2>2, <2>3, <2>4, <2>5, <2>6, <2>7, <2>8, <2>9
    DEF ClientNext, Steps, Lives, clientVars
<1> QED
  BY <1>1, <1>2, PTL DEF ClientSpec
=============================================================================
