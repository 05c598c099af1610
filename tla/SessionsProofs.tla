--------------------------- MODULE SessionsProofs ---------------------------
(***************************************************************************)
(* The end of a session, the change of an account and "revoke all" hold,   *)
(* for any number of tokens, handlers, faults, processes and ticks.  The   *)
(* invariant says where an end is while it is under way and where it is    *)
(* afterwards: in the table for as long as the token could be used, and,   *)
(* while the process serves, in the memory and in what a reload of the     *)
(* memory has read.                                                        *)
(***************************************************************************)
EXTENDS Sessions, TLAPS

-----------------------------------------------------------------------------
(* Types, with what the lists and the handlers may name.                     *)

RequestType ==
  [at : {"new", "done", "sweep", "mark", "store", "setting", "cache"},
   list : SUBSET Session, left : SUBSET Session,
   time : 0 .. MaxClock, epoch : 0 .. MaxEpoch, alone : BOOLEAN, failed : BOOLEAN]

ProcessOK ==
  /\ up \in BOOLEAN /\ lives \in 1 .. MaxLives /\ clock \in 1 .. MaxClock
  /\ cleanup \in {"tick", "refill"} /\ faults \in 0 .. MaxFaults
  /\ ~up => memory = {} /\ revokedAt = None /\ cleanup = "tick" /\ lives < MaxLives

TokensOK ==
  /\ epoch \in 0 .. MaxEpoch
  /\ token \in [Session -> [at : {"none", "checked", "given"}, iat : 0 .. MaxClock,
                            epoch : 0 .. MaxEpoch]]
  /\ \A s \in Session :
       /\ token[s].at = "given" <=> token[s].iat # None
       /\ token[s].iat <= clock /\ token[s].epoch <= epoch

\* A row of the blacklist lasts as long as its token.
ListsOK ==
  /\ rows \subseteq Given /\ memory \subseteq Given
  /\ active \subseteq Given /\ ended \subseteq Given
  /\ table \in [Session -> 0 .. MaxClock + Life]
  /\ \A s \in Session : table[s] # None => s \in Given /\ token[s].iat + Life <= table[s]

RequestsOK ==
  /\ request \in [Request -> RequestType]
  /\ \A r \in Request :
       /\ request[r].list \subseteq Given /\ request[r].left \subseteq Given
       /\ ~up => request[r].at \in {"new", "done"}
       /\ request[r].at = "mark" => request[r].left = request[r].list

-----------------------------------------------------------------------------
(* Where the end of a session is: in the table, and in the memory and what a *)
(* reload of it has read, or it is among the exceptions.                     *)

Expired(s) == token[s].iat + Life <= clock
Stored(s) == s \in unstored \/ Expired(s) \/ table[s] # None
Held(s) ==
  \/ s \in unseen \/ Expired(s)
  \/ s \in memory /\ (cleanup = "refill" => s \in active)
Over(s) == s \in unstored \/ (Stored(s) /\ (up => Held(s)))

EndsKept == \A s \in ended : Over(s)
StoresHold ==
  \A r \in Request : request[r].at = "store" =>
    /\ \A s \in request[r].list : Held(s)
    /\ \A s \in request[r].list \ request[r].left : Stored(s)

-----------------------------------------------------------------------------
(* What a change of the account relies on: a session without a row is over,  *)
(* or in the hands of a handler; each change has a number of its own; and    *)
(* the rows left by a sweep that did not fail are as new as the change.      *)

Taken(s) == \E r \in Request : request[r].at \in {"mark", "store"} /\ s \in request[r].list
RowsGone == \A s \in Given \ unlisted : s \in rows \/ Over(s) \/ Taken(s)
Swept ==
  /\ settled \in Nat /\ settled <= epoch
  /\ \A r \in Request :
       /\ request[r].epoch <= epoch
       /\ request[r].at = "sweep" =>
            /\ request[r].epoch # 0 /\ request[r].epoch # settled
            /\ \A s \in request[r].left : token[s].epoch >= request[r].epoch
       /\ \A q \in Request :
            q # r /\ request[r].epoch = request[q].epoch => request[r].epoch = 0
RowsNew ==
  \A s \in rows \ (unlisted \cup missed) :
    /\ token[s].epoch >= settled
    /\ \A r \in Request :
         request[r].at \in {"mark", "store"} => token[s].epoch >= request[r].epoch

-----------------------------------------------------------------------------
(* The setting and the memory are never behind the last revocation that was  *)
(* alone, unless it was not written or not loaded, and the time a handler is *)
(* about to write is not before it.                                          *)

Revokes ==
  /\ {revokedAt, revokedRow, cutoff} \subseteq 0 .. MaxClock
  /\ cutoff <= clock /\ unsaved \in BOOLEAN
  /\ ~unsaved => cutoff <= revokedRow
  /\ up /\ ~lost => cutoff <= revokedAt
  /\ \A r \in Revoking :
       /\ cutoff <= request[r].time /\ request[r].time <= clock
       /\ request[r].alone => \A q \in Revoking : q = r
       /\ request[r].alone /\ request[r].at = "cache" /\ ~request[r].failed =>
            request[r].time <= revokedRow

Types == ProcessOK /\ TokensOK /\ ListsOK /\ RequestsOK
Ends == EndsKept /\ StoresHold
Changes == RowsGone /\ Swept /\ RowsNew
IInv == Types /\ Ends /\ Changes /\ Revokes

-----------------------------------------------------------------------------
\* The records of the handlers.
LEMMA NewIs ==
  /\ New \in RequestType /\ New.at = "new" /\ New.list = {} /\ New.left = {}
  /\ New.epoch = 0 /\ New.time = None /\ New.alone
  BY SessionsAssumption DEF New, RequestType, None

LEMMA Initially == Init => IInv
<1> SUFFICES ASSUME Init PROVE IInv
  OBVIOUS
<1> USE SessionsAssumption DEF Init
<1>1. Given = {} /\ \A s \in Session : token[s] = NoToken
  BY DEF Given, NoToken
<1>2. \A r \in Request : request[r] = New
  OBVIOUS
<1>3. ProcessOK
  BY DEF ProcessOK
<1>4. TokensOK
  BY <1>1 DEF TokensOK, NoToken, None
<1>5. ListsOK
  BY DEF ListsOK, None
<1>6. RequestsOK
  BY <1>2 DEF RequestsOK, RequestType, New, None
<1>7. EndsKept /\ StoresHold /\ RowsGone /\ Swept /\ RowsNew
  BY <1>1, <1>2 DEF EndsKept, StoresHold, RowsGone, Swept, RowsNew, New
<1>8. Revokes
  <2>1. Revoking = {}
    BY <1>2, NewIs DEF Revoking
  <2>2. /\ {revokedAt, revokedRow, cutoff} \subseteq 0 .. MaxClock
        /\ cutoff = 0 /\ revokedRow = 0 /\ revokedAt = 0 /\ clock = 1 /\ unsaved = FALSE
    BY DEF None
  <2>3. cutoff <= clock /\ cutoff <= revokedRow /\ cutoff <= revokedAt
    BY <2>2
  <2>4. unsaved \in BOOLEAN
    BY <2>2
  <2> HIDE DEF Init
  <2> QED
    BY <2>1, <2>2, <2>3, <2>4, Zenon DEF Revokes
<1> QED
  BY <1>3, <1>4, <1>5, <1>6, <1>7, <1>8 DEF IInv, Types, Ends, Changes

-----------------------------------------------------------------------------
(* Types.                                                                    *)

\* What a step may be.
LEMMA Steps ==
  ASSUME [Next]_vars
  PROVE  \/ Tick \/ Dies \/ Boot \/ CleanupReads \/ CleanupRefills \/ UNCHANGED vars
         \/ \E s \in Session : LoginCheck(s) \/ LoginIssue(s)
         \/ \E r \in Request, s \in Session :
              Logout(r, s) \/ RevokeSession(r, s) \/ StoreOne(r, s)
         \/ \E r \in Request :
              \/ SweepDeletes(r) \/ MarkList(r)
              \/ RevokeAll(r) \/ WriteSetting(r) \/ WriteCache(r)
              \/ \E K \in SUBSET Given : ChangeAccount(r, K)
<1>1. \A s \in Session : Accepted(s) => {s} \in SUBSET Given
  BY DEF Accepted
<1>2. {} \in SUBSET Given
  OBVIOUS
<1> QED
  BY <1>1, <1>2 DEF Next

LEMMA ProcessKeeps ==
  ASSUME Types, [Next]_vars
  PROVE  ProcessOK'
<1> USE SessionsAssumption DEF Types, ProcessOK, ListsOK, process, account, lists, revoked,
   reload, history, Faulty, At, None
<1>1. CASE Tick
  BY <1>1 DEF Tick
<1>2. CASE Dies
  BY <1>2 DEF Dies
<1>3. CASE Boot
  BY <1>3 DEF Boot
<1>4. CASE CleanupReads
  BY <1>4 DEF CleanupReads
<1>5. CASE CleanupRefills
  BY <1>5 DEF CleanupRefills
<1>6. ASSUME NEW s \in Session, LoginCheck(s) \/ LoginIssue(s)
      PROVE  ProcessOK'
  BY <1>6 DEF LoginCheck, LoginIssue
<1>7. ASSUME NEW r \in Request, NEW s \in Session, Logout(r, s) \/ RevokeSession(r, s)
      PROVE  ProcessOK'
  BY <1>7 DEF Logout, Mark, RevokeSession
<1>8. ASSUME NEW r \in Request, NEW s \in Session, StoreOne(r, s)
      PROVE  ProcessOK'
  BY <1>8 DEF StoreOne, Store
<1>9. ASSUME NEW r \in Request, SweepDeletes(r) \/ MarkList(r)
      PROVE  ProcessOK'
  BY <1>9 DEF SweepDeletes, MarkList, Mark, Step
<1>10. ASSUME NEW r \in Request, RevokeAll(r)
      PROVE  ProcessOK'
  BY <1>10 DEF RevokeAll
<1>11. ASSUME NEW r \in Request, WriteSetting(r)
      PROVE  ProcessOK'
  BY <1>11 DEF WriteSetting, Step
<1>12. ASSUME NEW r \in Request, WriteCache(r)
      PROVE  ProcessOK'
  BY <1>12 DEF WriteCache
<1>13. ASSUME NEW r \in Request, NEW K \in SUBSET Given, ChangeAccount(r, K)
      PROVE  ProcessOK'
  BY <1>13 DEF ChangeAccount
<1>14. CASE UNCHANGED vars
  BY <1>14 DEF vars
<1> QED
  BY <1>1, <1>2, <1>3, <1>4, <1>5, <1>6, <1>7, <1>8, <1>9, <1>10, <1>11, <1>12, <1>13,
     <1>14, Steps

LEMMA TokensKeep ==
  ASSUME Types, [Next]_vars
  PROVE  TokensOK'
<1> USE SessionsAssumption DEF Types, ProcessOK, TokensOK, NoToken, At, None, process,
   account, lists, revoked, reload, history
<1>1. CASE Tick
  BY <1>1 DEF Tick
<1>2. CASE Dies
  BY <1>2 DEF Dies
<1>3. CASE Boot
  BY <1>3 DEF Boot
<1>4. CASE CleanupReads
  BY <1>4 DEF CleanupReads
<1>5. CASE CleanupRefills
  BY <1>5 DEF CleanupRefills
<1>6. ASSUME NEW s \in Session, LoginCheck(s) \/ LoginIssue(s)
      PROVE  TokensOK'
  <2>1. CASE LoginCheck(s)
    BY <2>1 DEF LoginCheck
  <2>2. CASE LoginIssue(s)
    <3>1. token' = [token EXCEPT ![s] = [token[s] EXCEPT !.at = "given", !.iat = clock]]
          /\ epoch' = epoch /\ clock' = clock
      BY <2>2 DEF LoginIssue
    <3>2. token'[s] = [token[s] EXCEPT !.at = "given", !.iat = clock]
          /\ \A x \in Session : x # s => token'[x] = token[x]
      BY <3>1
    <3>3. token'[s].at = "given" /\ token'[s].iat = clock /\ token'[s].epoch = token[s].epoch
      BY <3>2
    <3>4. clock # None /\ clock \in 0 .. MaxClock
      BY DEF None
    <3>5. token' \in [Session -> [at : {"none", "checked", "given"}, iat : 0 .. MaxClock,
                                  epoch : 0 .. MaxEpoch]]
      BY <3>1, <3>4
    <3> QED
      BY <3>1, <3>2, <3>3, <3>4, <3>5
  <2> QED
    BY <1>6, <2>1, <2>2
<1>7. ASSUME NEW r \in Request, NEW s \in Session, Logout(r, s) \/ RevokeSession(r, s)
      PROVE  TokensOK'
  BY <1>7 DEF Logout, Mark, RevokeSession
<1>8. ASSUME NEW r \in Request, NEW s \in Session, StoreOne(r, s)
      PROVE  TokensOK'
  BY <1>8 DEF StoreOne, Store
<1>9. ASSUME NEW r \in Request, SweepDeletes(r) \/ MarkList(r)
      PROVE  TokensOK'
  BY <1>9 DEF SweepDeletes, MarkList, Mark, Step
<1>10. ASSUME NEW r \in Request, RevokeAll(r)
      PROVE  TokensOK'
  BY <1>10 DEF RevokeAll
<1>11. ASSUME NEW r \in Request, WriteSetting(r)
      PROVE  TokensOK'
  BY <1>11 DEF WriteSetting, Step
<1>12. ASSUME NEW r \in Request, WriteCache(r)
      PROVE  TokensOK'
  BY <1>12 DEF WriteCache
<1>13. ASSUME NEW r \in Request, NEW K \in SUBSET Given, ChangeAccount(r, K)
      PROVE  TokensOK'
  BY <1>13 DEF ChangeAccount
<1>14. CASE UNCHANGED vars
  BY <1>14 DEF vars
<1> QED
  BY <1>1, <1>2, <1>3, <1>4, <1>5, <1>6, <1>7, <1>8, <1>9, <1>10, <1>11, <1>12, <1>13,
     <1>14, Steps

\* Time goes on; a token that was given stays as it was given, and a change keeps
\* up with it only by the session that asked for it.
Ahead ==
  /\ clock \in Nat /\ clock' \in Nat /\ clock <= clock'
  /\ \A s \in Given : /\ s \in Given' /\ token'[s].iat = token[s].iat
                      /\ token[s].epoch <= token'[s].epoch

LEMMA RevokeAllSpares ==
  ASSUME NEW r \in Request, RevokeAll(r)
  PROVE  /\ up /\ UNCHANGED <<process, clock, account, lists, revoked, reload, faults, history>>
<1>1. At(r, "new") /\ UNCHANGED <<process, clock, account, lists, revoked, reload, faults, history>>
  BY Zenon DEF RevokeAll
<1> QED
  BY <1>1 DEF At

LEMMA GivenStays ==
  ASSUME Types, [Next]_vars
  PROVE  Ahead
<1> USE SessionsAssumption DEF Types, ProcessOK, TokensOK, Ahead, Given, NoToken, At, None,
   process, account, lists, revoked, reload, history
<1>1. CASE Tick
  BY <1>1 DEF Tick
<1>2. CASE Dies
  BY <1>2 DEF Dies
<1>3. CASE Boot
  BY <1>3 DEF Boot
<1>4. CASE CleanupReads
  BY <1>4 DEF CleanupReads
<1>5. CASE CleanupRefills
  BY <1>5 DEF CleanupRefills
<1>6. ASSUME NEW s \in Session, LoginCheck(s) \/ LoginIssue(s)
      PROVE  Ahead
  BY <1>6 DEF LoginCheck, LoginIssue
<1>7. ASSUME NEW r \in Request, NEW s \in Session, Logout(r, s) \/ RevokeSession(r, s)
      PROVE  Ahead
  BY <1>7 DEF Logout, Mark, RevokeSession
<1>8. ASSUME NEW r \in Request, NEW s \in Session, StoreOne(r, s)
      PROVE  Ahead
  BY <1>8 DEF StoreOne, Store
<1>9. ASSUME NEW r \in Request, SweepDeletes(r) \/ MarkList(r)
      PROVE  Ahead
  BY <1>9 DEF SweepDeletes, MarkList, Mark, Step
<1>10. ASSUME NEW r \in Request, RevokeAll(r)
      PROVE  Ahead
  BY <1>10, RevokeAllSpares
<1>11. ASSUME NEW r \in Request, WriteSetting(r)
      PROVE  Ahead
  BY <1>11 DEF WriteSetting, Step
<1>12. ASSUME NEW r \in Request, WriteCache(r)
      PROVE  Ahead
  BY <1>12 DEF WriteCache
<1>13. ASSUME NEW r \in Request, NEW K \in SUBSET Given, ChangeAccount(r, K)
      PROVE  Ahead
  BY <1>13 DEF ChangeAccount
<1>14. CASE UNCHANGED vars
  BY <1>14 DEF vars
<1> QED
  BY <1>1, <1>2, <1>3, <1>4, <1>5, <1>6, <1>7, <1>8, <1>9, <1>10, <1>11, <1>12, <1>13,
     <1>14, Steps

LEMMA ListsKeep ==
  ASSUME Types, [Next]_vars
  PROVE  ListsOK'
<1> USE SessionsAssumption, GivenStays DEF Types, ProcessOK, TokensOK, ListsOK, Ahead,
   Faulty, Blacklisted, Unexpired, At, None, process, account, lists, revoked, reload,
   history
<1>1. CASE Tick
  BY <1>1 DEF Tick
<1>2. CASE Dies
  BY <1>2 DEF Dies
<1>3. CASE Boot
  BY <1>3 DEF Boot
<1>4. CASE CleanupReads
  BY <1>4 DEF CleanupReads
<1>5. CASE CleanupRefills
  BY <1>5 DEF CleanupRefills
<1>6. ASSUME NEW s \in Session, LoginCheck(s) \/ LoginIssue(s)
      PROVE  ListsOK'
  <2>1. CASE LoginCheck(s)
    BY <2>1 DEF LoginCheck
  <2>2. CASE LoginIssue(s)
    <3>1. /\ token' = [token EXCEPT ![s] = [token[s] EXCEPT !.at = "given", !.iat = clock]]
          /\ rows' \subseteq rows \cup {s} /\ token[s].at = "checked"
          /\ UNCHANGED <<clock, memory, table, active, ended>>
      BY <2>2 DEF LoginIssue
    <3> USE DEF TokensOK, Given
    <3>2. token'[s].at = "given" /\ \A x \in Session : x # s => token'[x] = token[x]
      BY <3>1
    <3>3. s \notin Given /\ Given' = Given \cup {s}
      BY <3>1, <3>2
    <3> QED
      BY <3>1, <3>2, <3>3
  <2> QED
    BY <1>6, <2>1, <2>2
<1>7. ASSUME NEW r \in Request, NEW s \in Session, Logout(r, s)
      PROVE  ListsOK'
  BY <1>7 DEF Logout, Mark, Accepted
<1>8. ASSUME NEW r \in Request, NEW s \in Session, RevokeSession(r, s)
      PROVE  ListsOK'
  BY <1>8 DEF RevokeSession
<1>9. ASSUME NEW r \in Request, NEW s \in Session, StoreOne(r, s)
      PROVE  ListsOK'
  <2> USE DEF StoreOne, Store
  <2>1. s \in Given /\ request[r].list \subseteq Given
    BY <1>9 DEF RequestsOK
  <2>2. rows' \subseteq rows /\ memory' = memory /\ active' = active /\ token' = token
        /\ Given' = Given /\ ended' \subseteq Given
    BY <1>9, <2>1 DEF Given
  <2>3. table' = table \/ table' = [table EXCEPT ![s] = IF @ = None THEN clock + Life ELSE @]
    BY <1>9
  <2>4. token[s].iat + Life <= clock + Life /\ clock + Life \in 0 .. MaxClock + Life
    BY <2>1
  <2>5. table' \in [Session -> 0 .. MaxClock + Life]
    BY <2>3, <2>4
  <2>6. \A q \in Session : table'[q] # None => q \in Given /\ token[q].iat + Life <= table'[q]
    BY <2>1, <2>3, <2>4
  <2> QED
    BY <2>2, <2>5, <2>6
<1>10. ASSUME NEW r \in Request, SweepDeletes(r)
      PROVE  ListsOK'
  BY <1>10 DEF SweepDeletes
<1>11. ASSUME NEW r \in Request, MarkList(r)
      PROVE  ListsOK'
  BY <1>11 DEF MarkList, Mark, Step, RequestsOK, RequestType
<1>12. ASSUME NEW r \in Request, RevokeAll(r)
      PROVE  ListsOK'
  BY <1>12 DEF RevokeAll
<1>13. ASSUME NEW r \in Request, WriteSetting(r)
      PROVE  ListsOK'
  BY <1>13 DEF WriteSetting, Step
<1>14. ASSUME NEW r \in Request, WriteCache(r)
      PROVE  ListsOK'
  BY <1>14 DEF WriteCache
<1>15. ASSUME NEW r \in Request, NEW K \in SUBSET Given, ChangeAccount(r, K)
      PROVE  ListsOK'
  BY <1>15 DEF ChangeAccount
<1>16. CASE UNCHANGED vars
  BY <1>16 DEF vars
<1> QED
  BY <1>1, <1>2, <1>3, <1>4, <1>5, <1>6, <1>7, <1>8, <1>9, <1>10, <1>11, <1>12, <1>13,
     <1>14, <1>15, <1>16, Steps

\* One handler goes on.
Moved(r, v) == request' = [request EXCEPT ![r] = v]

LEMMA OneMoves ==
  ASSUME Types, Ahead, NEW r \in Request, NEW v \in RequestType, Moved(r, v), up,
         up' = up, v.list \subseteq Given, v.left \subseteq Given,
         v.at = "mark" => v.left = v.list
  PROVE  RequestsOK'
<1> USE DEF Types, RequestsOK, Moved, Ahead
<1>1. request' \in [Request -> RequestType]
  OBVIOUS
<1>2. ASSUME NEW q \in Request
      PROVE  /\ request'[q].list \subseteq Given' /\ request'[q].left \subseteq Given'
             /\ request'[q].at = "mark" => request'[q].left = request'[q].list
  <2>1. CASE q = r
    <3>1. request'[q] = v
      BY <2>1
    <3> QED
      BY <3>1
  <2>2. CASE q # r
    <3>1. request'[q] = request[q]
      BY <2>2
    <3> QED
      BY <3>1
  <2> QED
    BY <2>1, <2>2
<1> QED
  BY <1>1, <1>2

LEMMA DoneIs ==
  /\ Done \in RequestType /\ Done.at = "done" /\ Done.list = {} /\ Done.left = {}
  /\ Done.epoch = 0
  BY NewIs DEF Done, RequestType

LEMMA RequestsKeep ==
  ASSUME Types, [Next]_vars
  PROVE  RequestsOK'
<1> USE DEF process, account, lists, revoked, reload, history, At
<1>1. CASE Tick
  BY <1>1, GivenStays DEF Tick, Types, RequestsOK, Ahead, ProcessOK
<1>2. CASE Dies
  <2>1. request' = [r \in Request |-> IF request[r].at = "new" THEN New ELSE Done]
    BY <1>2 DEF Dies
  <2>2. request' \in [Request -> RequestType]
    BY <2>1, NewIs, DoneIs
  <2>3. \A q \in Request : request'[q] = New \/ request'[q] = Done
    BY <2>1
  <2> QED
    BY <2>2, <2>3, NewIs, DoneIs DEF RequestsOK
<1>3. CASE Boot
  BY <1>3, GivenStays DEF Boot, Types, RequestsOK, Ahead, ProcessOK
<1>4. CASE CleanupReads
  BY <1>4, GivenStays DEF CleanupReads, Types, RequestsOK, Ahead, ProcessOK
<1>5. CASE CleanupRefills
  BY <1>5, GivenStays DEF CleanupRefills, Types, RequestsOK, Ahead, ProcessOK
<1>6. ASSUME NEW s \in Session, LoginCheck(s)
      PROVE  RequestsOK'
  BY <1>6, GivenStays DEF LoginCheck, Types, RequestsOK, Ahead, ProcessOK
<1>7. ASSUME NEW s \in Session, LoginIssue(s)
      PROVE  RequestsOK'
  BY <1>7, GivenStays DEF LoginIssue, Types, RequestsOK, Ahead, ProcessOK
<1>8. ASSUME NEW r \in Request, NEW s \in Session, Logout(r, s)
      PROVE  RequestsOK'
  <2> DEFINE v == [New EXCEPT !.at = "store", !.list = {s}, !.left = {s}]
  <2>1. Moved(r, v) /\ up /\ up' = up
    BY <1>8 DEF Moved, Logout
  <2>2. /\ v \in RequestType /\ v.list \subseteq Given /\ v.left \subseteq Given
        /\ v.at = "mark" => v.left = v.list
    BY <1>8, NewIs DEF Logout, Accepted, RequestType, Given
  <2> HIDE DEF v
  <2> QED
    BY <2>1, <2>2, GivenStays, OneMoves
<1>9. ASSUME NEW r \in Request, NEW s \in Session, RevokeSession(r, s)
      PROVE  RequestsOK'
  <2> DEFINE v == [New EXCEPT !.at = "mark", !.list = {s}, !.left = {s}]
  <2>1. Moved(r, v) /\ up /\ up' = up
    BY <1>9 DEF Moved, RevokeSession
  <2>2. /\ v \in RequestType /\ v.list \subseteq Given /\ v.left \subseteq Given
        /\ v.at = "mark" => v.left = v.list
    BY <1>9, NewIs DEF RevokeSession, Types, ListsOK, RequestType, Given
  <2> HIDE DEF v
  <2> QED
    BY <2>1, <2>2, GivenStays, OneMoves
<1>10. ASSUME NEW r \in Request, NEW s \in Session, StoreOne(r, s)
      PROVE  RequestsOK'
  <2> DEFINE w == [request[r] EXCEPT !.left = @ \ {s}]
  <2>1. (Moved(r, Done) \/ Moved(r, w)) /\ up /\ up' = up /\ request[r].at = "store"
    BY <1>10 DEF Moved, StoreOne
  <2>2. w \in RequestType /\ w.list \subseteq Given /\ w.left \subseteq Given /\ w.at # "mark"
    <3>1. request[r].left \ {s} \in SUBSET Session
      BY DEF Types, RequestsOK, RequestType
    <3> QED
      BY <2>1, <3>1 DEF Types, RequestsOK, RequestType
  <2> HIDE DEF w
  <2> QED
    BY <2>1, <2>2, GivenStays, OneMoves, DoneIs
<1>11. ASSUME NEW r \in Request, SweepDeletes(r)
      PROVE  RequestsOK'
  <2> DEFINE found == rows \ request[r].left
             w == [request[r] EXCEPT !.at = "mark", !.list = found, !.left = found]
  <2>1. (Moved(r, Done) \/ Moved(r, w)) /\ up /\ up' = up
    BY <1>11 DEF Moved, SweepDeletes
  <2>2. found \in SUBSET Session /\ found \subseteq Given
    BY DEF Types, ListsOK, Given
  <2> HIDE DEF found
  <2>3. w \in RequestType /\ w.list \subseteq Given /\ w.left \subseteq Given /\ w.left = w.list
    BY <2>2 DEF Types, RequestsOK, RequestType
  <2> HIDE DEF w
  <2> QED
    BY <2>1, <2>3, GivenStays, OneMoves, DoneIs
<1>12. ASSUME NEW r \in Request, MarkList(r)
      PROVE  RequestsOK'
  <2> DEFINE w == [request[r] EXCEPT !.at = "store"]
  <2>1. Moved(r, w) /\ up /\ up' = up
    BY <1>12 DEF Moved, MarkList, Step
  <2>2. w \in RequestType /\ w.list \subseteq Given /\ w.left \subseteq Given /\ w.at # "mark"
    BY DEF Types, RequestsOK, RequestType
  <2> HIDE DEF w
  <2> QED
    BY <2>1, <2>2, GivenStays, OneMoves
<1>13. ASSUME NEW r \in Request, RevokeAll(r)
      PROVE  RequestsOK'
  <2>1. up /\ up' = up /\ Given' = Given /\ clock \in 0 .. MaxClock
    BY <1>13, RevokeAllSpares DEF Given, Types, ProcessOK
  <2> DEFINE v == [New EXCEPT !.at = "setting", !.time = clock, !.alone = (Revoking = {})]
  <2>2. v \in RequestType /\ v.list = {} /\ v.left = {} /\ v.at = "setting"
    <3>1. (Revoking = {}) \in BOOLEAN
      OBVIOUS
    <3> QED
      BY <2>1, <3>1, NewIs DEF RequestType
  <2>3. \A q \in Request :
          request'[q] = v \/ request'[q] = request[q] \/ request'[q] = [request[q] EXCEPT !.alone = FALSE]
    BY <1>13 DEF RevokeAll
  <2> HIDE DEF v
  <2>4. \A q \in Request : request'[q] \in RequestType
    <3>1. \A q \in Request : [request[q] EXCEPT !.alone = FALSE] \in RequestType
      BY DEF Types, RequestsOK, RequestType
    <3> QED
      BY <2>2, <2>3, <3>1 DEF Types, RequestsOK
  <2>5. request' \in [Request -> RequestType]
    BY <1>13, <2>4 DEF RevokeAll
  <2>6. ASSUME NEW q \in Request
        PROVE  /\ request'[q].list \subseteq Given /\ request'[q].left \subseteq Given
               /\ request'[q].at = "mark" => request'[q].left = request'[q].list
    <3>1. request[q] \in RequestType
      BY DEF Types, RequestsOK
    <3> QED
      BY <2>2, <2>3, <3>1 DEF Types, RequestsOK, RequestType
  <2> QED
    BY <2>1, <2>5, <2>6 DEF RequestsOK
<1>14. ASSUME NEW r \in Request, WriteSetting(r)
      PROVE  RequestsOK'
  <2> DEFINE v == [request[r] EXCEPT !.at = "cache"]
             w == [request[r] EXCEPT !.at = "cache", !.failed = TRUE]
  <2>1. (Moved(r, v) \/ Moved(r, w) \/ Moved(r, Done)) /\ up /\ up' = up
    BY <1>14 DEF Moved, WriteSetting, Step
  <2>2. v \in RequestType /\ v.list \subseteq Given /\ v.left \subseteq Given /\ v.at # "mark"
    BY DEF Types, RequestsOK, RequestType
  <2>3. w \in RequestType /\ w.list \subseteq Given /\ w.left \subseteq Given /\ w.at # "mark"
    BY DEF Types, RequestsOK, RequestType
  <2> HIDE DEF v, w
  <2> QED
    BY <2>1, <2>2, <2>3, GivenStays, OneMoves, DoneIs
<1>15. ASSUME NEW r \in Request, WriteCache(r)
      PROVE  RequestsOK'
  <2>1. Moved(r, Done) /\ up /\ up' = up
    BY <1>15 DEF Moved, WriteCache
  <2> QED
    BY <2>1, GivenStays, OneMoves, DoneIs
<1>16. ASSUME NEW r \in Request, NEW K \in SUBSET Given, ChangeAccount(r, K)
      PROVE  RequestsOK'
  <2> DEFINE v == [New EXCEPT !.at = "sweep", !.epoch = epoch + 1, !.left = K]
  <2>1. Moved(r, v) /\ up /\ up' = up
    BY <1>16 DEF Moved, ChangeAccount
  <2>2. /\ v \in RequestType /\ v.list \subseteq Given /\ v.left \subseteq Given
        /\ v.at = "mark" => v.left = v.list
    <3>1. K \in SUBSET Session /\ epoch + 1 \in 0 .. MaxEpoch
      BY <1>16, SessionsAssumption DEF ChangeAccount, TokensOK, Types, Given
    <3> QED
      BY <3>1, NewIs DEF RequestType
  <2> HIDE DEF v
  <2> QED
    BY <2>1, <2>2, GivenStays, OneMoves
<1>17. CASE UNCHANGED vars
  BY <1>17, GivenStays DEF vars, Types, RequestsOK, Ahead, ProcessOK
<1> QED
  BY <1>1, <1>2, <1>3, <1>4, <1>5, <1>6, <1>7, <1>8, <1>9, <1>10, <1>11, <1>12, <1>13,
     <1>14, <1>15, <1>16, <1>17, Steps

-----------------------------------------------------------------------------
(* The ends of sessions.                                                     *)

LEMMA UnstoredStays ==
  ASSUME [Next]_vars
  PROVE  unstored \subseteq unstored'
<1> USE DEF process, account, lists, revoked, reload, history, At
<1>1. CASE Tick
  BY <1>1 DEF Tick
<1>2. CASE Dies
  BY <1>2 DEF Dies
<1>3. CASE Boot
  BY <1>3 DEF Boot
<1>4. CASE CleanupReads
  BY <1>4 DEF CleanupReads
<1>5. CASE CleanupRefills
  BY <1>5 DEF CleanupRefills
<1>6. ASSUME NEW s \in Session, LoginCheck(s) \/ LoginIssue(s)
      PROVE  unstored \subseteq unstored'
  BY <1>6 DEF LoginCheck, LoginIssue
<1>7. ASSUME NEW r \in Request, NEW s \in Session, Logout(r, s) \/ RevokeSession(r, s)
      PROVE  unstored \subseteq unstored'
  BY <1>7 DEF Logout, Mark, RevokeSession
<1>8. ASSUME NEW r \in Request, NEW s \in Session, StoreOne(r, s)
      PROVE  unstored \subseteq unstored'
  BY <1>8 DEF StoreOne, Store
<1>9. ASSUME NEW r \in Request, SweepDeletes(r) \/ MarkList(r)
      PROVE  unstored \subseteq unstored'
  BY <1>9 DEF SweepDeletes, MarkList, Mark, Step
<1>10. ASSUME NEW r \in Request, RevokeAll(r)
      PROVE  unstored \subseteq unstored'
  BY <1>10, RevokeAllSpares
<1>11. ASSUME NEW r \in Request, WriteSetting(r)
      PROVE  unstored \subseteq unstored'
  BY <1>11 DEF WriteSetting, Step
<1>12. ASSUME NEW r \in Request, WriteCache(r)
      PROVE  unstored \subseteq unstored'
  BY <1>12 DEF WriteCache
<1>13. ASSUME NEW r \in Request, NEW K \in SUBSET Given, ChangeAccount(r, K)
      PROVE  unstored \subseteq unstored'
  BY <1>13 DEF ChangeAccount
<1>14. CASE UNCHANGED vars
  BY <1>14 DEF vars
<1> QED
  BY <1>1, <1>2, <1>3, <1>4, <1>5, <1>6, <1>7, <1>8, <1>9, <1>10, <1>11, <1>12, <1>13,
     <1>14, Steps

LEMMA BootStarts ==
  ASSUME [Next]_vars, ~up, up'
  PROVE  Boot
<1> USE DEF process, account, lists, revoked, reload, history, At, Accepted
<1>1. CASE Tick
  BY <1>1 DEF Tick
<1>2. CASE Dies
  BY <1>2 DEF Dies
<1>3. CASE Boot
  BY <1>3 DEF Boot
<1>4. CASE CleanupReads
  BY <1>4 DEF CleanupReads
<1>5. CASE CleanupRefills
  BY <1>5 DEF CleanupRefills
<1>6. ASSUME NEW s \in Session, LoginCheck(s) \/ LoginIssue(s)
      PROVE  Boot
  BY <1>6 DEF LoginCheck, LoginIssue
<1>7. ASSUME NEW r \in Request, NEW s \in Session, Logout(r, s) \/ RevokeSession(r, s)
      PROVE  Boot
  BY <1>7 DEF Logout, Mark, RevokeSession
<1>8. ASSUME NEW r \in Request, NEW s \in Session, StoreOne(r, s)
      PROVE  Boot
  BY <1>8 DEF StoreOne, Store
<1>9. ASSUME NEW r \in Request, SweepDeletes(r) \/ MarkList(r)
      PROVE  Boot
  BY <1>9 DEF SweepDeletes, MarkList, Mark, Step
<1>10. ASSUME NEW r \in Request, RevokeAll(r)
      PROVE  Boot
  BY <1>10, RevokeAllSpares
<1>11. ASSUME NEW r \in Request, WriteSetting(r)
      PROVE  Boot
  BY <1>11 DEF WriteSetting, Step
<1>12. ASSUME NEW r \in Request, WriteCache(r)
      PROVE  Boot
  BY <1>12 DEF WriteCache
<1>13. ASSUME NEW r \in Request, NEW K \in SUBSET Given, ChangeAccount(r, K)
      PROVE  Boot
  BY <1>13 DEF ChangeAccount
<1>14. CASE UNCHANGED vars
  BY <1>14 DEF vars
<1> QED
  BY <1>1, <1>2, <1>3, <1>4, <1>5, <1>6, <1>7, <1>8, <1>9, <1>10, <1>11, <1>12, <1>13,
     <1>14, Steps

LEMMA ExpiredStays ==
  ASSUME Types, [Next]_vars, NEW s \in Given, Expired(s)
  PROVE  Expired(s)'
  BY GivenStays, SessionsAssumption DEF Ahead, Expired, Types, TokensOK, Given

LEMMA StoredStays ==
  ASSUME Types, [Next]_vars, NEW x \in Given, Stored(x)
  PROVE  x \in unstored' \/ Expired(x)' \/ table'[x] # None
<1> USE ExpiredStays, SessionsAssumption DEF process, account, lists, revoked, reload,
   history, Stored, At
<1>1. CASE Tick
  BY <1>1 DEF Tick
<1>2. CASE Dies
  BY <1>2 DEF Dies
<1>3. CASE Boot
  BY <1>3 DEF Boot
<1>4. CASE CleanupReads
  <2>1. table' = [q \in Session |-> IF table[q] > clock THEN table[q] ELSE None]
        /\ UNCHANGED unstored
    BY <1>4 DEF CleanupReads, Unexpired
  <2>2. ASSUME table[x] # None, ~(table[x] > clock) PROVE Expired(x)
    <3>1. /\ table[x] \in Nat /\ clock \in Nat /\ token[x].iat \in Nat
          /\ token[x].iat + Life <= table[x]
      BY <2>2, SessionsAssumption DEF Types, ProcessOK, TokensOK, ListsOK, Given
    <3> QED
      BY <2>2, <3>1, SessionsAssumption DEF Expired
  <2> QED
    BY <2>1, <2>2 DEF Given
<1>5. CASE CleanupRefills
  BY <1>5 DEF CleanupRefills
<1>6. ASSUME NEW s \in Session, LoginCheck(s) \/ LoginIssue(s)
      PROVE  x \in unstored' \/ Expired(x)' \/ table'[x] # None
  BY <1>6 DEF LoginCheck, LoginIssue
<1>7. ASSUME NEW r \in Request, NEW s \in Session, Logout(r, s) \/ RevokeSession(r, s)
      PROVE  x \in unstored' \/ Expired(x)' \/ table'[x] # None
  BY <1>7 DEF Logout, Mark, RevokeSession
<1>8. ASSUME NEW r \in Request, NEW s \in Session, StoreOne(r, s)
      PROVE  x \in unstored' \/ Expired(x)' \/ table'[x] # None
  <2>1. unstored \subseteq unstored'
    BY <1>8 DEF StoreOne, Store
  <2>2. table' = table \/ table' = [table EXCEPT ![s] = IF @ = None THEN clock + Life ELSE @]
    BY <1>8 DEF StoreOne, Store
  <2>3. table \in [Session -> 0 .. MaxClock + Life] /\ clock + Life # None
    BY SessionsAssumption DEF Types, ListsOK, ProcessOK, None
  <2>4. table[x] # None => table'[x] # None
    BY <2>2, <2>3 DEF Given
  <2> QED
    BY <2>1, <2>4
<1>9. ASSUME NEW r \in Request, SweepDeletes(r) \/ MarkList(r)
      PROVE  x \in unstored' \/ Expired(x)' \/ table'[x] # None
  BY <1>9 DEF SweepDeletes, MarkList, Mark, Step
<1>10. ASSUME NEW r \in Request, RevokeAll(r)
      PROVE  x \in unstored' \/ Expired(x)' \/ table'[x] # None
  BY <1>10, RevokeAllSpares
<1>11. ASSUME NEW r \in Request, WriteSetting(r)
      PROVE  x \in unstored' \/ Expired(x)' \/ table'[x] # None
  BY <1>11 DEF WriteSetting, Step
<1>12. ASSUME NEW r \in Request, WriteCache(r)
      PROVE  x \in unstored' \/ Expired(x)' \/ table'[x] # None
  BY <1>12 DEF WriteCache
<1>13. ASSUME NEW r \in Request, NEW K \in SUBSET Given, ChangeAccount(r, K)
      PROVE  x \in unstored' \/ Expired(x)' \/ table'[x] # None
  BY <1>13 DEF ChangeAccount
<1>14. CASE UNCHANGED vars
  BY <1>14 DEF vars
<1> QED
  BY <1>1, <1>2, <1>3, <1>4, <1>5, <1>6, <1>7, <1>8, <1>9, <1>10, <1>11, <1>12, <1>13,
     <1>14, Steps

LEMMA HeldStays ==
  ASSUME Types, [Next]_vars, NEW x \in Given, Held(x), up, up'
  PROVE  Held(x)'
<1> USE ExpiredStays DEF process, account, lists, revoked, reload, history, Held, At, Faulty
<1>1. CASE Tick
  BY <1>1 DEF Tick
<1>2. CASE Dies
  BY <1>2 DEF Dies
<1>3. CASE Boot
  BY <1>3 DEF Boot
<1>4. CASE CleanupReads
  <2>1. /\ cleanup = "tick" /\ cleanup' = "refill" /\ memory' = memory /\ unseen \subseteq unseen'
        /\ \A q \in memory : q \in active' \/ q \in unseen'
    BY <1>4 DEF CleanupReads
  <2> QED
    BY <2>1
<1>5. CASE CleanupRefills
  <2>1. cleanup = "refill" /\ cleanup' = "tick" /\ memory' = active /\ UNCHANGED unseen
    BY <1>5 DEF CleanupRefills
  <2> QED
    BY <2>1
<1>6. ASSUME NEW s \in Session, LoginCheck(s) \/ LoginIssue(s)
      PROVE  Held(x)'
  BY <1>6 DEF LoginCheck, LoginIssue
<1>7. ASSUME NEW r \in Request, NEW s \in Session, Logout(r, s)
      PROVE  Held(x)'
  BY <1>7 DEF Logout, Mark
<1>8. ASSUME NEW r \in Request, NEW s \in Session, RevokeSession(r, s)
      PROVE  Held(x)'
  BY <1>8 DEF RevokeSession
<1>9. ASSUME NEW r \in Request, NEW s \in Session, StoreOne(r, s)
      PROVE  Held(x)'
  BY <1>9 DEF StoreOne, Store
<1>10. ASSUME NEW r \in Request, SweepDeletes(r) \/ MarkList(r)
      PROVE  Held(x)'
  BY <1>10 DEF SweepDeletes, MarkList, Mark, Step
<1>11. ASSUME NEW r \in Request, RevokeAll(r)
      PROVE  Held(x)'
  BY <1>11, RevokeAllSpares
<1>12. ASSUME NEW r \in Request, WriteSetting(r)
      PROVE  Held(x)'
  BY <1>12 DEF WriteSetting, Step
<1>13. ASSUME NEW r \in Request, WriteCache(r)
      PROVE  Held(x)'
  BY <1>13 DEF WriteCache
<1>14. ASSUME NEW r \in Request, NEW K \in SUBSET Given, ChangeAccount(r, K)
      PROVE  Held(x)'
  BY <1>14 DEF ChangeAccount
<1>15. CASE UNCHANGED vars
  BY <1>15 DEF vars
<1> QED
  BY <1>1, <1>2, <1>3, <1>4, <1>5, <1>6, <1>7, <1>8, <1>9, <1>10, <1>11, <1>12, <1>13,
     <1>14, <1>15, Steps

\* An end that is confirmed is also kept by a start that reads the table.
LEMMA OverStays ==
  ASSUME Types, [Next]_vars, NEW x \in Given, Over(x)
  PROVE  Over(x)'
<1>1. unstored \subseteq unstored'
  BY UnstoredStays
<1>2. CASE x \in unstored
  BY <1>1, <1>2 DEF Over
<1>3. CASE ~up' /\ Stored(x)
  BY <1>3, StoredStays DEF Over, Stored
<1>4. CASE up /\ up' /\ Stored(x) /\ Held(x)
  BY <1>4, StoredStays, HeldStays DEF Over, Stored
<1>5. CASE ~up /\ up' /\ Stored(x) /\ x \notin unstored
  <2>1. Boot
    BY <1>5, BootStarts
  <2>2. Stored(x)'
    BY <1>5, StoredStays DEF Stored
  <2>3. cleanup' = "tick" /\ UNCHANGED <<clock, token, table>>
    BY <2>1, <1>5 DEF Boot, Types, ProcessOK, reload, account
  <2>4. x \in memory' \/ Expired(x) \/ x \in unseen'
    <3>1. memory' = Blacklisted \/ unseen' = Session
      BY <2>1 DEF Boot
    <3>2. ASSUME table[x] # None PROVE x \in Blacklisted \/ Expired(x)
      <4>1. /\ table[x] \in Nat /\ clock \in Nat /\ token[x].iat \in Nat
            /\ token[x].iat + Life <= table[x]
        BY <3>2, SessionsAssumption DEF Types, ProcessOK, TokensOK, ListsOK, Given
      <4> QED
        BY <4>1, SessionsAssumption DEF Blacklisted, Expired, Given
    <3> QED
      BY <1>5, <3>1, <3>2 DEF Stored, Given
  <2> QED
    BY <2>2, <2>3, <2>4 DEF Over, Held, Expired
<1> QED
  BY <1>2, <1>3, <1>4, <1>5 DEF Over, Types, ProcessOK

-----------------------------------------------------------------------------
(* What a handler may come to.                                               *)

Work(v) == <<v.list, v.left, v.epoch>>

Rests(q) == request'[q].at \in {"new", "done"} /\ request'[q].epoch = 0
LogsOut(q) ==
  \E s \in Session : Logout(q, s) /\ request'[q].at = "store" /\ Work(request'[q]) = <<{s}, {s}, 0>>
EndsAnother(q) ==
  \E s \in Session :
    RevokeSession(q, s) /\ request'[q].at = "mark" /\ Work(request'[q]) = <<{s}, {s}, 0>>
Begins(q) ==
  \E K \in SUBSET Given :
    /\ ChangeAccount(q, K) /\ request'[q].at = "sweep"
    /\ request'[q].left = K /\ request'[q].epoch = epoch + 1
Sweeps(q) ==
  /\ SweepDeletes(q) /\ request[q].at = "sweep" /\ request'[q].at = "mark"
  /\ Work(request'[q]) = <<rows \ request[q].left, rows \ request[q].left, request[q].epoch>>
Lists(q) ==
  /\ MarkList(q) /\ request[q].at = "mark" /\ request'[q].at = "store"
  /\ Work(request'[q]) = Work(request[q])
WritesOne(q) ==
  \E s \in Session :
    /\ StoreOne(q, s) /\ request[q].at = "store" /\ request'[q].at = "store"
    /\ Work(request'[q]) = <<request[q].list, request[q].left \ {s}, request[q].epoch>>
RevokesOn(q) ==
  /\ request[q].at \in {"new", "setting"} /\ request'[q].at \in {"setting", "cache"}
  /\ request'[q].epoch \in {0, request[q].epoch}
GoesOn(q) ==
  \/ request'[q].at = request[q].at /\ Work(request'[q]) = Work(request[q])
  \/ Rests(q) \/ LogsOut(q) \/ EndsAnother(q) \/ Begins(q) \/ Sweeps(q) \/ Lists(q)
  \/ WritesOne(q) \/ RevokesOn(q)

LEMMA OthersWait ==
  ASSUME Types, NEW q \in Request, NEW r \in Request, q # r, NEW v, Moved(r, v)
  PROVE  request'[q] = request[q]
  BY DEF Types, RequestsOK, Moved

LEMMA ThisOneMoved ==
  ASSUME Types, NEW r \in Request, NEW v, Moved(r, v)
  PROVE  request'[r] = v
  BY DEF Types, RequestsOK, Moved

LEMMA HandlersGoOn ==
  ASSUME Types, [Next]_vars, NEW q \in Request
  PROVE  GoesOn(q)
<1> USE DEF process, account, lists, revoked, reload, history, GoesOn
<1>1. CASE Tick
  BY <1>1 DEF Tick
<1>2. CASE Dies
  <2>1. request'[q] = New \/ request'[q] = Done
    BY <1>2 DEF Dies
  <2> QED
    BY <2>1, NewIs, DoneIs DEF Rests
<1>3. CASE Boot
  BY <1>3 DEF Boot
<1>4. CASE CleanupReads
  BY <1>4 DEF CleanupReads
<1>5. CASE CleanupRefills
  BY <1>5 DEF CleanupRefills
<1>6. ASSUME NEW s \in Session, LoginCheck(s) \/ LoginIssue(s)
      PROVE  GoesOn(q)
  BY <1>6 DEF LoginCheck, LoginIssue
<1>7. ASSUME NEW r \in Request, NEW s \in Session, Logout(r, s)
      PROVE  GoesOn(q)
  <2> DEFINE v == [New EXCEPT !.at = "store", !.list = {s}, !.left = {s}]
  <2>1. Moved(r, v)
    BY <1>7 DEF Moved, Logout
  <2>2. v.at = "store" /\ Work(v) = <<{s}, {s}, 0>>
    BY NewIs DEF Types, RequestsOK, RequestType, Work
  <2> HIDE DEF v
  <2>3. CASE q = r
    BY <1>7, <2>1, <2>2, <2>3, ThisOneMoved DEF LogsOut
  <2>4. CASE q # r
    BY <2>1, <2>4, OthersWait
  <2> QED
    BY <2>3, <2>4
<1>8. ASSUME NEW r \in Request, NEW s \in Session, RevokeSession(r, s)
      PROVE  GoesOn(q)
  <2> DEFINE v == [New EXCEPT !.at = "mark", !.list = {s}, !.left = {s}]
  <2>1. Moved(r, v)
    BY <1>8 DEF Moved, RevokeSession
  <2>2. v.at = "mark" /\ Work(v) = <<{s}, {s}, 0>>
    BY NewIs DEF Types, RequestsOK, RequestType, Work
  <2> HIDE DEF v
  <2>3. CASE q = r
    BY <1>8, <2>1, <2>2, <2>3, ThisOneMoved DEF EndsAnother
  <2>4. CASE q # r
    BY <2>1, <2>4, OthersWait
  <2> QED
    BY <2>3, <2>4
<1>9. ASSUME NEW r \in Request, NEW s \in Session, StoreOne(r, s)
      PROVE  GoesOn(q)
  <2> DEFINE w == [request[r] EXCEPT !.left = @ \ {s}]
  <2>1. (Moved(r, Done) \/ Moved(r, w)) /\ request[r].at = "store"
    BY <1>9 DEF Moved, StoreOne, At
  <2>2. w.at = request[r].at
        /\ Work(w) = <<request[r].list, request[r].left \ {s}, request[r].epoch>>
    BY DEF Types, RequestsOK, RequestType, Work
  <2> HIDE DEF w
  <2>3. CASE q = r /\ Moved(r, Done)
    BY <2>3, ThisOneMoved, DoneIs DEF Rests
  <2>4. CASE q = r /\ Moved(r, w)
    BY <1>9, <2>1, <2>2, <2>4, ThisOneMoved DEF WritesOne
  <2>5. CASE q # r
    BY <2>1, <2>5, OthersWait
  <2> QED
    BY <2>1, <2>3, <2>4, <2>5
<1>10. ASSUME NEW r \in Request, SweepDeletes(r)
      PROVE  GoesOn(q)
  <2> DEFINE found == rows \ request[r].left
             w == [request[r] EXCEPT !.at = "mark", !.list = found, !.left = found]
  <2>1. (Moved(r, Done) \/ Moved(r, w)) /\ request[r].at = "sweep"
    BY <1>10 DEF Moved, SweepDeletes, At
  <2>2. w.at = "mark" /\ Work(w) = <<found, found, request[r].epoch>>
    BY DEF Types, RequestsOK, RequestType, Work
  <2> HIDE DEF w
  <2>3. CASE q = r /\ Moved(r, Done)
    BY <2>3, ThisOneMoved, DoneIs DEF Rests
  <2>4. CASE q = r /\ Moved(r, w)
    BY <1>10, <2>1, <2>2, <2>4, ThisOneMoved DEF Sweeps
  <2>5. CASE q # r
    BY <2>1, <2>5, OthersWait
  <2> QED
    BY <2>1, <2>3, <2>4, <2>5
<1>11. ASSUME NEW r \in Request, MarkList(r)
      PROVE  GoesOn(q)
  <2> DEFINE v == [request[r] EXCEPT !.at = "store"]
  <2>1. Moved(r, v) /\ request[r].at = "mark"
    BY <1>11 DEF Moved, MarkList, Step, At
  <2>2. v.at = "store" /\ Work(v) = Work(request[r])
    BY NewIs DEF Types, RequestsOK, RequestType, Work
  <2> HIDE DEF v
  <2>3. CASE q = r
    BY <1>11, <2>1, <2>2, <2>3, ThisOneMoved DEF Lists
  <2>4. CASE q # r
    BY <2>1, <2>4, OthersWait
  <2> QED
    BY <2>3, <2>4
<1>12. ASSUME NEW r \in Request, RevokeAll(r)
      PROVE  GoesOn(q)
  <2> DEFINE v == [New EXCEPT !.at = "setting", !.time = clock, !.alone = (Revoking = {})]
  <2>1. /\ q = r => request'[q] = v /\ request[q].at = "new"
        /\ q # r => request'[q] = request[q] \/ request'[q] = [request[q] EXCEPT !.alone = FALSE]
    BY <1>12 DEF RevokeAll, At
  <2>2. v.at = "setting" /\ v.epoch = 0
    BY NewIs DEF RequestType
  <2> HIDE DEF v
  <2>3. CASE q = r
    BY <2>1, <2>2, <2>3 DEF RevokesOn
  <2>4. CASE request'[q] = [request[q] EXCEPT !.alone = FALSE]
    BY <2>4 DEF Work, Types, RequestsOK, RequestType
  <2> QED
    BY <2>1, <2>3, <2>4
<1>13. ASSUME NEW r \in Request, WriteSetting(r)
      PROVE  GoesOn(q)
  <2> DEFINE v == [request[r] EXCEPT !.at = "cache"]
             w == [request[r] EXCEPT !.at = "cache", !.failed = TRUE]
  <2>1. (Moved(r, v) \/ Moved(r, w) \/ Moved(r, Done)) /\ request[r].at = "setting"
    BY <1>13 DEF Moved, WriteSetting, Step, At
  <2>2. v.at = "cache" /\ v.epoch = request[r].epoch /\ w.at = "cache" /\ w.epoch = request[r].epoch
    BY DEF Types, RequestsOK, RequestType
  <2> HIDE DEF v, w
  <2>3. CASE q = r
    BY <2>1, <2>2, <2>3, ThisOneMoved, DoneIs DEF Rests, RevokesOn
  <2>4. CASE q # r
    BY <2>1, <2>4, OthersWait
  <2> QED
    BY <2>3, <2>4
<1>14. ASSUME NEW r \in Request, WriteCache(r)
      PROVE  GoesOn(q)
  <2> DEFINE v == Done
  <2>1. Moved(r, v)
    BY <1>14 DEF Moved, WriteCache
  <2>2. v.at = "done" /\ v.epoch = 0
    BY NewIs, DoneIs DEF Types, RequestsOK, RequestType, Work
  <2> HIDE DEF v
  <2>3. CASE q = r
    BY <1>14, <2>1, <2>2, <2>3, ThisOneMoved DEF Rests
  <2>4. CASE q # r
    BY <2>1, <2>4, OthersWait
  <2> QED
    BY <2>3, <2>4
<1>15. ASSUME NEW r \in Request, NEW K \in SUBSET Given, ChangeAccount(r, K)
      PROVE  GoesOn(q)
  <2> DEFINE v == [New EXCEPT !.at = "sweep", !.epoch = epoch + 1, !.left = K]
  <2>1. Moved(r, v)
    BY <1>15 DEF Moved, ChangeAccount
  <2>2. v.at = "sweep" /\ v.left = K /\ v.epoch = epoch + 1
    BY NewIs DEF Types, RequestsOK, RequestType, Work
  <2> HIDE DEF v
  <2>3. CASE q = r
    BY <1>15, <2>1, <2>2, <2>3, ThisOneMoved DEF Begins
  <2>4. CASE q # r
    BY <2>1, <2>4, OthersWait
  <2> QED
    BY <2>3, <2>4
<1>16. CASE UNCHANGED vars
  BY <1>16 DEF vars
<1> QED
  BY <1>1, <1>2, <1>3, <1>4, <1>5, <1>6, <1>7, <1>8, <1>9, <1>10, <1>11, <1>12, <1>13,
     <1>14, <1>15, <1>16, Steps

-----------------------------------------------------------------------------
(* An end is kept where it has come to.                                      *)

LEMMA StoredNow ==
  ASSUME Types, NEW r \in Request, NEW s \in Session, StoreOne(r, s)
  PROVE  /\ up /\ up' /\ request[r].at = "store" /\ s \in request[r].left
         /\ s \in Given /\ Stored(s)'
<1>1. /\ up /\ up' /\ request[r].at = "store" /\ s \in request[r].left
  BY DEF StoreOne, At, process
<1>2. s \in Given
  BY <1>1 DEF Types, RequestsOK
<1>3. \/ s \in unstored'
      \/ table' = [table EXCEPT ![s] = IF @ = None THEN clock + Life ELSE @]
  BY DEF StoreOne, Store
<1>4. table \in [Session -> 0 .. MaxClock + Life] /\ clock + Life # None
  BY SessionsAssumption DEF Types, ListsOK, ProcessOK, None
<1>5. s \in unstored' \/ table'[s] # None
  BY <1>2, <1>3, <1>4 DEF Given
<1> QED
  BY <1>1, <1>2, <1>5 DEF Stored

LEMMA EndedBy ==
  ASSUME [Next]_vars, NEW x \in ended', x \notin ended
  PROVE  \E q \in Request, t \in Session :
           StoreOne(q, t) /\ request[q].left = {t} /\ x \in request[q].list
<1> USE DEF process, account, lists, revoked, reload, history
<1>1. CASE Tick
  BY <1>1 DEF Tick
<1>2. CASE Dies
  BY <1>2 DEF Dies
<1>3. CASE Boot
  BY <1>3 DEF Boot
<1>4. CASE CleanupReads
  BY <1>4 DEF CleanupReads
<1>5. CASE CleanupRefills
  BY <1>5 DEF CleanupRefills
<1>6. ASSUME NEW s \in Session, LoginCheck(s) \/ LoginIssue(s)
      PROVE  \E q \in Request, t \in Session :
           StoreOne(q, t) /\ request[q].left = {t} /\ x \in request[q].list
  BY <1>6 DEF LoginCheck, LoginIssue
<1>7. ASSUME NEW r \in Request, NEW s \in Session, Logout(r, s) \/ RevokeSession(r, s)
      PROVE  \E q \in Request, t \in Session :
           StoreOne(q, t) /\ request[q].left = {t} /\ x \in request[q].list
  BY <1>7 DEF Logout, Mark, RevokeSession
<1>8. ASSUME NEW r \in Request, NEW s \in Session, StoreOne(r, s)
      PROVE  \E q \in Request, t \in Session :
           StoreOne(q, t) /\ request[q].left = {t} /\ x \in request[q].list
  BY <1>8 DEF StoreOne, Store
<1>9. ASSUME NEW r \in Request, SweepDeletes(r) \/ MarkList(r)
      PROVE  \E q \in Request, t \in Session :
           StoreOne(q, t) /\ request[q].left = {t} /\ x \in request[q].list
  BY <1>9 DEF SweepDeletes, MarkList, Mark, Step
<1>10. ASSUME NEW r \in Request, RevokeAll(r)
      PROVE  \E q \in Request, t \in Session :
           StoreOne(q, t) /\ request[q].left = {t} /\ x \in request[q].list
  BY <1>10, RevokeAllSpares
<1>11. ASSUME NEW r \in Request, WriteSetting(r)
      PROVE  \E q \in Request, t \in Session :
           StoreOne(q, t) /\ request[q].left = {t} /\ x \in request[q].list
  BY <1>11 DEF WriteSetting, Step
<1>12. ASSUME NEW r \in Request, WriteCache(r)
      PROVE  \E q \in Request, t \in Session :
           StoreOne(q, t) /\ request[q].left = {t} /\ x \in request[q].list
  BY <1>12 DEF WriteCache
<1>13. ASSUME NEW r \in Request, NEW K \in SUBSET Given, ChangeAccount(r, K)
      PROVE  \E q \in Request, t \in Session :
           StoreOne(q, t) /\ request[q].left = {t} /\ x \in request[q].list
  BY <1>13 DEF ChangeAccount
<1>14. CASE UNCHANGED vars
  BY <1>14 DEF vars
<1> QED
  BY <1>1, <1>2, <1>3, <1>4, <1>5, <1>6, <1>7, <1>8, <1>9, <1>10, <1>11, <1>12, <1>13,
     <1>14, Steps

LEMMA EndsKeptKeeps ==
  ASSUME IInv, [Next]_vars
  PROVE  EndsKept'
<1> USE DEF IInv, Ends
<1> SUFFICES ASSUME NEW x \in ended' PROVE Over(x)'
  BY DEF EndsKept
<1>1. CASE x \in ended
  BY <1>1, OverStays DEF EndsKept, Types, ListsOK
<1>2. CASE x \notin ended
  <2>1. PICK r \in Request, s \in Session :
          StoreOne(r, s) /\ request[r].left = {s} /\ x \in request[r].list
    BY <1>2, EndedBy
  <2>2. up /\ up' /\ Held(x) /\ x \in Given
    BY <2>1, StoredNow DEF StoresHold, Types, RequestsOK
  <2>3. Stored(x)'
    BY <2>1, <2>2, StoredNow, StoredStays DEF StoresHold, Stored
  <2> QED
    BY <2>2, <2>3, HeldStays DEF Over
<1> QED
  BY <1>1, <1>2

LEMMA StoresHoldKeeps ==
  ASSUME IInv, [Next]_vars
  PROVE  StoresHold'
<1> USE DEF IInv, Ends
<1> SUFFICES ASSUME NEW q \in Request, request'[q].at = "store"
             PROVE  /\ \A x \in request'[q].list : Held(x)'
                    /\ \A x \in request'[q].list \ request'[q].left : Stored(x)'
  BY DEF StoresHold
<1>1. up' /\ request'[q].list \subseteq Given'
  BY RequestsKeep DEF Types, RequestsOK
<1>2. CASE request[q].at = "store" /\ Work(request'[q]) = Work(request[q])
  <2>1. up /\ request[q].list \subseteq Given
    BY <1>2 DEF Types, RequestsOK
  <2> QED
    BY <1>1, <1>2, <2>1, HeldStays, StoredStays DEF StoresHold, Work, Stored
<1>3. CASE WritesOne(q)
  <2>1. PICK s \in Session :
          /\ StoreOne(q, s) /\ request[q].at = "store"
          /\ Work(request'[q]) = <<request[q].list, request[q].left \ {s}, request[q].epoch>>
    BY <1>3 DEF WritesOne
  <2>2. /\ up /\ request[q].list \subseteq Given
        /\ request'[q].list = request[q].list /\ request'[q].left = request[q].left \ {s}
    BY <2>1, StoredNow DEF Types, RequestsOK, Work
  <2>3. ASSUME NEW x \in request[q].list PROVE Held(x)'
    BY <1>1, <2>1, <2>2, HeldStays DEF StoresHold
  <2>4. ASSUME NEW x \in request[q].list \ request'[q].left PROVE Stored(x)'
    <3>1. CASE x = s
      BY <2>1, <3>1, StoredNow
    <3>2. CASE x # s
      BY <2>1, <2>2, <3>2, StoredStays DEF StoresHold, Stored
    <3> QED
      BY <3>1, <3>2
  <2> QED
    BY <2>2, <2>3, <2>4
<1>4. CASE LogsOut(q)
  <2>1. PICK s \in Session : Logout(q, s) /\ Work(request'[q]) = <<{s}, {s}, 0>>
    BY <1>4 DEF LogsOut
  <2>2. Held(s)'
    BY <2>1 DEF Logout, Mark, Held, reload
  <2> QED
    BY <2>1, <2>2 DEF Work
<1>5. CASE Lists(q)
  <2>1. MarkList(q) /\ Work(request'[q]) = Work(request[q]) /\ request[q].left = request[q].list
    BY <1>5 DEF Lists, Types, RequestsOK
  <2>2. ASSUME NEW x \in request[q].list PROVE Held(x)'
    BY <2>1 DEF MarkList, Mark, Held, reload
  <2> QED
    BY <2>1, <2>2 DEF Work
<1> QED
  BY <1>2, <1>3, <1>4, <1>5, HandlersGoOn
     DEF GoesOn, Rests, EndsAnother, Begins, Sweeps, RevokesOn

-----------------------------------------------------------------------------
(* A change of the account.                                                  *)

\* What has once been missed stays missed.
ExceptionsStay == unlisted \subseteq unlisted' /\ missed \subseteq missed'

LEMMA UnlistedStays ==
  ASSUME [Next]_vars
  PROVE  ExceptionsStay
<1> USE DEF ExceptionsStay, process, account, lists, revoked, reload, history
<1>1. CASE Tick
  BY <1>1 DEF Tick
<1>2. CASE Dies
  BY <1>2 DEF Dies
<1>3. CASE Boot
  BY <1>3 DEF Boot
<1>4. CASE CleanupReads
  BY <1>4 DEF CleanupReads
<1>5. CASE CleanupRefills
  BY <1>5 DEF CleanupRefills
<1>6. ASSUME NEW s \in Session, LoginCheck(s)
      PROVE  ExceptionsStay
  BY <1>6 DEF LoginCheck
<1>7. ASSUME NEW s \in Session, LoginIssue(s)
      PROVE  ExceptionsStay
  <2>1. (unlisted' = unlisted \/ unlisted' = unlisted \cup {s}) /\ missed' = missed
    BY <1>7 DEF LoginIssue
  <2> QED
    BY <2>1
<1>8. ASSUME NEW r \in Request, NEW s \in Session, Logout(r, s) \/ RevokeSession(r, s)
      PROVE  ExceptionsStay
  BY <1>8 DEF Logout, Mark, RevokeSession
<1>9. ASSUME NEW r \in Request, NEW s \in Session, StoreOne(r, s)
      PROVE  ExceptionsStay
  BY <1>9 DEF StoreOne, Store
<1>10. ASSUME NEW r \in Request, SweepDeletes(r) \/ MarkList(r)
      PROVE  ExceptionsStay
  BY <1>10 DEF SweepDeletes, MarkList, Mark, Step
<1>11. ASSUME NEW r \in Request, RevokeAll(r)
      PROVE  ExceptionsStay
  BY <1>11, RevokeAllSpares
<1>12. ASSUME NEW r \in Request, WriteSetting(r)
      PROVE  ExceptionsStay
  BY <1>12 DEF WriteSetting, Step
<1>13. ASSUME NEW r \in Request, WriteCache(r)
      PROVE  ExceptionsStay
  BY <1>13 DEF WriteCache
<1>14. ASSUME NEW r \in Request, NEW K \in SUBSET Given, ChangeAccount(r, K)
      PROVE  ExceptionsStay
  BY <1>14 DEF ChangeAccount
<1>15. CASE UNCHANGED vars
  BY <1>15 DEF vars
<1> QED
  BY <1>1, <1>2, <1>3, <1>4, <1>5, <1>6, <1>7, <1>8, <1>9, <1>10, <1>11, <1>12, <1>13,
     <1>14, <1>15, Steps

LEMMA GivenBy ==
  ASSUME Types, [Next]_vars, NEW x \in Given', x \notin Given
  PROVE  LoginIssue(x)
<1> USE DEF process, account, lists, revoked, reload, history, Given
<1>1. CASE Tick
  BY <1>1 DEF Tick
<1>2. CASE Dies
  <2>1. token' = [s \in Session |-> IF token[s].at = "checked" THEN NoToken ELSE token[s]]
    BY <1>2 DEF Dies
  <2> QED
    BY <2>1 DEF NoToken
<1>3. CASE Boot
  BY <1>3 DEF Boot
<1>4. CASE CleanupReads
  BY <1>4 DEF CleanupReads
<1>5. CASE CleanupRefills
  BY <1>5 DEF CleanupRefills
<1>6. ASSUME NEW s \in Session, LoginCheck(s)
      PROVE  LoginIssue(x)
  <2>1. token' = [token EXCEPT ![s] = [at |-> "checked", iat |-> None, epoch |-> epoch]]
    BY <1>6 DEF LoginCheck
  <2> QED
    BY <2>1
<1>7. ASSUME NEW s \in Session, LoginIssue(s)
      PROVE  LoginIssue(x)
  <2>1. token' = [token EXCEPT ![s] = [@ EXCEPT !.at = "given", !.iat = clock]]
    BY <1>7 DEF LoginIssue
  <2>2. x # s => token'[x] = token[x]
    BY <2>1 DEF Types, TokensOK
  <2> QED
    BY <1>7, <2>2
<1>8. ASSUME NEW r \in Request, NEW s \in Session, Logout(r, s) \/ RevokeSession(r, s)
      PROVE  LoginIssue(x)
  BY <1>8 DEF Logout, Mark, RevokeSession
<1>9. ASSUME NEW r \in Request, NEW s \in Session, StoreOne(r, s)
      PROVE  LoginIssue(x)
  BY <1>9 DEF StoreOne, Store
<1>10. ASSUME NEW r \in Request, SweepDeletes(r) \/ MarkList(r)
      PROVE  LoginIssue(x)
  BY <1>10 DEF SweepDeletes, MarkList, Mark, Step
<1>11. ASSUME NEW r \in Request, RevokeAll(r)
      PROVE  LoginIssue(x)
  BY <1>11, RevokeAllSpares
<1>12. ASSUME NEW r \in Request, WriteSetting(r)
      PROVE  LoginIssue(x)
  BY <1>12 DEF WriteSetting, Step
<1>13. ASSUME NEW r \in Request, WriteCache(r)
      PROVE  LoginIssue(x)
  BY <1>13 DEF WriteCache
<1>14. ASSUME NEW r \in Request, NEW K \in SUBSET Given, ChangeAccount(r, K)
      PROVE  LoginIssue(x)
  BY <1>14 DEF ChangeAccount
<1>15. CASE UNCHANGED vars
  BY <1>15 DEF vars
<1> QED
  BY <1>1, <1>2, <1>3, <1>4, <1>5, <1>6, <1>7, <1>8, <1>9, <1>10, <1>11, <1>12, <1>13,
     <1>14, <1>15, Steps

LEMMA RowsBy ==
  ASSUME [Next]_vars, NEW x \in rows, x \notin rows'
  PROVE  \/ \E q \in Request : SweepDeletes(q) /\ x \notin request[q].left
         \/ \E q \in Request, t \in Session :
              StoreOne(q, t) /\ request[q].left = {t} /\ x \in request[q].list
<1> USE DEF process, account, lists, revoked, reload, history
<1>1. CASE Tick
  BY <1>1 DEF Tick
<1>2. CASE Dies
  BY <1>2 DEF Dies
<1>3. CASE Boot
  BY <1>3 DEF Boot
<1>4. CASE CleanupReads
  BY <1>4 DEF CleanupReads
<1>5. CASE CleanupRefills
  BY <1>5 DEF CleanupRefills
<1>6. ASSUME NEW s \in Session, LoginCheck(s) \/ LoginIssue(s)
      PROVE  \/ \E q \in Request : SweepDeletes(q) /\ x \notin request[q].left
             \/ \E q \in Request, t \in Session :
                  StoreOne(q, t) /\ request[q].left = {t} /\ x \in request[q].list
  BY <1>6 DEF LoginCheck, LoginIssue
<1>7. ASSUME NEW r \in Request, NEW s \in Session, Logout(r, s) \/ RevokeSession(r, s)
      PROVE  \/ \E q \in Request : SweepDeletes(q) /\ x \notin request[q].left
             \/ \E q \in Request, t \in Session :
                  StoreOne(q, t) /\ request[q].left = {t} /\ x \in request[q].list
  BY <1>7 DEF Logout, Mark, RevokeSession
<1>8. ASSUME NEW r \in Request, NEW s \in Session, StoreOne(r, s)
      PROVE  \/ \E q \in Request : SweepDeletes(q) /\ x \notin request[q].left
             \/ \E q \in Request, t \in Session :
                  StoreOne(q, t) /\ request[q].left = {t} /\ x \in request[q].list
  BY <1>8 DEF StoreOne, Store
<1>9. ASSUME NEW r \in Request, SweepDeletes(r)
      PROVE  \/ \E q \in Request : SweepDeletes(q) /\ x \notin request[q].left
             \/ \E q \in Request, t \in Session :
                  StoreOne(q, t) /\ request[q].left = {t} /\ x \in request[q].list
  BY <1>9 DEF SweepDeletes
<1>10. ASSUME NEW r \in Request, MarkList(r)
      PROVE  \/ \E q \in Request : SweepDeletes(q) /\ x \notin request[q].left
             \/ \E q \in Request, t \in Session :
                  StoreOne(q, t) /\ request[q].left = {t} /\ x \in request[q].list
  BY <1>10 DEF MarkList, Mark, Step
<1>11. ASSUME NEW r \in Request, RevokeAll(r)
      PROVE  \/ \E q \in Request : SweepDeletes(q) /\ x \notin request[q].left
             \/ \E q \in Request, t \in Session :
                  StoreOne(q, t) /\ request[q].left = {t} /\ x \in request[q].list
  BY <1>11, RevokeAllSpares
<1>12. ASSUME NEW r \in Request, WriteSetting(r)
      PROVE  \/ \E q \in Request : SweepDeletes(q) /\ x \notin request[q].left
             \/ \E q \in Request, t \in Session :
                  StoreOne(q, t) /\ request[q].left = {t} /\ x \in request[q].list
  BY <1>12 DEF WriteSetting, Step
<1>13. ASSUME NEW r \in Request, WriteCache(r)
      PROVE  \/ \E q \in Request : SweepDeletes(q) /\ x \notin request[q].left
             \/ \E q \in Request, t \in Session :
                  StoreOne(q, t) /\ request[q].left = {t} /\ x \in request[q].list
  BY <1>13 DEF WriteCache
<1>14. ASSUME NEW r \in Request, NEW K \in SUBSET Given, ChangeAccount(r, K)
      PROVE  \/ \E q \in Request : SweepDeletes(q) /\ x \notin request[q].left
             \/ \E q \in Request, t \in Session :
                  StoreOne(q, t) /\ request[q].left = {t} /\ x \in request[q].list
  BY <1>14 DEF ChangeAccount
<1>15. CASE UNCHANGED vars
  BY <1>15 DEF vars
<1> QED
  BY <1>1, <1>2, <1>3, <1>4, <1>5, <1>6, <1>7, <1>8, <1>9, <1>10, <1>11, <1>12, <1>13,
     <1>14, <1>15, Steps

LEMMA RowsAdded ==
  ASSUME [Next]_vars, NEW x \in rows', x \notin rows
  PROVE  LoginIssue(x)
<1> USE DEF process, account, lists, revoked, reload, history
<1>1. CASE Tick
  BY <1>1 DEF Tick
<1>2. CASE Dies
  BY <1>2 DEF Dies
<1>3. CASE Boot
  BY <1>3 DEF Boot
<1>4. CASE CleanupReads
  BY <1>4 DEF CleanupReads
<1>5. CASE CleanupRefills
  BY <1>5 DEF CleanupRefills
<1>6. ASSUME NEW s \in Session, LoginCheck(s)
      PROVE  LoginIssue(x)
  BY <1>6 DEF LoginCheck
<1>7. ASSUME NEW s \in Session, LoginIssue(s)
      PROVE  LoginIssue(x)
  BY <1>7 DEF LoginIssue
<1>8. ASSUME NEW r \in Request, NEW s \in Session, Logout(r, s) \/ RevokeSession(r, s)
      PROVE  LoginIssue(x)
  BY <1>8 DEF Logout, Mark, RevokeSession
<1>9. ASSUME NEW r \in Request, NEW s \in Session, StoreOne(r, s)
      PROVE  LoginIssue(x)
  BY <1>9 DEF StoreOne, Store
<1>10. ASSUME NEW r \in Request, SweepDeletes(r)
      PROVE  LoginIssue(x)
  BY <1>10 DEF SweepDeletes
<1>11. ASSUME NEW r \in Request, MarkList(r)
      PROVE  LoginIssue(x)
  BY <1>11 DEF MarkList, Mark, Step
<1>12. ASSUME NEW r \in Request, RevokeAll(r)
      PROVE  LoginIssue(x)
  BY <1>12, RevokeAllSpares
<1>13. ASSUME NEW r \in Request, WriteSetting(r)
      PROVE  LoginIssue(x)
  BY <1>13 DEF WriteSetting, Step
<1>14. ASSUME NEW r \in Request, WriteCache(r)
      PROVE  LoginIssue(x)
  BY <1>14 DEF WriteCache
<1>15. ASSUME NEW r \in Request, NEW K \in SUBSET Given, ChangeAccount(r, K)
      PROVE  LoginIssue(x)
  BY <1>15 DEF ChangeAccount
<1>16. CASE UNCHANGED vars
  BY <1>16 DEF vars
<1> QED
  BY <1>1, <1>2, <1>3, <1>4, <1>5, <1>6, <1>7, <1>8, <1>9, <1>10, <1>11, <1>12, <1>13,
     <1>14, <1>15, <1>16, Steps

\* A handler that is answered, and the change it confirms with it: what its sweep
\* has left in the rows it meant to leave, or did not come to.
Answers(q) == settled' = request[q].epoch /\ request' = [request EXCEPT ![q] = Done]
SettledGoesBy ==
  \/ settled' = settled
  \/ \E q \in Request :
       SweepDeletes(q) /\ rows \ request[q].left \subseteq missed' /\ Answers(q)
  \/ \E q \in Request, s \in Session : StoreOne(q, s) /\ Answers(q)

LEMMA SettledBy ==
  ASSUME [Next]_vars
  PROVE  SettledGoesBy
<1> USE DEF SettledGoesBy, process, account, lists, revoked, reload, history
<1>1. CASE Tick
  BY <1>1 DEF Tick
<1>2. CASE Dies
  BY <1>2 DEF Dies
<1>3. CASE Boot
  BY <1>3 DEF Boot
<1>4. CASE CleanupReads
  BY <1>4 DEF CleanupReads
<1>5. CASE CleanupRefills
  BY <1>5 DEF CleanupRefills
<1>6. ASSUME NEW s \in Session, LoginCheck(s) \/ LoginIssue(s)
      PROVE  SettledGoesBy
  BY <1>6 DEF LoginCheck, LoginIssue
<1>7. ASSUME NEW r \in Request, NEW s \in Session, Logout(r, s) \/ RevokeSession(r, s)
      PROVE  SettledGoesBy
  BY <1>7 DEF Logout, Mark, RevokeSession
<1>8. ASSUME NEW r \in Request, NEW s \in Session, StoreOne(r, s)
      PROVE  SettledGoesBy
  <2>1. /\ settled' \in {settled, request[r].epoch}
        /\ settled' = settled \/ request' = [request EXCEPT ![r] = Done]
    BY <1>8 DEF StoreOne, Later
  <2> QED
    BY <1>8, <2>1 DEF Answers
<1>9. ASSUME NEW r \in Request, SweepDeletes(r)
      PROVE  SettledGoesBy
  <2>1. /\ settled' \in {settled, request[r].epoch}
        /\ \/ settled' = settled
           \/ request' = [request EXCEPT ![r] = Done] /\ rows \ request[r].left \subseteq missed'
    BY <1>9 DEF SweepDeletes, Later
  <2> QED
    BY <1>9, <2>1 DEF Answers
<1>10. ASSUME NEW r \in Request, MarkList(r)
      PROVE  SettledGoesBy
  BY <1>10 DEF MarkList, Mark, Step
<1>11. ASSUME NEW r \in Request, RevokeAll(r)
      PROVE  SettledGoesBy
  BY <1>11, RevokeAllSpares
<1>12. ASSUME NEW r \in Request, WriteSetting(r)
      PROVE  SettledGoesBy
  BY <1>12 DEF WriteSetting, Step
<1>13. ASSUME NEW r \in Request, WriteCache(r)
      PROVE  SettledGoesBy
  BY <1>13 DEF WriteCache
<1>14. ASSUME NEW r \in Request, NEW K \in SUBSET Given, ChangeAccount(r, K)
      PROVE  SettledGoesBy
  BY <1>14 DEF ChangeAccount
<1>15. CASE UNCHANGED vars
  BY <1>15 DEF vars
<1> QED
  BY <1>1, <1>2, <1>3, <1>4, <1>5, <1>6, <1>7, <1>8, <1>9, <1>10, <1>11, <1>12, <1>13,
     <1>14, <1>15, Steps

LEMMA RestsBy ==
  ASSUME Types, [Next]_vars, NEW q \in Request, request[q].at \in {"mark", "store"}, Rests(q)
  PROVE  \/ Dies
         \/ \E t \in Session : StoreOne(q, t) /\ request[q].left = {t}
<1> USE NewIs, DoneIs DEF process, account, lists, revoked, reload, history, Rests
<1>1. CASE Tick
  BY <1>1 DEF Tick
<1>2. CASE Dies
  BY <1>2 DEF Dies
<1>3. CASE Boot
  BY <1>3 DEF Boot
<1>4. CASE CleanupReads
  BY <1>4 DEF CleanupReads
<1>5. CASE CleanupRefills
  BY <1>5 DEF CleanupRefills
<1>6. ASSUME NEW s \in Session, LoginCheck(s) \/ LoginIssue(s)
      PROVE  \/ Dies
             \/ \E t \in Session : StoreOne(q, t) /\ request[q].left = {t}
  BY <1>6 DEF LoginCheck, LoginIssue
<1>7. ASSUME NEW r \in Request, NEW s \in Session, Logout(r, s)
      PROVE  \/ Dies
             \/ \E t \in Session : StoreOne(q, t) /\ request[q].left = {t}
  <2>1. q # r /\ Moved(r, [New EXCEPT !.at = "store", !.list = {s}, !.left = {s}])
    BY <1>7 DEF Logout, At, Moved
  <2> QED
    BY <2>1, OthersWait
<1>8. ASSUME NEW r \in Request, NEW s \in Session, RevokeSession(r, s)
      PROVE  \/ Dies
             \/ \E t \in Session : StoreOne(q, t) /\ request[q].left = {t}
  <2>1. q # r /\ Moved(r, [New EXCEPT !.at = "mark", !.list = {s}, !.left = {s}])
    BY <1>8 DEF RevokeSession, At, Moved
  <2> QED
    BY <2>1, OthersWait
<1>9. ASSUME NEW r \in Request, NEW s \in Session, StoreOne(r, s)
      PROVE  \/ Dies
             \/ \E t \in Session : StoreOne(q, t) /\ request[q].left = {t}
  <2> DEFINE w == [request[r] EXCEPT !.left = @ \ {s}]
  <2>1. request[r].left = {s} \/ (Moved(r, w) /\ request[r].at = "store")
    BY <1>9 DEF StoreOne, Moved, At
  <2>2. w.at = request[r].at
    BY DEF Types, RequestsOK, RequestType
  <2>3. Moved(r, w) \/ Moved(r, Done)
    BY <1>9 DEF StoreOne, Moved
  <2> HIDE DEF w
  <2>4. CASE q = r
    BY <1>9, <2>1, <2>2, <2>4, ThisOneMoved
  <2>5. CASE q # r
    BY <2>3, <2>5, OthersWait
  <2> QED
    BY <2>4, <2>5
<1>10. ASSUME NEW r \in Request, SweepDeletes(r)
      PROVE  \/ Dies
             \/ \E t \in Session : StoreOne(q, t) /\ request[q].left = {t}
  <2>1. q # r /\ \E v : Moved(r, v)
    BY <1>10 DEF SweepDeletes, At, Moved
  <2> QED
    BY <2>1, OthersWait
<1>11. ASSUME NEW r \in Request, MarkList(r)
      PROVE  \/ Dies
             \/ \E t \in Session : StoreOne(q, t) /\ request[q].left = {t}
  <2>1. Moved(r, [request[r] EXCEPT !.at = "store"])
    BY <1>11 DEF MarkList, Step, Moved
  <2>2. [request[r] EXCEPT !.at = "store"].at = "store"
    BY DEF Types, RequestsOK, RequestType
  <2>3. request'[r].at = "store"
    BY <2>1, <2>2, ThisOneMoved
  <2> QED
    BY <2>1, <2>3, OthersWait
<1>12. ASSUME NEW r \in Request, RevokeAll(r)
      PROVE  \/ Dies
             \/ \E t \in Session : StoreOne(q, t) /\ request[q].left = {t}
  <2>1. q # r
    BY <1>12 DEF RevokeAll, At
  <2>2. request'[q] = request[q] \/ request'[q] = [request[q] EXCEPT !.alone = FALSE]
    BY <1>12, <2>1 DEF RevokeAll
  <2> QED
    BY <2>2 DEF Types, RequestsOK, RequestType
<1>13. ASSUME NEW r \in Request, WriteSetting(r)
      PROVE  \/ Dies
             \/ \E t \in Session : StoreOne(q, t) /\ request[q].left = {t}
  <2>1. q # r /\ \E v : Moved(r, v)
    BY <1>13 DEF WriteSetting, Step, At, Moved
  <2> QED
    BY <2>1, OthersWait
<1>14. ASSUME NEW r \in Request, WriteCache(r)
      PROVE  \/ Dies
             \/ \E t \in Session : StoreOne(q, t) /\ request[q].left = {t}
  <2>1. q # r /\ \E v : Moved(r, v)
    BY <1>14 DEF WriteCache, At, Moved
  <2> QED
    BY <2>1, OthersWait
<1>15. ASSUME NEW r \in Request, NEW K \in SUBSET Given, ChangeAccount(r, K)
      PROVE  \/ Dies
             \/ \E t \in Session : StoreOne(q, t) /\ request[q].left = {t}
  <2>1. q # r /\ Moved(r, [New EXCEPT !.at = "sweep", !.epoch = epoch', !.left = K])
    BY <1>15 DEF ChangeAccount, At, Moved
  <2> QED
    BY <2>1, OthersWait
<1>16. CASE UNCHANGED vars
  BY <1>16 DEF vars
<1> QED
  BY <1>1, <1>2, <1>3, <1>4, <1>5, <1>6, <1>7, <1>8, <1>9, <1>10, <1>11, <1>12, <1>13,
     <1>14, <1>15, <1>16, Steps

\* Every session that a handler has taken from the rows is in its hands, or ended.
LEMMA RowsGoneKeeps ==
  ASSUME IInv, [Next]_vars
  PROVE  RowsGone'
<1> USE DEF IInv, Ends, Changes
<1> SUFFICES ASSUME NEW x \in Given', x \notin unlisted', x \notin rows', ~Over(x)'
             PROVE  Taken(x)'
  BY DEF RowsGone
<1>1. x \notin unlisted /\ x \in Session /\ x \notin ended'
  BY UnlistedStays, EndsKeptKeeps DEF ExceptionsStay, EndsKept, Given
<1>2. x \in Given
  <2>1. SUFFICES ASSUME x \notin Given PROVE FALSE
    OBVIOUS
  <2>2. LoginIssue(x)
    BY <2>1, GivenBy
  <2> QED
    BY <2>2 DEF LoginIssue
<1>3. ~Over(x)
  BY <1>2, OverStays
<1>4. CASE x \in rows
  <2>1. CASE \E q \in Request : SweepDeletes(q) /\ x \notin request[q].left
    <3>1. PICK r \in Request : SweepDeletes(r) /\ x \notin request[r].left
      BY <2>1
    <3>2. x \in rows \ request[r].left
      BY <1>4, <3>1
    <3>3. rows' # rows
      BY <1>4
    <3>4. Moved(r, [request[r] EXCEPT !.at = "mark", !.list = rows \ request[r].left,
                    !.left = rows \ request[r].left])
      BY <3>1, <3>2, <3>3 DEF SweepDeletes, Moved
    <3>5. request'[r].at = "mark" /\ request'[r].list = rows \ request[r].left
      BY <3>4, ThisOneMoved DEF Types, RequestsOK, RequestType
    <3> QED
      BY <3>2, <3>5 DEF Taken
  <2>2. ASSUME NEW r \in Request, NEW s \in Session, StoreOne(r, s),
               request[r].left = {s}, x \in request[r].list
        PROVE  FALSE
    BY <1>1, <2>2 DEF StoreOne
  <2> QED
    BY <1>4, <2>1, <2>2, RowsBy
<1>5. CASE x \notin rows
  <2>1. PICK r \in Request : request[r].at \in {"mark", "store"} /\ x \in request[r].list
    BY <1>1, <1>2, <1>3, <1>5 DEF RowsGone, Taken
  <2>2. CASE Rests(r)
    <3>1. CASE Dies
      <4>1. unlisted' = unlisted \cup ((UNION {request[q].left : q \in Request}) \ rows) /\ ~up'
        BY <3>1 DEF Dies
      <4>2. x \notin request[r].left
        <5> DEFINE U == {request[q].left : q \in Request}
        <5>1. request[r].left \in U /\ unlisted' = unlisted \cup ((UNION U) \ rows)
          BY <4>1
        <5> HIDE DEF U
        <5>2. x \in request[r].left => x \in UNION U
          BY <5>1
        <5>3. x \notin UNION U
          BY <1>5, <5>1
        <5> QED
          BY <5>2, <5>3
      <4>3. request[r].at = "store" /\ Stored(x)
        BY <2>1, <4>2 DEF Types, RequestsOK, StoresHold
      <4> QED
        BY <1>2, <4>1, <4>3, StoredStays DEF Over, Stored
    <3>2. ASSUME NEW s \in Session, StoreOne(r, s), request[r].left = {s}
          PROVE  FALSE
      BY <1>1, <2>1, <3>2 DEF StoreOne
    <3> QED
      BY <2>1, <2>2, <3>1, <3>2, RestsBy
  <2>3. CASE request'[r].at = request[r].at /\ Work(request'[r]) = Work(request[r])
    BY <2>1, <2>3 DEF Taken, Work
  <2>4. CASE Lists(r) \/ WritesOne(r)
    BY <2>1, <2>4 DEF Lists, WritesOne, Taken, Work
  <2>5. ~LogsOut(r) /\ ~EndsAnother(r) /\ ~Begins(r) /\ ~Sweeps(r) /\ ~RevokesOn(r)
    BY <2>1 DEF LogsOut, EndsAnother, Begins, Sweeps, RevokesOn, Logout,
           RevokeSession, ChangeAccount, At
  <2> QED
    BY <2>2, <2>3, <2>4, <2>5, HandlersGoOn DEF GoesOn
<1> QED
  BY <1>4, <1>5

LEMMA EpochBy ==
  ASSUME [Next]_vars
  PROVE  epoch' = epoch \/ epoch' = epoch + 1
<1> USE DEF process, account, lists, revoked, reload, history
<1>1. CASE Tick
  BY <1>1 DEF Tick
<1>2. CASE Dies
  BY <1>2 DEF Dies
<1>3. CASE Boot
  BY <1>3 DEF Boot
<1>4. CASE CleanupReads
  BY <1>4 DEF CleanupReads
<1>5. CASE CleanupRefills
  BY <1>5 DEF CleanupRefills
<1>6. ASSUME NEW s \in Session, LoginCheck(s) \/ LoginIssue(s)
      PROVE  epoch' = epoch \/ epoch' = epoch + 1
  BY <1>6 DEF LoginCheck, LoginIssue
<1>7. ASSUME NEW r \in Request, NEW s \in Session, Logout(r, s) \/ RevokeSession(r, s)
      PROVE  epoch' = epoch \/ epoch' = epoch + 1
  BY <1>7 DEF Logout, Mark, RevokeSession
<1>8. ASSUME NEW r \in Request, NEW s \in Session, StoreOne(r, s)
      PROVE  epoch' = epoch \/ epoch' = epoch + 1
  BY <1>8 DEF StoreOne, Store
<1>9. ASSUME NEW r \in Request, SweepDeletes(r) \/ MarkList(r)
      PROVE  epoch' = epoch \/ epoch' = epoch + 1
  BY <1>9 DEF SweepDeletes, MarkList, Mark, Step
<1>10. ASSUME NEW r \in Request, RevokeAll(r)
      PROVE  epoch' = epoch \/ epoch' = epoch + 1
  BY <1>10, RevokeAllSpares
<1>11. ASSUME NEW r \in Request, WriteSetting(r)
      PROVE  epoch' = epoch \/ epoch' = epoch + 1
  BY <1>11 DEF WriteSetting, Step
<1>12. ASSUME NEW r \in Request, WriteCache(r)
      PROVE  epoch' = epoch \/ epoch' = epoch + 1
  BY <1>12 DEF WriteCache
<1>13. ASSUME NEW r \in Request, NEW K \in SUBSET Given, ChangeAccount(r, K)
      PROVE  epoch' = epoch \/ epoch' = epoch + 1
  BY <1>13 DEF ChangeAccount
<1>14. CASE UNCHANGED vars
  BY <1>14 DEF vars
<1> QED
  BY <1>1, <1>2, <1>3, <1>4, <1>5, <1>6, <1>7, <1>8, <1>9, <1>10, <1>11, <1>12, <1>13,
     <1>14, Steps

\* The number of a change is its own.
LEMMA EpochsGo ==
  ASSUME IInv, [Next]_vars, NEW q \in Request
  PROVE  \/ request'[q].epoch \in {0, request[q].epoch}
         \/ Begins(q)
<1>1. GoesOn(q)
  BY HandlersGoOn DEF IInv
<1> QED
  BY <1>1
     DEF GoesOn, Work, Rests, LogsOut, EndsAnother, Sweeps, Lists, WritesOne, RevokesOn

LEMMA ChangesAlone ==
  ASSUME IInv, NEW q \in Request, Begins(q)
  PROVE  /\ epoch' = epoch + 1 /\ settled' = settled
         /\ request'[q].at = "sweep" /\ request'[q].epoch = epoch + 1
         /\ \A r \in Request : r # q => request'[r] = request[r]
<1>1. PICK K \in SUBSET Given :
        ChangeAccount(q, K) /\ request'[q].at = "sweep" /\ request'[q].epoch = epoch + 1
  BY DEF Begins
<1>2. \E v : Moved(q, v)
  BY <1>1 DEF ChangeAccount, Moved
<1>3. epoch' = epoch + 1 /\ settled' = settled
  BY <1>1 DEF ChangeAccount, history
<1> QED
  BY <1>1, <1>2, <1>3, OthersWait DEF IInv

\* The number of a sweep that is done, or of none.
LEMMA SettledGoes ==
  ASSUME IInv, [Next]_vars
  PROVE  /\ settled' \in Nat /\ settled' <= epoch
         /\ settled' # settled =>
              \E r \in Request : /\ settled' = request[r].epoch
                                 /\ \A q \in Request : q # r => request'[q] = request[q]
                                 /\ request'[r].at = "done"
                                 /\ epoch' = epoch
<1> USE DEF IInv, Changes
<1>1. \A r \in Request : request[r].epoch \in Nat /\ request[r].epoch <= epoch
  BY SessionsAssumption DEF Swept, Types, RequestsOK, RequestType
<1>2. ASSUME NEW r \in Request, request' = [request EXCEPT ![r] = Done]
      PROVE  /\ \A q \in Request : q # r => request'[q] = request[q]
             /\ request'[r].at = "done"
  <2>1. Moved(r, Done)
    BY <1>2 DEF Moved
  <2> QED
    BY <2>1, OthersWait, ThisOneMoved, DoneIs
<1>3. ASSUME NEW r \in Request, NEW s \in Session, SweepDeletes(r) \/ StoreOne(r, s)
      PROVE  epoch' = epoch
  BY <1>3 DEF SweepDeletes, StoreOne
<1>4. CASE settled' = settled
  BY <1>4 DEF Swept
<1>5. CASE \E r \in Request : SweepDeletes(r) /\ Answers(r)
  <2>1. PICK r \in Request : SweepDeletes(r) /\ Answers(r)
    BY <1>5
  <2>2. epoch' = epoch
    BY <2>1 DEF SweepDeletes
  <2> QED
    BY <1>1, <1>2, <2>1, <2>2 DEF Answers
<1>6. CASE \E q \in Request, s \in Session : StoreOne(q, s) /\ Answers(q)
  <2>1. PICK r \in Request, s \in Session : StoreOne(r, s) /\ Answers(r)
    BY <1>6
  <2> QED
    BY <1>1, <1>2, <1>3, <2>1 DEF Answers
<1> QED
  BY <1>4, <1>5, <1>6, SettledBy DEF SettledGoesBy

LEMMA SweptKeeps ==
  ASSUME IInv, [Next]_vars
  PROVE  Swept'
<1> USE DEF IInv, Changes
<1>1. epoch \in Nat /\ (epoch' = epoch \/ epoch' = epoch + 1)
  BY EpochBy, SessionsAssumption DEF Types, TokensOK
<1>2. settled' \in Nat /\ settled' <= epoch'
  BY <1>1, SettledGoes
<1>3. \A q \in Request : request[q].epoch \in Nat /\ request[q].epoch <= epoch
  BY SessionsAssumption DEF Swept, Types, RequestsOK, RequestType
<1>4. ASSUME NEW q \in Request
      PROVE  request'[q].epoch <= epoch'
  BY <1>1, <1>3, EpochsGo, ChangesAlone
<1>5. ASSUME NEW q \in Request, NEW r \in Request, q # r,
             request'[q].epoch = request'[r].epoch
      PROVE  request'[r].epoch = 0
  <2>1. CASE Begins(q)
    BY <1>1, <1>3, <1>5, <2>1, ChangesAlone
  <2>2. CASE Begins(r)
    BY <1>1, <1>3, <1>5, <2>2, ChangesAlone
  <2>3. CASE ~Begins(q) /\ ~Begins(r)
    BY <1>5, <2>3, EpochsGo DEF Swept
  <2> QED
    BY <2>1, <2>2, <2>3
<1>6. ASSUME NEW q \in Request, request'[q].at = "sweep"
      PROVE  /\ request'[q].epoch # 0 /\ request'[q].epoch # settled'
             /\ \A s \in request'[q].left : token'[s].epoch >= request'[q].epoch
  <2>1. CASE Begins(q)
    <3>1. PICK K \in SUBSET Given :
            /\ ChangeAccount(q, K) /\ request'[q].left = K /\ request'[q].epoch = epoch + 1
      BY <2>1 DEF Begins
    <3>2. ASSUME NEW s \in K PROVE token'[s].epoch = epoch + 1
      BY <3>1 DEF ChangeAccount, Types, TokensOK, Given
    <3>3. settled' \in Nat /\ settled' <= epoch
      BY SettledGoes
    <3> QED
      BY <1>1, <3>1, <3>2, <3>3
  <2>2. CASE request'[q].at = request[q].at /\ Work(request'[q]) = Work(request[q])
    <3>1. /\ request[q].at = "sweep" /\ request[q].epoch # 0 /\ request[q].epoch # settled
          /\ request'[q].epoch = request[q].epoch /\ request'[q].left = request[q].left
          /\ \A s \in request[q].left : token[s].epoch >= request[q].epoch
          /\ request[q].left \subseteq Given
      BY <1>6, <2>2 DEF Work, Swept, Types, RequestsOK
    <3>2. settled' # request[q].epoch
      BY <1>6, <3>1, SettledGoes DEF Swept
    <3>3. ASSUME NEW s \in request[q].left PROVE token'[s].epoch >= request[q].epoch
      <4>1. /\ token[s].epoch \in Nat /\ token'[s].epoch \in Nat /\ request[q].epoch \in Nat
            /\ token[s].epoch >= request[q].epoch /\ token[s].epoch <= token'[s].epoch
        BY <1>3, <3>1, GivenStays, TokensKeep, SessionsAssumption DEF Ahead, Types,
           TokensOK, Given
      <4> QED
        BY <4>1
    <3> QED
      BY <3>1, <3>2, <3>3
  <2> QED
    BY <1>6, <2>1, <2>2, HandlersGoOn
       DEF GoesOn, Rests, LogsOut, EndsAnother, Sweeps, Lists, WritesOne, RevokesOn
<1> QED
  BY <1>2, <1>4, <1>5, <1>6 DEF Swept

\* What a sweep left in the rows is as new as the change, and so is what a login
\* has put there since.
LEMMA RowsNewKeeps ==
  ASSUME IInv, [Next]_vars
  PROVE  RowsNew'
<1> USE DEF IInv, Changes
<1> SUFFICES ASSUME NEW x \in rows', x \notin unlisted', x \notin missed'
             PROVE  /\ token'[x].epoch >= settled'
                    /\ \A r \in Request : request'[r].at \in {"mark", "store"} =>
                         token'[x].epoch >= request'[r].epoch
  BY DEF RowsNew
<1>1. \A q \in Request : request[q].epoch \in Nat /\ request[q].epoch <= epoch
  BY SessionsAssumption DEF Swept, Types, RequestsOK, RequestType
<1>2. /\ x \in Session /\ x \notin unlisted /\ x \notin missed /\ settled \in Nat /\ settled' \in Nat
      /\ token[x].epoch \in Nat /\ token'[x].epoch \in Nat /\ epoch \in Nat
  BY UnlistedStays, ListsKeep, TokensKeep, SettledGoes, SessionsAssumption
     DEF ExceptionsStay, Types, ListsOK, TokensOK, Given, Swept
<1>3. CASE x \in rows
  <2>1. token[x].epoch <= token'[x].epoch
    BY <1>3, GivenStays DEF Ahead, Types, ListsOK
  <2>2. token[x].epoch >= settled
    BY <1>2, <1>3 DEF RowsNew
  <2>3. \A r \in Request : request[r].at \in {"mark", "store"} =>
          token[x].epoch >= request[r].epoch
    BY <1>2, <1>3 DEF RowsNew
  <2>4. token[x].epoch >= settled'
    <3>1. CASE settled' = settled
      BY <2>2, <3>1
    <3>2. ASSUME NEW r \in Request, SweepDeletes(r), rows \ request[r].left \subseteq missed',
                 settled' = request[r].epoch
          PROVE  token[x].epoch >= settled'
      <4>1. request[r].at = "sweep" /\ x \in request[r].left
        BY <1>3, <3>2 DEF SweepDeletes, At
      <4> QED
        BY <3>2, <4>1 DEF Swept
    <3>3. ASSUME NEW r \in Request, NEW s \in Session, StoreOne(r, s),
                 settled' = request[r].epoch
          PROVE  token[x].epoch >= settled'
      BY <2>3, <3>3, StoredNow
    <3> QED
      BY <3>1, <3>2, <3>3, SettledBy DEF SettledGoesBy, Answers
  <2>5. token'[x].epoch >= settled'
    BY <1>2, <2>1, <2>4
  <2>6. ASSUME NEW r \in Request, request'[r].at \in {"mark", "store"}
        PROVE  token'[x].epoch >= request'[r].epoch
    <3>1. CASE request'[r].at = request[r].at /\ Work(request'[r]) = Work(request[r])
      BY <1>1, <1>2, <2>1, <2>3, <2>6, <3>1 DEF Work
    <3>2. CASE LogsOut(r) \/ EndsAnother(r)
      BY <1>2, <3>2 DEF LogsOut, EndsAnother, Work
    <3>3. CASE Lists(r) \/ WritesOne(r)
      BY <1>1, <1>2, <2>1, <2>3, <3>3 DEF Lists, WritesOne, Work
    <3>4. CASE Sweeps(r)
      <4>1. /\ SweepDeletes(r) /\ request[r].at = "sweep"
            /\ request'[r].at = "mark" /\ request'[r].epoch = request[r].epoch
        BY <3>4 DEF Sweeps, Work
      <4>2. rows' = rows \ (rows \ request[r].left)
        <5>1. ~(request'[r].at = "done")
          BY <4>1
        <5>2. request' # [request EXCEPT ![r] = Done]
          BY <5>1, DoneIs, ThisOneMoved DEF Moved
        <5> QED
          BY <4>1, <5>2 DEF SweepDeletes
      <4>3. token[x].epoch >= request[r].epoch
        BY <4>1, <4>2 DEF Swept
      <4> QED
        BY <1>1, <1>2, <2>1, <4>1, <4>3
    <3> QED
      BY <2>6, <3>1, <3>2, <3>3, <3>4, HandlersGoOn
         DEF GoesOn, Rests, Begins, RevokesOn
  <2> QED
    BY <2>5, <2>6
<1>4. CASE x \notin rows
  <2>1. LoginIssue(x)
    BY <1>4, RowsAdded
  <2>2. /\ token[x].epoch + 1 .. epoch \subseteq Unswept
        /\ request' = request /\ settled' = settled
    BY <1>2, <2>1 DEF LoginIssue
  <2>3. token' = [token EXCEPT ![x] = [@ EXCEPT !.at = "given", !.iat = clock]]
    BY <2>1 DEF LoginIssue
  <2>4. token'[x].epoch = token[x].epoch
    BY <1>2, <2>3 DEF Types, TokensOK
  <2>5. ASSUME NEW e \in Nat, e <= epoch, e \notin Unswept
        PROVE  token[x].epoch >= e
    BY <1>2, <2>2, <2>5
  <2>6. settled \notin Unswept /\ settled <= epoch
    BY DEF Swept, Unswept
  <2>7. ASSUME NEW r \in Request, request[r].at \in {"mark", "store"}
        PROVE  token[x].epoch >= request[r].epoch
    <3>1. CASE request[r].epoch = 0
      BY <1>2, <3>1
    <3>2. CASE request[r].epoch # 0
      <4>1. request[r].epoch \notin Unswept
        BY <2>7, <3>2 DEF Swept, Unswept
      <4> QED
        BY <1>1, <2>5, <4>1
    <3> QED
      BY <3>1, <3>2
  <2> QED
    BY <1>2, <2>2, <2>4, <2>5, <2>6, <2>7
<1> QED
  BY <1>3, <1>4

-----------------------------------------------------------------------------
(* Revoke all.                                                               *)

LEMMA RevokersStay ==
  ASSUME Types, Revokes, Ahead, UNCHANGED <<revoked, cutoff, unsaved, lost, up>>,
         \A q \in Request : \/ request'[q] = request[q]
                            \/ q \notin Revoking /\ q \notin Revoking'
  PROVE  Revokes'
<1> USE DEF Revokes, Ahead, revoked
<1>1. \A q \in Revoking' : q \in Revoking /\ request'[q] = request[q]
  BY DEF Revoking
<1>2. Revoking' \subseteq Revoking
  BY <1>1
<1>3. {revokedAt, revokedRow, cutoff}' \subseteq 0 .. MaxClock
  OBVIOUS
<1>4. /\ unsaved' \in BOOLEAN
      /\ ~unsaved' => cutoff' <= revokedRow'
      /\ up' /\ ~lost' => cutoff' <= revokedAt'
  OBVIOUS
<1>5. cutoff \in Nat /\ cutoff <= clock
  BY SessionsAssumption
<1>6. cutoff' <= clock'
  BY <1>5
<1>7. ASSUME NEW r \in Revoking'
      PROVE  /\ cutoff' <= request'[r].time /\ request'[r].time <= clock'
             /\ request'[r].alone => \A q \in Revoking' : q = r
             /\ request'[r].alone /\ request'[r].at = "cache" /\ ~request'[r].failed =>
                  request'[r].time <= revokedRow'
  <2>1. r \in Revoking /\ request'[r] = request[r] /\ request[r].time \in Nat
    BY <1>1, <1>7, SessionsAssumption DEF Types, RequestsOK, RequestType, Revoking
  <2>2. request[r].time <= clock'
    BY <2>1
  <2> QED
    BY <1>2, <2>1, <2>2
<1> QED
  BY <1>3, <1>4, <1>6, <1>7

\* A handler of another kind.
LEMMA OthersMove ==
  ASSUME Types, NEW r \in Request, NEW v, Moved(r, v), r \notin Revoking,
         v.at \notin {"setting", "cache"}
  PROVE  \A q \in Request : \/ request'[q] = request[q]
                            \/ q \notin Revoking /\ q \notin Revoking'
<1> SUFFICES ASSUME NEW q \in Request, q # r \/ q \in Revoking \/ q \in Revoking'
             PROVE  request'[q] = request[q]
  BY OthersWait
<1>1. request'[r] = v
  BY ThisOneMoved
<1>2. r \notin Revoking'
  BY <1>1 DEF Revoking
<1> QED
  BY <1>2, OthersWait

LEMMA RevokesKeeps ==
  ASSUME Types, Revokes, [Next]_vars
  PROVE  Revokes'
<1> USE DEF process, account, lists, revoked, reload, history
<1>1. CASE Tick
  BY <1>1, RevokersStay, GivenStays DEF Tick, process, account, lists, revoked, reload,
     history
<1>2. CASE Dies
  <2>1. Revoking' = {} /\ ~up'
    <3>1. \A q \in Request : request'[q] = New \/ request'[q] = Done
      BY <1>2 DEF Dies
    <3> QED
      BY <1>2, <3>1, NewIs, DoneIs DEF Revoking, Dies
  <2>2. revokedAt' = None /\ UNCHANGED <<revokedRow, cutoff, unsaved, clock>>
    BY <1>2 DEF Dies
  <2> QED
    BY <2>1, <2>2, SessionsAssumption DEF Revokes, None
<1>3. CASE Boot
  <2>1. Revoking' = {}
    BY <1>3 DEF Boot, Revoking, Types, RequestsOK
  <2>2. /\ UNCHANGED <<revokedRow, clock>> /\ revokedAt' \in {None, revokedRow}
        /\ UNCHANGED <<cutoff, unsaved>>
        /\ (revokedAt' = revokedRow /\ lost' = unsaved) \/ lost' = TRUE
    BY <1>3 DEF Boot
  <2>3. revokedRow \in 0 .. MaxClock /\ clock \in 1 .. MaxClock
    BY DEF Revokes, Types, ProcessOK
  <2> QED
    BY <2>1, <2>2, <2>3, SessionsAssumption DEF Revokes, None
<1>4. CASE CleanupReads
  BY <1>4, RevokersStay, GivenStays DEF CleanupReads, process, account, lists, revoked,
     reload, history
<1>5. CASE CleanupRefills
  BY <1>5, RevokersStay, GivenStays DEF CleanupRefills, process, account, lists,
     revoked, reload, history
<1>6. ASSUME NEW s \in Session, LoginCheck(s) \/ LoginIssue(s)
      PROVE  Revokes'
  BY <1>6, RevokersStay, GivenStays DEF LoginCheck, LoginIssue, process, account, lists,
     revoked, reload, history
<1>7. ASSUME NEW r \in Request, NEW s \in Session, Logout(r, s)
      PROVE  Revokes'
  <2> DEFINE v == [New EXCEPT !.at = "store", !.list = {s}, !.left = {s}]
  <2>1. Moved(r, v) /\ r \notin Revoking /\ UNCHANGED <<revoked, cutoff, unsaved, lost, up>>
    BY <1>7 DEF Moved, Revoking, At, Logout, process, revoked, history
  <2>2. v.at \notin {"setting", "cache"}
    BY NewIs DEF Types, RequestsOK, RequestType
  <2> HIDE DEF v
  <2> QED
    BY <2>1, <2>2, OthersMove, RevokersStay, GivenStays
<1>8. ASSUME NEW r \in Request, NEW s \in Session, RevokeSession(r, s)
      PROVE  Revokes'
  <2> DEFINE v == [New EXCEPT !.at = "mark", !.list = {s}, !.left = {s}]
  <2>1. Moved(r, v) /\ r \notin Revoking /\ UNCHANGED <<revoked, cutoff, unsaved, lost, up>>
    BY <1>8 DEF Moved, Revoking, At, RevokeSession, process, revoked, history
  <2>2. v.at \notin {"setting", "cache"}
    BY NewIs DEF Types, RequestsOK, RequestType
  <2> HIDE DEF v
  <2> QED
    BY <2>1, <2>2, OthersMove, RevokersStay, GivenStays
<1>9. ASSUME NEW r \in Request, NEW s \in Session, StoreOne(r, s)
      PROVE  Revokes'
  <2> DEFINE w == [request[r] EXCEPT !.left = @ \ {s}]
  <2>1. (Moved(r, w) \/ Moved(r, Done)) /\ r \notin Revoking /\ UNCHANGED <<revoked, cutoff, unsaved, lost, up>>
    BY <1>9 DEF Moved, Revoking, At, StoreOne, process, revoked, history
  <2>2. request[r].at \in {"store", "sweep"} /\ request[r] \in RequestType
    BY <1>9 DEF At, StoreOne, Types, RequestsOK
  <2>3. w.at \notin {"setting", "cache"}
    BY <2>2 DEF RequestType
  <2> HIDE DEF w
  <2> QED
    BY <2>1, <2>3, DoneIs, OthersMove, RevokersStay, GivenStays
<1>10. ASSUME NEW r \in Request, SweepDeletes(r)
      PROVE  Revokes'
  <2> DEFINE w == [request[r] EXCEPT !.at = "mark", !.list = rows \ request[r].left,
                   !.left = rows \ request[r].left]
  <2>1. (Moved(r, w) \/ Moved(r, Done)) /\ r \notin Revoking /\ UNCHANGED <<revoked, cutoff, unsaved, lost, up>>
    BY <1>10 DEF Moved, Revoking, At, SweepDeletes, process, revoked, history
  <2>2. request[r].at \in {"store", "sweep"} /\ request[r] \in RequestType
    BY <1>10 DEF At, SweepDeletes, Types, RequestsOK
  <2>3. w.at \notin {"setting", "cache"}
    BY <2>2 DEF RequestType
  <2> HIDE DEF w
  <2> QED
    BY <2>1, <2>3, DoneIs, OthersMove, RevokersStay, GivenStays
<1>11. ASSUME NEW r \in Request, MarkList(r)
      PROVE  Revokes'
  <2> DEFINE v == [request[r] EXCEPT !.at = "store"]
  <2>1. Moved(r, v) /\ r \notin Revoking /\ UNCHANGED <<revoked, cutoff, unsaved, lost, up>>
    BY <1>11 DEF Moved, Revoking, At, MarkList, Step, process, revoked, history
  <2>2. v.at \notin {"setting", "cache"}
    BY NewIs DEF Types, RequestsOK, RequestType
  <2> HIDE DEF v
  <2> QED
    BY <2>1, <2>2, OthersMove, RevokersStay, GivenStays
<1>12. ASSUME NEW r \in Request, RevokeAll(r)
      PROVE  Revokes'
  <2> DEFINE v == [New EXCEPT !.at = "setting", !.time = clock, !.alone = (Revoking = {})]
  <2>1. /\ r \notin Revoking /\ up
        /\ UNCHANGED <<clock, revokedRow, revokedAt, cutoff, unsaved, lost, up>>
    BY <1>12, RevokeAllSpares DEF RevokeAll, Revoking, At, process, revoked, history
  <2>2. /\ request'[r] = v
        /\ \A q \in Request : q # r => IF q \in Revoking
                                       THEN request'[q] = [request[q] EXCEPT !.alone = FALSE]
                                       ELSE request'[q] = request[q]
    BY <1>12 DEF RevokeAll
  <2>3. v.time = clock /\ v.alone = (Revoking = {}) /\ v.at = "setting"
    BY NewIs DEF RequestType
  <2> HIDE DEF v
  <2>4. ASSUME NEW q \in Revoking', q # r
        PROVE  /\ q \in Revoking /\ request'[q].time = request[q].time
               /\ ~request'[q].alone
    <3>1. CASE q \in Revoking
      <4>1. request'[q] = [request[q] EXCEPT !.alone = FALSE] /\ request[q] \in RequestType
        BY <2>2, <2>4, <3>1 DEF Revoking, Types, RequestsOK
      <4> QED
        BY <3>1, <4>1 DEF RequestType
    <3>2. CASE q \notin Revoking
      BY <2>2, <2>4, <3>2 DEF Revoking
    <3> QED
      BY <3>1, <3>2
  <2>5. Revoking = {} => \A q \in Revoking' : q = r
    BY <2>4
  <2>6. cutoff \in Nat /\ clock \in Nat /\ cutoff <= clock
    BY SessionsAssumption DEF Revokes, Types, ProcessOK
  <2>7. ASSUME NEW q \in Revoking'
        PROVE  /\ cutoff <= request'[q].time /\ request'[q].time <= clock
               /\ request'[q].alone => \A p \in Revoking' : p = q
               /\ request'[q].alone /\ request'[q].at = "cache" /\ ~request'[q].failed =>
                    request'[q].time <= revokedRow
    <3>1. CASE q = r
      <4>1. request'[q].time = clock /\ request'[q].at # "cache"
        BY <2>2, <2>3, <3>1
      <4>2. request'[q].alone = (Revoking = {})
        BY <2>2, <2>3, <3>1
      <4>3. request'[q].alone => \A p \in Revoking' : p = q
        BY <2>5, <3>1, <4>2
      <4> QED
        BY <2>6, <4>1, <4>3
    <3>2. CASE q # r
      BY <2>4, <2>7, <3>2 DEF Revokes
    <3> QED
      BY <3>1, <3>2
  <2> QED
    BY <2>1, <2>7 DEF Revokes
<1>13. ASSUME NEW r \in Request, WriteSetting(r)
      PROVE  Revokes'
  <2> DEFINE v == [request[r] EXCEPT !.at = "cache"]
             w == [request[r] EXCEPT !.at = "cache", !.failed = TRUE]
  <2>1. /\ r \in Revoking /\ UNCHANGED <<clock, revokedAt, cutoff, unsaved, lost, up>>
        /\ \/ revokedRow' = request[r].time /\ Moved(r, v)
           \/ UNCHANGED revokedRow /\ (Moved(r, w) \/ Moved(r, Done))
    BY <1>13 DEF WriteSetting, Step, Moved, Revoking, At, process, history
  <2>2. /\ v.time = request[r].time /\ v.alone = request[r].alone /\ v.at = "cache"
        /\ w.time = request[r].time /\ w.alone = request[r].alone /\ w.failed
    BY DEF Types, RequestsOK, RequestType
  <2> HIDE DEF v, w
  <2>3. ASSUME NEW q \in Revoking'
        PROVE  /\ q \in Revoking /\ request'[q].time = request[q].time
               /\ request'[q].alone => request[q].alone
               /\ q = r /\ ~request'[q].failed => revokedRow' = request[q].time
               /\ q # r => ~request'[q].alone
    <3>1. CASE q = r
      BY <2>1, <2>2, <2>3, <3>1, ThisOneMoved, DoneIs DEF Revoking
    <3>2. CASE q # r
      <4>1. q \in Revoking /\ request'[q] = request[q]
        BY <2>1, <2>3, <3>2, OthersWait DEF Revoking
      <4> QED
        BY <2>1, <3>2, <4>1 DEF Revokes
    <3> QED
      BY <3>1, <3>2
  <2>4. /\ revokedRow' \in 0 .. MaxClock /\ request[r].time \in Nat
        /\ ~unsaved => cutoff <= revokedRow'
    BY <2>1, SessionsAssumption DEF Revokes, Types, RequestsOK, RequestType
  <2>5. ASSUME NEW q \in Revoking'
        PROVE  /\ cutoff <= request'[q].time /\ request'[q].time <= clock
               /\ request'[q].alone => \A p \in Revoking' : p = q
               /\ request'[q].alone /\ ~request'[q].failed => request'[q].time <= revokedRow'
    BY <2>3, <2>4, <2>5 DEF Revokes
  <2> QED
    BY <2>1, <2>4, <2>5 DEF Revokes
<1>14. ASSUME NEW r \in Request, WriteCache(r)
      PROVE  Revokes'
  <2>1. /\ r \in Revoking /\ request[r].at = "cache" /\ UNCHANGED <<clock, revokedRow, up>> /\ up
        /\ Moved(r, Done) /\ revokedAt' \in {request[r].time, clock}
        /\ \/ /\ request[r].alone /\ cutoff' = request[r].time
              /\ unsaved' = request[r].failed /\ ~lost'
           \/ ~request[r].alone /\ UNCHANGED <<cutoff, unsaved, lost>>
    BY <1>14 DEF WriteCache, Moved, Revoking, At, process
  <2>2. ASSUME NEW q \in Revoking'
        PROVE  q \in Revoking /\ q # r /\ request'[q] = request[q]
    <3>1. q # r
      BY <2>1, <2>2, ThisOneMoved, DoneIs DEF Revoking
    <3> QED
      BY <2>1, <2>2, <3>1, OthersWait DEF Revoking
  <2>3. /\ request[r].time \in 0 .. MaxClock /\ clock \in 0 .. MaxClock /\ cutoff \in 0 .. MaxClock
        /\ cutoff <= request[r].time /\ request[r].time <= clock
        /\ request[r].alone /\ ~request[r].failed => request[r].time <= revokedRow
        /\ request[r].failed \in BOOLEAN /\ unsaved \in BOOLEAN
    BY <2>1 DEF Revokes, Types, ProcessOK, RequestsOK, RequestType
  <2>4. /\ cutoff' \in 0 .. MaxClock /\ revokedAt' \in 0 .. MaxClock
        /\ cutoff' <= revokedAt' /\ cutoff' <= clock /\ unsaved' \in BOOLEAN
        /\ ~unsaved' => cutoff' <= revokedRow
    BY <2>1, <2>3, SessionsAssumption DEF Revokes
  <2>5. ASSUME NEW q \in Revoking'
        PROVE  /\ cutoff' <= request'[q].time /\ request'[q].time <= clock
               /\ request'[q].alone => \A p \in Revoking' : p = q
               /\ request'[q].alone /\ request'[q].at = "cache" /\ ~request'[q].failed =>
                    request'[q].time <= revokedRow
    <3>1. cutoff' = cutoff
      BY <2>1, <2>2, <2>5 DEF Revokes
    <3> QED
      BY <2>2, <2>5, <3>1 DEF Revokes
  <2> QED
    BY <2>1, <2>4, <2>5 DEF Revokes
<1>15. ASSUME NEW r \in Request, NEW K \in SUBSET Given, ChangeAccount(r, K)
      PROVE  Revokes'
  <2> DEFINE v == [New EXCEPT !.at = "sweep", !.epoch = epoch', !.left = K]
  <2>1. Moved(r, v) /\ r \notin Revoking /\ UNCHANGED <<revoked, cutoff, unsaved, lost, up>>
    BY <1>15 DEF Moved, Revoking, At, ChangeAccount, process, revoked, history
  <2>2. v.at \notin {"setting", "cache"}
    BY NewIs DEF Types, RequestsOK, RequestType
  <2> HIDE DEF v
  <2> QED
    BY <2>1, <2>2, OthersMove, RevokersStay, GivenStays
<1>16. CASE UNCHANGED vars
  BY <1>16, RevokersStay, GivenStays DEF vars, process, account, lists, revoked, reload,
     history
<1> QED
  BY <1>1, <1>2, <1>3, <1>4, <1>5, <1>6, <1>7, <1>8, <1>9, <1>10, <1>11, <1>12, <1>13,
     <1>14, <1>15, <1>16, Steps

-----------------------------------------------------------------------------
LEMMA StepKeeps == IInv /\ [Next]_vars => IInv'
<1> SUFFICES ASSUME IInv, [Next]_vars PROVE IInv'
  OBVIOUS
<1>1. Types'
  BY ProcessKeeps, TokensKeep, ListsKeep, RequestsKeep DEF IInv, Types
<1>2. Ends'
  BY EndsKeptKeeps, StoresHoldKeeps DEF Ends
<1>3. Changes'
  BY RowsGoneKeeps, SweptKeeps, RowsNewKeeps DEF Changes
<1>4. Revokes'
  BY RevokesKeeps DEF IInv
<1> QED
  BY <1>1, <1>2, <1>3, <1>4 DEF IInv

\* Every end, change and revocation under way, and what it has left.
THEOREM SessionsInvariant == Spec => []IInv
  BY Initially, StepKeeps, PTL DEF Spec

\* The account, its tokens and rows, the lists and the calls only hold what the
\* code can write.
THEOREM SessionsTyped == Spec => []TypeOK
<1>1. IInv => TypeOK
  <2> SUFFICES ASSUME IInv PROVE TypeOK
    OBVIOUS
  <2> USE DEF IInv, Types
  <2>1. /\ lives \in 1 .. MaxLives /\ clock \in 1 .. MaxClock /\ epoch \in 0 .. MaxEpoch
        /\ cleanup \in {"tick", "refill"} /\ faults \in 0 .. MaxFaults
    BY DEF ProcessOK, TokensOK
  <2>2. /\ token \in [Session -> [at : {"none", "checked", "given"}, iat : 0 .. MaxClock,
                                  epoch : 0 .. MaxEpoch]]
        /\ \A s \in Session : token[s].at = "given" <=> token[s].iat # None
    BY DEF TokensOK
  <2>3. /\ rows \cup memory \subseteq Given /\ active \cup ended \subseteq Given
        /\ table \in [Session -> 0 .. MaxClock + Life]
    BY DEF ListsOK
  <2>4. \A r \in Request :
          /\ request[r].at \in {"new", "done", "sweep", "mark", "store", "setting", "cache"}
          /\ request[r].list \cup request[r].left \subseteq Given
    BY DEF RequestsOK, RequestType
  <2>5. ~up => memory = {} /\ revokedAt = None /\ \A r \in Request : request[r].at \in {"new", "done"}
    BY DEF ProcessOK, RequestsOK
  <2>6. {revokedAt, revokedRow, cutoff} \subseteq 0 .. MaxClock /\ settled <= epoch
    BY DEF Revokes, Changes, Swept
  <2> QED
    BY <2>1, <2>2, <2>3, <2>4, <2>5, <2>6 DEF TypeOK
<1> QED
  BY <1>1, SessionsInvariant, PTL

\* A token that is held is refused until it expires.
LEMMA HeldRefused ==
  ASSUME IInv, NEW s \in Session, Held(s), s \notin unseen, clock < token[s].iat + Life
  PROVE  ~Accepted(s)
<1>1. clock \in Nat /\ token[s].iat + Life \in Nat
  BY SessionsAssumption DEF IInv, Types, ProcessOK, TokensOK
<1>2. ~Expired(s)
  BY <1>1 DEF Expired
<1> QED
  BY <1>2 DEF Held, Accepted

LEMMA OverRefused ==
  ASSUME IInv, NEW s \in Session, Over(s), s \notin unseen, s \notin unstored,
         clock < token[s].iat + Life
  PROVE  ~Accepted(s)
<1>1. CASE up
  BY <1>1, HeldRefused DEF Over
<1>2. CASE ~up
  BY <1>2 DEF Accepted
<1> QED
  BY <1>1, <1>2

\* logout, revoke_session and the sweeps: a session whose end was confirmed is
\* refused from then on, across restarts and reloads of the blacklist.
THEOREM EndedStaysEnded == Spec => []EndsHold
<1>1. IInv => EndsHold
  <2> SUFFICES ASSUME IInv, NEW s \in ended, s \notin unstored, s \notin unseen,
                      clock < token[s].iat + Life
               PROVE  ~Accepted(s)
    BY DEF EndsHold
  <2>1. s \in Session /\ Over(s)
    BY DEF IInv, Types, ListsOK, Given, Ends, EndsKept
  <2> QED
    BY <2>1, OverRefused
<1> QED
  BY <1>1, SessionsInvariant, PTL

\* change_password and the change of a role: once it is confirmed no older token
\* is accepted, save where the sweep had no row to find it by or its DELETE failed,
\* and save for the marks that no restart or reload can find again.
THEOREM ChangedOut == Spec => []ChangesHold
<1>1. IInv => ChangesHold
  <2> SUFFICES ASSUME IInv, NEW s \in Given, s \notin unlisted,
                      s \notin rows \cap missed, s \notin unstored,
                      s \notin unseen, s \notin Deleted, token[s].epoch < settled,
                      clock < token[s].iat + Life
               PROVE  ~Accepted(s)
    BY DEF ChangesHold
  <2>1. s \in Session /\ token[s].epoch \in Nat /\ settled \in Nat
    BY SessionsAssumption DEF IInv, Types, TokensOK, Changes, Swept, Given
  <2>2. s \notin rows
    <3>1. s \in rows => token[s].epoch >= settled
      BY DEF IInv, Changes, RowsNew
    <3> QED
      BY <2>1, <3>1
  <2>3. Over(s) \/ Taken(s)
    BY <2>2 DEF IInv, Changes, RowsGone
  <2>4. CASE Over(s)
    BY <2>1, <2>4, OverRefused
  <2>5. CASE Taken(s)
    <3>1. PICK r \in Request : request[r].at \in {"mark", "store"} /\ s \in request[r].list
      BY <2>5 DEF Taken
    <3>2. request[r].at # "mark"
      <4> DEFINE M == {request[q].list : q \in {p \in Request : request[p].at = "mark"}}
      <4>1. request[r].at = "mark" => request[r].list \in M
        OBVIOUS
      <4>2. s \notin UNION M
        BY DEF Deleted
      <4> HIDE DEF M
      <4> QED
        BY <3>1, <4>1, <4>2
    <3>3. Held(s)
      BY <3>1, <3>2 DEF IInv, Ends, StoresHold
    <3> QED
      BY <2>1, <3>3, HeldRefused
  <2> QED
    BY <2>3, <2>4, <2>5
<1> QED
  BY <1>1, SessionsInvariant, PTL

\* revoke_all_sessions and the panic button: every token of an earlier second is
\* refused, across restarts and later revocations, where the setting was written and
\* loaded again.
THEOREM RevokedOut == Spec => []RevocationHolds
<1>1. IInv => RevocationHolds
  <2> SUFFICES ASSUME IInv, ~lost, NEW s \in Given, token[s].iat < cutoff, Accepted(s)
               PROVE  FALSE
    BY DEF RevocationHolds
  <2>1. up /\ (revokedAt # None => token[s].iat >= revokedAt)
    BY DEF Accepted
  <2>2. /\ token[s].iat \in Nat /\ cutoff \in Nat /\ revokedAt \in Nat
        /\ cutoff <= revokedAt
    BY <2>1, SessionsAssumption DEF IInv, Types, TokensOK, Revokes, Given
  <2> QED
    BY <2>1, <2>2 DEF None
<1> QED
  BY <1>1, SessionsInvariant, PTL
=============================================================================
