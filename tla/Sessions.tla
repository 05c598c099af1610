------------------------------ MODULE Sessions ------------------------------
(***************************************************************************)
(* Who may still use a token: the checks of AuthUser (backend/src/auth.rs),*)
(* the handlers that give a token and that end one (routes/auth.rs,        *)
(* users.rs), the blacklist they keep in memory and in a table, the reload *)
(* of a long blacklist by the cleanup task, and the two loads at start     *)
(* (main.rs).  There is one account; its epoch counts the changes of role  *)
(* or password after which older tokens must go.                           *)
(***************************************************************************)
EXTENDS Naturals, FiniteSets

CONSTANTS
  Session,   \* the tokens that may be given, by their jti
  Request,   \* bound: the calls that end sessions
  Life,      \* two hours, in ticks
  Long,      \* a blacklist with more entries is reloaded (10000)
  MaxClock,  \* bound: ticks
  MaxEpoch,  \* bound: changes of the account
  MaxFaults, \* bound: queries that fail
  MaxLives   \* bound: processes, one after the other

ASSUME SessionsAssumption ==
  /\ {Life, MaxClock, MaxLives} \subseteq Nat \ {0}
  /\ {Long, MaxEpoch, MaxFaults} \subseteq Nat

VARIABLES
  up, lives,  \* the process serves; the processes so far
  clock,
  epoch,      \* the changes of the account
  token,      \* [at: "none", "checked" or "given", iat, epoch]
  rows,       \* user_sessions
  memory,     \* state.token_blacklist
  table,      \* token_blacklist: jti to expires_at, None without a row
  revokedAt,  \* state.sessions_revoked_at, None when it is not set
  revokedRow, \* the setting of that name
  request,    \* the handlers: [at, list, left, time, epoch, alone, failed]
  cleanup,    \* the cleanup task: "tick" or "refill"
  active,     \* what its SELECT returned
  faults,
  \* history: the sessions whose end was confirmed; the last epoch and the last
  \* time whose sweep and whose revocation were; ends that reached no table; ends
  \* that a reload cannot see; tokens no sweep can find; tokens a failed sweep has
  \* not looked for; the setting of the last revocation was not written; nor is it
  \* known to this process
  ended, settled, cutoff, unstored, unseen, unlisted, missed, unsaved, lost

account  == <<epoch, token, rows>>
lists    == <<memory, table>>
revoked  == <<revokedAt, revokedRow>>
reload   == <<cleanup, active>>
history  == <<ended, settled, cutoff, unstored, unseen, unlisted, missed, unsaved, lost>>
process  == <<up, lives>>
vars == <<process, clock, account, lists, revoked, request, reload, faults, history>>

None == 0
NoToken == [at |-> "none", iat |-> None, epoch |-> 0]
New == [at |-> "new", list |-> {}, left |-> {}, time |-> None, epoch |-> 0,
        alone |-> TRUE, failed |-> FALSE]
Done == [New EXCEPT !.at = "done"]

Init ==
  /\ up = TRUE /\ lives = 1
  /\ clock = 1 /\ epoch = 0
  /\ token = [s \in Session |-> NoToken] /\ rows = {}
  /\ memory = {} /\ table = [s \in Session |-> None]
  /\ revokedAt = None /\ revokedRow = None
  /\ request = [r \in Request |-> New]
  /\ cleanup = "tick" /\ active = {} /\ faults = 0
  /\ ended = {} /\ settled = 0 /\ cutoff = None
  /\ unstored = {} /\ unseen = {} /\ unlisted = {} /\ missed = {}
  /\ unsaved = FALSE /\ lost = FALSE

Given == {s \in Session : token[s].at = "given"}
Faulty == faults < MaxFaults /\ faults' = faults + 1

\* expires_at > NOW()
Blacklisted == {s \in Session : table[s] > clock}

\* AuthUser: expiry, then the blacklist, then the global revocation.
Accepted(s) ==
  /\ up /\ s \in Given
  /\ clock <= token[s].iat + Life
  /\ s \notin memory
  /\ revokedAt # None => token[s].iat >= revokedAt

At(r, step) == up /\ request[r].at = step
Step(r, step) == request' = [request EXCEPT ![r].at = step]

-----------------------------------------------------------------------------
(* A token is given: login, and twofa_verify behind it.                     *)

LoginCheckLists(s) ==
  /\ up /\ token[s].at = "none"
  /\ token' = [token EXCEPT ![s] = [at |-> "checked", iat |-> None, epoch |-> epoch]]
  /\ rows' = rows \cup {s}
  /\ UNCHANGED <<process, clock, epoch, lists, revoked, request, reload, faults, history>>

\* The row of the account is read and the credentials are checked.
LoginCheck(s) ==
  /\ up /\ token[s].at = "none"
  /\ token' = [token EXCEPT ![s] = [at |-> "checked", iat |-> None, epoch |-> epoch]]
  /\ UNCHANGED <<process, clock, epoch, rows, lists, revoked, request, reload, faults, history>>

\* The changes whose sweep has yet to come.
Unswept == {request[r].epoch : r \in {q \in Request : request[q].at = "sweep"}}

\* issue_session, the row of the session, whose insert may fail unnoticed, and
\* the answer.
LoginIssue(s) ==
  /\ up /\ token[s].at = "checked"
  /\ token' = [token EXCEPT ![s] = [@ EXCEPT !.at = "given", !.iat = clock]]
  /\ \/ /\ rows' = rows \cup {s}
        /\ unlisted' = IF token[s].epoch + 1 .. epoch \subseteq Unswept THEN unlisted ELSE unlisted \cup {s}
        /\ UNCHANGED faults
     \/ Faulty /\ unlisted' = unlisted \cup {s} /\ UNCHANGED rows
  /\ UNCHANGED <<process, clock, epoch, lists, revoked, request, reload,
                 ended, settled, cutoff, unstored, unseen, missed, unsaved, lost>>

-----------------------------------------------------------------------------
(* A token is ended.                                                        *)

\* What every handler adds to the blacklist in memory.  The reload will clear
\* what is added between its SELECT and its refill.
Mark(list) ==
  /\ memory' = memory \cup list
  /\ unseen' = IF cleanup = "refill" THEN unseen \cup list ELSE unseen

\* logout of the caller's own session.
Logout(r, s) ==
  /\ At(r, "new") /\ Accepted(s)
  /\ Mark({s})
  /\ request' = [request EXCEPT ![r] = [New EXCEPT !.at = "store", !.list = {s}, !.left = {s}]]
  /\ UNCHANGED <<process, clock, account, table, revoked, reload, faults,
                 ended, settled, cutoff, unstored, unlisted, missed, unsaved, lost>>

\* revoke_session: another session of the caller, by the id of its row.
RevokeSession(r, s) ==
  /\ At(r, "new") /\ s \in rows /\ \E caller \in Session : Accepted(caller)
  /\ request' = [request EXCEPT ![r] = [New EXCEPT !.at = "mark", !.list = {s}, !.left = {s}]]
  /\ UNCHANGED <<process, clock, account, lists, revoked, reload, faults, history>>

\* A new role or a new password: the UPDATE of the account.  change_password keeps
\* the session that asked for it.
ChangeAccount(r, keep) ==
  /\ At(r, "new") /\ epoch < MaxEpoch
  /\ epoch' = epoch + 1
  /\ token' = [s \in Session |-> IF s \in keep THEN [token[s] EXCEPT !.epoch = epoch'] ELSE token[s]]
  /\ request' = [request EXCEPT ![r] = [New EXCEPT !.at = "sweep", !.epoch = epoch', !.left = keep]]
  /\ UNCHANGED <<process, clock, rows, lists, revoked, reload, faults, history>>

Later(a, b) == IF a > b THEN a ELSE b

SweepOnlyDeletes(r) ==
  LET found == rows \ request[r].left IN
  /\ At(r, "sweep")
  /\ \/ rows' = rows \ found /\ UNCHANGED <<faults, missed>>
     \/ Faulty /\ missed' = missed \cup found /\ UNCHANGED rows
  /\ request' = [request EXCEPT ![r] = Done] /\ settled' = Later(request[r].epoch, settled)
  /\ UNCHANGED <<process, clock, epoch, token, lists, revoked, reload,
                 ended, cutoff, unstored, unseen, unlisted, unsaved, lost>>

\* DELETE FROM user_sessions ... RETURNING jti.  An error reads as no sessions, and
\* with none the handler goes on to confirm the change.
SweepDeletes(r) ==
  LET found == rows \ request[r].left
      owed == [request[r] EXCEPT !.at = "mark", !.list = found, !.left = found]
      Confirms == request' = [request EXCEPT ![r] = Done] /\ settled' = Later(request[r].epoch, settled)
  IN
  /\ At(r, "sweep")
  /\ \/ /\ rows' = rows \ found /\ UNCHANGED <<faults, missed>>
        /\ \/ found = {} /\ Confirms
           \/ found # {} /\ request' = [request EXCEPT ![r] = owed] /\ UNCHANGED settled
     \/ Faulty /\ missed' = missed \cup found /\ Confirms /\ UNCHANGED rows
  /\ UNCHANGED <<process, clock, epoch, token, lists, revoked, reload,
                 ended, cutoff, unstored, unseen, unlisted, unsaved, lost>>

MarkList(r) ==
  /\ At(r, "mark") /\ Mark(request[r].list) /\ Step(r, "store")
  /\ UNCHANGED <<process, clock, account, table, revoked, reload, faults,
                 ended, settled, cutoff, unstored, unlisted, missed, unsaved, lost>>

StoreBriefly(r, s) ==
  \/ /\ table' = [table EXCEPT ![s] = IF @ = None THEN clock + 1 ELSE @]
     /\ UNCHANGED <<faults, unstored>>
  \/ Faulty /\ unstored' = unstored \cup {s} /\ UNCHANGED table

\* INSERT INTO token_blacklist, one after the other, errors ignored; ON CONFLICT
\* an older row stays as it is.
Store(r, s) ==
  \/ /\ table' = [table EXCEPT ![s] = IF @ = None THEN clock + Life ELSE @]
     /\ UNCHANGED <<faults, unstored>>
  \/ Faulty /\ unstored' = unstored \cup {s} /\ UNCHANGED table

\* Behind the last one logout and revoke_session delete the row of the session;
\* then the handler answers.
StoreOne(r, s) ==
  LET q == request[r]
      last == q.left = {s} IN
  /\ At(r, "store") /\ s \in q.left /\ Store(r, s)
  /\ request' = [request EXCEPT ![r] = IF last THEN Done ELSE [q EXCEPT !.left = @ \ {s}]]
  /\ rows' = IF last THEN rows \ q.list ELSE rows
  /\ ended' = IF last THEN ended \cup q.list ELSE ended
  /\ settled' = IF last THEN Later(q.epoch, settled) ELSE settled
  /\ UNCHANGED <<process, clock, epoch, token, memory, revoked, reload,
                 cutoff, unseen, unlisted, missed, unsaved, lost>>

-----------------------------------------------------------------------------
(* revoke_all_sessions, and the panic button with the same two writes.      *)

Revoking == {r \in Request : request[r].at \in {"setting", "cache"}}

\* The time is taken first; who overlaps whom is remembered.
RevokeAll(r) ==
  /\ At(r, "new")
  /\ request' = [q \in Request |->
       IF q = r THEN [New EXCEPT !.at = "setting", !.time = clock, !.alone = (Revoking = {})]
       ELSE IF q \in Revoking THEN [request[q] EXCEPT !.alone = FALSE] ELSE request[q]]
  /\ UNCHANGED <<process, clock, account, lists, revoked, reload, faults, history>>

\* The setting; revoke_all_sessions goes on when the write fails, and confirms the
\* revocation; the panic button does not touch the memory then.
WriteSetting(r) ==
  /\ At(r, "setting")
  /\ \/ revokedRow' = request[r].time /\ Step(r, "cache") /\ UNCHANGED faults
     \/ /\ Faulty /\ UNCHANGED revokedRow
        /\ \/ request' = [request EXCEPT ![r] = [@ EXCEPT !.at = "cache", !.failed = TRUE]]
           \/ request' = [request EXCEPT ![r] = Done]
  /\ UNCHANGED <<process, clock, account, lists, revokedAt, reload, history>>

\* The memory: revoke_all_sessions with the time of the setting, the panic button
\* with the time it is now.  Behind it the call is answered: a revocation that was
\* alone counts from here on, written or not.
WriteCache(r) ==
  /\ At(r, "cache")
  /\ revokedAt' \in {request[r].time, clock}
  /\ \/ /\ request[r].alone
        /\ cutoff' = request[r].time /\ unsaved' = request[r].failed /\ lost' = FALSE
     \/ ~request[r].alone /\ UNCHANGED <<cutoff, unsaved, lost>>
  /\ request' = [request EXCEPT ![r] = Done]
  /\ UNCHANGED <<process, clock, account, lists, revokedRow, reload, faults,
                 ended, settled, unstored, unseen, unlisted, missed>>

-----------------------------------------------------------------------------
(* The cleanup task.                                                        *)

Unexpired(t) == [s \in Session |-> IF t[s] > clock THEN t[s] ELSE None]

\* A long blacklist: expired rows are deleted, the others read, and an error reads
\* as none.  An end that is in memory and not yet in the table is not among them.
CleanupReads ==
  /\ up /\ cleanup = "tick"
  /\ Cardinality(memory) > Long
  /\ cleanup' = "refill" /\ table' = Unexpired(table)
  /\ \/ active' = Blacklisted /\ unseen' = unseen \cup (memory \ Blacklisted) /\ UNCHANGED faults
     \/ Faulty /\ active' = {} /\ unseen' = unseen \cup memory
  /\ UNCHANGED <<process, clock, account, memory, revoked, request,
                 ended, settled, cutoff, unstored, unlisted, missed, unsaved, lost>>

CleanupRefills ==
  /\ cleanup = "refill"
  /\ memory' = active /\ active' = {} /\ cleanup' = "tick"
  /\ UNCHANGED <<process, clock, account, table, revoked, request, faults, history>>

-----------------------------------------------------------------------------
(* The process.                                                             *)

\* The handlers, the logins and the cleanup under way die with the process: a
\* crash, or a shutdown whose watchdog cuts them off.
Dies ==
  /\ up /\ lives < MaxLives /\ up' = FALSE
  /\ request' = [r \in Request |-> IF request[r].at = "new" THEN New ELSE Done]
  /\ token' = [s \in Session |-> IF token[s].at = "checked" THEN NoToken ELSE token[s]]
  /\ unlisted' = unlisted \cup ((UNION {request[r].left : r \in Request}) \ rows)
  /\ memory' = {} /\ revokedAt' = None /\ cleanup' = "tick" /\ active' = {}
  /\ UNCHANGED <<lives, clock, epoch, rows, table, revokedRow, faults,
                 ended, settled, cutoff, unstored, unseen, missed, unsaved, lost>>

BootWithoutRevocation ==
  /\ ~up /\ up' = TRUE /\ lives' = lives + 1
  /\ memory' = Blacklisted /\ revokedAt' = None /\ lost' = unsaved
  /\ UNCHANGED <<clock, account, table, revokedRow, request, reload, faults,
                 ended, settled, cutoff, unstored, unseen, unlisted, missed, unsaved>>

\* At start the blacklist and the revocation are loaded; an error reads as none.
Boot ==
  /\ ~up /\ up' = TRUE /\ lives' = lives + 1
  /\ \/ /\ memory' = Blacklisted /\ revokedAt' = revokedRow /\ lost' = unsaved
        /\ UNCHANGED <<faults, unseen>>
     \/ /\ Faulty /\ memory' = {} /\ revokedAt' = revokedRow /\ lost' = unsaved
        /\ unseen' = Session
     \/ /\ Faulty /\ memory' = Blacklisted /\ revokedAt' = None /\ lost' = TRUE
        /\ UNCHANGED unseen
  /\ UNCHANGED <<clock, account, table, revokedRow, request, reload,
                 ended, settled, cutoff, unstored, unlisted, missed, unsaved>>

Tick ==
  /\ clock < MaxClock /\ clock' = clock + 1
  /\ UNCHANGED <<process, account, lists, revoked, request, reload, faults, history>>

Next ==
  \/ Tick \/ Dies \/ Boot \/ CleanupReads \/ CleanupRefills
  \/ \E s \in Session : LoginCheck(s) \/ LoginIssue(s)
  \/ \E r \in Request, s \in Session : Logout(r, s) \/ RevokeSession(r, s) \/ StoreOne(r, s)
  \/ \E r \in Request :
       \/ SweepDeletes(r) \/ MarkList(r)
       \/ RevokeAll(r) \/ WriteSetting(r) \/ WriteCache(r)
       \/ ChangeAccount(r, {})
       \/ \E s \in Session : Accepted(s) /\ ChangeAccount(r, {s})

Spec == Init /\ [][Next]_vars

-----------------------------------------------------------------------------

\* Type correctness of the account, its tokens and rows, the lists and the calls;
\* only a given token is in a row, in a list or under a handler's hands, and no
\* call outlives its process.
TypeOK ==
  /\ lives \in 1 .. MaxLives
  /\ clock \in 1 .. MaxClock /\ epoch \in 0 .. MaxEpoch
  /\ token \in [Session -> [at : {"none", "checked", "given"}, iat : 0 .. MaxClock, epoch : 0 .. MaxEpoch]]
  /\ \A s \in Session : token[s].at = "given" <=> token[s].iat # None
  /\ rows \cup memory \subseteq Given
  /\ table \in [Session -> 0 .. MaxClock + Life]
  /\ {revokedAt, revokedRow, cutoff} \subseteq 0 .. MaxClock
  /\ \A r \in Request :
       /\ request[r].at \in {"new", "done", "sweep", "mark", "store", "setting", "cache"}
       /\ request[r].list \cup request[r].left \subseteq Given
  /\ cleanup \in {"tick", "refill"}
  /\ active \cup ended \subseteq Given
  /\ ~up => memory = {} /\ revokedAt = None /\ \A r \in Request : request[r].at \in {"new", "done"}
  /\ settled <= epoch /\ faults \in 0 .. MaxFaults

\* A session whose end was confirmed is refused from then on: across a restart, a
\* reload of the blacklist, and for as long as the token is not expired.  Excepted
\* are the ends whose row could not be written, those that were being written when
\* a reload read the table, and a reload or a load that failed.
EndsHold ==
  \A s \in ended \ (unstored \cup unseen) : clock < token[s].iat + Life => ~Accepted(s)

\* Sessions whose rows a handler has deleted without having come to the blacklist.
Deleted == UNION {request[r].list : r \in {q \in Request : request[q].at = "mark"}}

\* Once a change of the account is confirmed no token given before it is accepted.
\* Excepted, and not refused by the code: a token the sweep had no row to find by
\* (its login overlapped the change, its row could not be written, or another
\* handler has deleted it and has not come to the blacklist, or died before it
\* did); the tokens of a sweep whose DELETE failed, which reads as no sessions and
\* is confirmed all the same, for as long as their rows stay; and, as in EndsHold,
\* a mark whose row in the table could not be written, one a reload could not see,
\* and those of a reload or a load that failed.
ChangesHold ==
  \A s \in Given \ (unlisted \cup (rows \cap missed) \cup unstored \cup unseen \cup Deleted) :
    token[s].epoch < settled /\ clock < token[s].iat + Life => ~Accepted(s)

\* After "revoke all" is confirmed every token of an earlier second is refused,
\* across restarts and later revocations.  Excepted are a revocation that another
\* one overlapped; one whose setting could not be written, which is confirmed and
\* holds until the process ends; and a process that could not load the setting.
RevocationHolds ==
  ~lost => \A s \in Given : token[s].iat < cutoff => ~Accepted(s)
=============================================================================
