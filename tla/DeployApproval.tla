--------------------------- MODULE DeployApproval ---------------------------
(***************************************************************************)
(* Deploy protection (backend/src/routes/git_deploys.rs): the Deploy       *)
(* button of a protected deployment files a request, which another         *)
(* administrator approves or rejects and which the owner may withdraw, or  *)
(* cancel by switching the protection off.  Every statement of a handler   *)
(* is a step of its own: two handlers interleave between them.  The build  *)
(* lock is GitDeploy's, seen from here as taken or not.                    *)
(***************************************************************************)
EXTENDS Naturals, Sequences

CONSTANTS
  Admin,        \* the administrators who may act on the deployment's machine
  Owner,        \* the one who owns the deployment
  Nobody,       \* no administrator: approved_by is NULL
  Handler,      \* requests to the panel that can be in flight at once
  MaxRequests,  \* bound: requests filed
  MaxFlips      \* bound: times the protection is switched

ASSUME ApprovalAssumption ==
  /\ Owner \in Admin /\ Nobody \notin Admin
  /\ MaxRequests \in Nat /\ MaxFlips \in Nat

VARIABLES
  protected,  \* git_deploys.deploy_protected
  requests,   \* deploy_approvals, oldest first: [status, by], by = approved_by
  built,      \* how many builds each request has started
  locked,     \* git_deploys.status holds the build lock
  handler,    \* each request in flight: [pc, by, request]
  flips,      \* times the protection has been switched
  contested,  \* history: requests somebody began to decide before another was done with them
  burnt       \* history: requests whose approver was cut off between verdict and build

history == <<contested, burnt>>
vars == <<protected, requests, built, locked, handler, flips, history>>

Step == {"idle", "file", "deployLock", "config", "approveLock", "mark", "spawn", "reject", "cancel"}
RequestStatus == {"pending", "approved", "rejected", "cancelled"}

Idle == [pc |-> "idle", by |-> Owner, request |-> 0]

Init ==
  /\ protected = TRUE
  /\ requests = <<>> /\ built = <<>>
  /\ locked = FALSE
  /\ handler = [h \in Handler |-> Idle]
  /\ flips = 0
  /\ contested = {} /\ burnt = {}

\* Handler h is at statement pc, or has answered.
Goto(h, pc) ==
  handler' = [handler EXCEPT ![h] = IF pc = "idle" THEN Idle ELSE [@ EXCEPT !.pc = pc]]

Begin(h, a, k, pc) ==
  /\ handler[h].pc = "idle"
  /\ handler' = [handler EXCEPT ![h] = [pc |-> pc, by |-> a, request |-> k]]

Pending(k) == requests[k].status = "pending"

\* Handler h has read a request as pending and has not written its verdict.
Decides(h) == handler[h].pc \in {"config", "approveLock", "mark", "reject"}
Contest(K) ==
  contested' = contested \cup {k \in K : \E h \in Handler : Decides(h) /\ handler[h].request = k}

\* UPDATE deploy_approvals SET status, approved_by WHERE id: whatever the row says.
Resolve(k, s, a) == requests' = [requests EXCEPT ![k] = [status |-> s, by |-> a]]

-----------------------------------------------------------------------------
\* deploy(): only the owner finds the row.  A protected deployment files a
\* request, any other goes on to the lock.
DeployRead(h) ==
  /\ Begin(h, Owner, 0, IF protected THEN "file" ELSE "deployLock")
  /\ UNCHANGED <<protected, requests, built, locked, flips, history>>

\* INSERT ... ON CONFLICT DO NOTHING on the index of pending requests.
FileAlways(h) ==
  /\ handler[h].pc = "file" /\ Goto(h, "idle")
  /\ Len(requests) < MaxRequests
  /\ requests' = Append(requests, [status |-> "pending", by |-> Nobody])
  /\ built' = Append(built, 0)
  /\ UNCHANGED <<protected, locked, flips, history>>

File(h) ==
  /\ handler[h].pc = "file" /\ Goto(h, "idle")
  /\ \/ /\ \A k \in DOMAIN requests : ~Pending(k)
        /\ Len(requests) < MaxRequests
        /\ requests' = Append(requests, [status |-> "pending", by |-> Nobody])
        /\ built' = Append(built, 0)
     \/ UNCHANGED <<requests, built>>
  /\ UNCHANGED <<protected, locked, flips, history>>

\* The conditional UPDATE that is the build lock; a refused caller answers 409.
DeployLock(h) ==
  /\ handler[h].pc = "deployLock" /\ Goto(h, "idle")
  /\ locked' = TRUE \/ UNCHANGED locked
  /\ UNCHANGED <<protected, requests, built, flips, history>>

\* approve_deploy(): the row, then the configuration and the agent, then the
\* lock, then the verdict and the build.
ApproveReadAny(h) ==
  /\ \E a \in Admin \ {Owner}, k \in DOMAIN requests :
       Begin(h, a, k, "config") /\ Contest({k})
  /\ UNCHANGED <<protected, requests, built, locked, flips, burnt>>

ApproveRead(h) ==
  /\ \E a \in Admin \ {Owner}, k \in DOMAIN requests :
       Pending(k) /\ Begin(h, a, k, "config") /\ Contest({k})
  /\ UNCHANGED <<protected, requests, built, locked, flips, burnt>>

ApproveConfig(h) ==
  /\ handler[h].pc = "config"
  /\ \/ protected /\ Goto(h, "approveLock")
     \/ Goto(h, "idle")
  /\ UNCHANGED <<protected, requests, built, locked, flips, history>>

ApproveLockBurns(h) ==
  /\ handler[h].pc = "approveLock"
  /\ Resolve(handler[h].request, "approved", handler[h].by)
  /\ \/ ~locked /\ locked' = TRUE /\ Goto(h, "mark")
     \/ Goto(h, "idle") /\ UNCHANGED locked
  /\ UNCHANGED <<protected, built, flips, history>>

ApproveLock(h) ==
  /\ handler[h].pc = "approveLock"
  /\ \/ ~locked /\ locked' = TRUE /\ Goto(h, "mark")
     \/ Goto(h, "idle") /\ UNCHANGED locked
  /\ UNCHANGED <<protected, requests, built, flips, history>>

\* When the UPDATE fails the handler answers 500 and keeps the lock.
ApproveMark(h) ==
  /\ handler[h].pc = "mark"
  /\ \/ Resolve(handler[h].request, "approved", handler[h].by) /\ Goto(h, "spawn")
     \/ Goto(h, "idle") /\ UNCHANGED requests
  /\ UNCHANGED <<protected, built, locked, flips, history>>

\* Once the UPDATE is known to have committed nothing is awaited before the build.
ApproveSpawn(h) ==
  /\ handler[h].pc = "spawn" /\ Goto(h, "idle")
  /\ built' = [built EXCEPT ![handler[h].request] = @ + 1]
  /\ UNCHANGED <<protected, requests, locked, flips, history>>

\* reject_deploy(): no rule against the requester, who withdraws this way.
RejectRead(h) ==
  /\ \E a \in Admin, k \in DOMAIN requests :
       Pending(k) /\ Begin(h, a, k, "reject") /\ Contest({k})
  /\ UNCHANGED <<protected, requests, built, locked, flips, burnt>>

RejectWrite(h) ==
  /\ handler[h].pc = "reject" /\ Goto(h, "idle")
  /\ Resolve(handler[h].request, "rejected", handler[h].by) \/ UNCHANGED requests
  /\ UNCHANGED <<protected, built, locked, flips, history>>

-----------------------------------------------------------------------------
\* update(): the row, then, when it comes back unprotected, the requests that
\* wait.  A cancellation that fails is logged.
Update(h) ==
  /\ flips < MaxFlips /\ flips' = flips + 1
  /\ \E p \in BOOLEAN :
       /\ protected' = p
       /\ Begin(h, Owner, 0, IF p THEN "idle" ELSE "cancel")
  /\ UNCHANGED <<requests, built, locked, history>>

CancelMisspelt(h) ==
  /\ handler[h].pc = "cancel" /\ Goto(h, "idle")
  /\ requests' = [k \in DOMAIN requests |->
                    IF Pending(k) THEN [status |-> "canceled", by |-> Nobody] ELSE requests[k]]
  /\ Contest({k \in DOMAIN requests : Pending(k)})
  /\ UNCHANGED <<protected, built, locked, flips, burnt>>

CancelPending(h) ==
  /\ handler[h].pc = "cancel" /\ Goto(h, "idle")
  /\ \/ /\ requests' = [k \in DOMAIN requests |->
                         IF Pending(k) THEN [status |-> "cancelled", by |-> Nobody] ELSE requests[k]]
        /\ Contest({k \in DOMAIN requests : Pending(k)})
     \/ UNCHANGED <<requests, contested>>
  /\ UNCHANGED <<protected, built, locked, flips, burnt>>

-----------------------------------------------------------------------------
\* The other doors (webhook, schedule, rollback) ask for no approval and take
\* the same lock; a build ends, is stopped, or has its lock taken over.
OtherDoor ==
  /\ ~locked /\ locked' = TRUE
  /\ UNCHANGED <<protected, requests, built, handler, flips, history>>

LockFreed ==
  /\ locked /\ locked' = FALSE
  /\ UNCHANGED <<protected, requests, built, handler, flips, history>>

\* Handlers that end where they are: the caller hangs up and the handler is dropped at
\* what it awaits, the answer of the database is lost, or the panel dies with them all.
\* An approval whose UPDATE has committed by then is spent without a build.
Burn(H) ==
  burnt' = burnt \cup {handler[h].request : h \in {g \in H : handler[g].pc = "spawn"}}

HangUp(h) ==
  /\ handler[h].pc # "idle" /\ Goto(h, "idle") /\ Burn({h})
  /\ UNCHANGED <<protected, requests, built, locked, flips, contested>>

PanelRestart ==
  /\ \E h \in Handler : handler[h].pc # "idle"
  /\ handler' = [h \in Handler |-> Idle] /\ Burn(Handler)
  /\ UNCHANGED <<protected, requests, built, locked, flips, contested>>

Handle(h) ==
  \/ DeployRead(h) \/ File(h) \/ DeployLock(h)
  \/ ApproveRead(h) \/ ApproveConfig(h) \/ ApproveLock(h) \/ ApproveMark(h)
  \/ ApproveSpawn(h) \/ HangUp(h)
  \/ RejectRead(h) \/ RejectWrite(h) \/ Update(h) \/ CancelPending(h)

Next == (\E h \in Handler : Handle(h)) \/ OtherDoor \/ LockFreed \/ PanelRestart

Spec == Init /\ [][Next]_vars
-----------------------------------------------------------------------------
\* Properties.

TypeOK ==
  /\ protected \in BOOLEAN /\ locked \in BOOLEAN
  /\ requests \in Seq([status : RequestStatus, by : Admin \cup {Nobody}])
  /\ built \in Seq(Nat) /\ Len(built) = Len(requests)
  /\ handler \in [Handler -> [pc : Step, by : Admin, request : 0 .. Len(requests)]]
  /\ flips \in 0 .. MaxFlips
  /\ contested \subseteq DOMAIN requests /\ burnt \subseteq DOMAIN requests

\* A deployment has one request waiting at a time, however many handlers file
\* one at once.
OneWaiting == \A j, k \in DOMAIN requests : Pending(j) /\ Pending(k) => j = k

\* However the handlers interleave, what stands as approved was approved by an
\* administrator other than the requester, and a build came of it or is about to:
\* an approval refused by the lock is not spent.  The exception is an approver who was
\* cut off after the UPDATE had committed and before the build was spawned.
ApprovalWasSpent ==
  \A k \in DOMAIN requests :
    requests[k].status = "approved" =>
      /\ requests[k].by \in Admin \ {Owner}
      /\ \/ built[k] > 0 \/ k \in burnt
         \/ \E h \in Handler : handler[h].pc = "spawn" /\ handler[h].request = k

\* However the handlers interleave, the requests are the ledger: a verdict is final and
\* an approval is one build ("Reject, which is final", docs/guides/git-deploy.md:330).
\* The ledger excepts, against the guide, the requests that two people decide at once
\* (contested), whose last verdict stands and which each approval may build.
Verdict(h) == IF handler[h].pc = "reject" THEN "rejected" ELSE "approved"
Decision(h) == [request |-> handler[h].request, by |-> handler[h].by, verdict |-> Verdict(h)]
Deciding == {Decision(h) : h \in {g \in Handler : Decides(g)}}
Starting == {handler[h].request : h \in {g \in Handler : handler[g].pc = "spawn"}}

Ledger == INSTANCE ApprovalLedger WITH ledger <- requests, deciding <- Deciding, starting <- Starting
LedgerKept == Ledger!LedgerSpec
=============================================================================
