--------------------------- MODULE ApprovalLedger ---------------------------
(***************************************************************************)
(* What deploy protection promises (docs/guides/git-deploy.md, "two-person *)
(* rule") with the handlers and their statements taken away: one request   *)
(* waits at a time, a decision is begun only while its request waits, an   *)
(* approval only by another than the requester, a verdict is final, and an *)
(* approval is one build.                                                  *)
(*                                                                         *)
(* Of a request that a second person began to decide, or that was          *)
(* cancelled, while a first was at it, the code keeps less than the guide  *)
(* says: the last verdict stands, and each approval may be a build.  Such  *)
(* requests are contested, and the ledger says for which they are.         *)
(***************************************************************************)
EXTENDS Naturals, Sequences

CONSTANTS
  Admin,   \* the administrators who may act on the deployment's machine
  Owner,   \* the one who owns the deployment, and so files its requests
  Nobody   \* no administrator has decided

VARIABLES
  ledger,    \* the requests, oldest first: [status, by]
  built,     \* how many builds each request has started
  deciding,  \* decisions begun and not over: [request, by, verdict]
  starting,  \* requests approved whose build is about to start
  contested  \* requests decided by two at once

ledgerVars == <<ledger, built, deciding, starting, contested>>

LedgerInit ==
  ledger = <<>> /\ built = <<>> /\ deciding = {} /\ starting = {} /\ contested = {}

Waiting(k) == ledger[k].status = "pending"
Decided(k) == \E d \in deciding : d.request = k

Ask ==
  /\ \A k \in DOMAIN ledger : ~Waiting(k)
  /\ ledger' = Append(ledger, [status |-> "pending", by |-> Nobody])
  /\ built' = Append(built, 0)
  /\ UNCHANGED <<deciding, starting, contested>>

Open(k, a, verdict) ==
  /\ Waiting(k) /\ (verdict = "approved" => a # Owner)
  /\ deciding' = deciding \cup {[request |-> k, by |-> a, verdict |-> verdict]}
  /\ contested' = IF Decided(k) THEN contested \cup {k} ELSE contested
  /\ UNCHANGED <<ledger, built, starting>>

\* A verdict is final, unless the request is contested.
Land(d) ==
  /\ Waiting(d.request) \/ d.request \in contested
  /\ ledger' = [ledger EXCEPT ![d.request] = [status |-> d.verdict, by |-> d.by]]
  /\ deciding \ {d} \subseteq deciding' /\ deciding' \subseteq deciding
  /\ starting' = IF d.verdict = "approved" THEN starting \cup {d.request} ELSE starting
  /\ UNCHANGED <<built, contested>>

\* An approval is one build, unless the request is contested.
Start(k) ==
  /\ (built[k] = 0 /\ ledger[k].status = "approved") \/ k \in contested
  /\ built' = [built EXCEPT ![k] = @ + 1]
  /\ starting \ {k} \subseteq starting' /\ starting' \subseteq starting
  /\ UNCHANGED <<ledger, deciding, contested>>

\* Decisions come to nothing: refused on the way, or their handlers are cut off.
Abandon ==
  /\ deciding' \subseteq deciding /\ starting' \subseteq starting
  /\ UNCHANGED <<ledger, built, contested>>

Cancel(k) ==
  /\ Waiting(k)
  /\ ledger' = [ledger EXCEPT ![k] = [status |-> "cancelled", by |-> Nobody]]
  /\ contested' = IF Decided(k) THEN contested \cup {k} ELSE contested
  /\ UNCHANGED <<built, deciding, starting>>

LedgerNext ==
  \/ Ask \/ Abandon
  \/ \E k \in DOMAIN ledger : Cancel(k)
  \/ \E k \in DOMAIN ledger, a \in Admin, verdict \in {"approved", "rejected"} : Open(k, a, verdict)
  \/ \E d \in deciding : Land(d)
  \/ \E k \in starting : Start(k)

LedgerSpec == LedgerInit /\ [][LedgerNext]_ledgerVars
=============================================================================
