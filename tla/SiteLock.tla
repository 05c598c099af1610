----------------------------- MODULE SiteLock -----------------------------
(***************************************************************************)
(* The site locks of the agent (agent/src/site_lock.rs) and what the       *)
(* operations of the agent take of them.  A lock is a tokio mutex found by *)
(* its key: the domain of a site, "git-deploy:" and the name of a          *)
(* deployment, or "volume:" and the name of a volume.  It is not           *)
(* reentrant.  A guard is held until it is dropped, at the end of the      *)
(* operation or when the caller goes away and the request is cancelled.    *)
(*                                                                         *)
(* Keys are numbers: the domains in the order of the strings, and whatever *)
(* is not a domain below them, because the code takes it first.            *)
(***************************************************************************)
EXTENDS Naturals, Sequences, FiniteSets

CONSTANTS
  Requests, \* the requests the agent serves at once
  Domains,  \* keys that are the domain of a site
  Deploys,  \* keys of git deployments
  Volumes,  \* keys of volumes
  Fresh     \* domains that an app is exposed on with a certificate to obtain

Keys == Domains \cup Deploys \cup Volumes

ASSUME RequestsAssumption == IsFiniteSet(Requests)

ASSUME KeysAssumption ==
  /\ Keys \subseteq Nat /\ Fresh \subseteq Domains
  /\ \A k \in Deploys, d \in Domains : k < d

VARIABLES
  todo, \* todo[r]: the keys request r has yet to lock, in order
  held  \* held[r]: the keys it holds a guard of, in the order it got them

vars == <<todo, held>>

Init ==
  /\ todo = [r \in Requests |-> <<>>]
  /\ held = [r \in Requests |-> <<>>]

-----------------------------------------------------------------------------
\* lock_sites(a, b): both, the smaller first.
LockSitesAsNamed(a, b) == IF a = b THEN <<a>> ELSE <<a, b>>

LockSites(a, b) ==
  CASE a = b -> <<a>>
    [] a < b -> <<a, b>>
    [] OTHER -> <<b, a>>

\* The clone and the sync of a staging site.
TwoSites == {LockSites(a, b) : a \in Domains, b \in Domains}

\* The update with rollback, hardening, both restores, the deletion of files, a
\* certificate for a site, an app's blue-green update and its removal.
OneSite == {<<d>> : d \in Domains}

\* The key without the name of the volume, and with it.
RestoreVolumeUnnamed == {<<0>>}
RestoreVolume == {<<v>> : v \in Volumes}

\* deploy_or_update and cleanup_container; a deploy may obtain a certificate for
\* its domain while it holds its own lock.
GitDeploy == {<<n>> : n \in Deploys} \cup {<<n, d>> : n \in Deploys, d \in Domains}

\* expose_domain, and enable_ssl_for_site that it calls.
Expose == {<<d>> : d \in Domains} \cup {<<d, d>> : d \in Fresh}

Operations == TwoSites \cup OneSite \cup RestoreVolume \cup GitDeploy \cup Expose

Holds(r, k) == \E i \in DOMAIN held[r] : held[r][i] = k
Free(k) == \A r \in Requests : ~Holds(r, k)

-----------------------------------------------------------------------------
Request(r) ==
  /\ todo[r] = <<>> /\ held[r] = <<>>
  /\ \E keys \in Operations : todo' = [todo EXCEPT ![r] = keys]
  /\ UNCHANGED held

\* lock_site(key).await returns.
Lock(r) ==
  /\ todo[r] # <<>> /\ Free(Head(todo[r]))
  /\ held' = [held EXCEPT ![r] = Append(@, Head(todo[r]))]
  /\ todo' = [todo EXCEPT ![r] = Tail(@)]

\* The work is done and the newest guard dropped.
Drop(r) ==
  /\ todo[r] = <<>> /\ held[r] # <<>>
  /\ held' = [held EXCEPT ![r] = SubSeq(@, 1, Len(@) - 1)]
  /\ UNCHANGED todo

\* The caller hangs up: the request is dropped where it stands, with its guards.
Cancel(r) ==
  /\ todo[r] # <<>> \/ held[r] # <<>>
  /\ todo' = [todo EXCEPT ![r] = <<>>]
  /\ held' = [held EXCEPT ![r] = <<>>]

Next == \E r \in Requests : Request(r) \/ Lock(r) \/ Drop(r) \/ Cancel(r)

Spec == Init /\ [][Next]_vars

\* The mutex is fair, and work that has its locks ends: its calls have timeouts.
Fairness == \A r \in Requests : SF_vars(Lock(r)) /\ WF_vars(Drop(r))

FairSpec == Spec /\ Fairness
-----------------------------------------------------------------------------
\* Properties.

\* No operation needs more than two locks.
TypeOK ==
  /\ todo \in [Requests -> Seq(Keys)] /\ held \in [Requests -> Seq(Keys)]
  /\ \A r \in Requests : Len(todo[r]) + Len(held[r]) <= 2

WaitsFor(r, s) == todo[r] # <<>> /\ Holds(s, Head(todo[r]))

\* expose_domain obtains a certificate while it holds the lock of its domain, and
\* enable_ssl_for_site asks for that lock again: the request waits for itself.
WaitsForItself(r) == WaitsFor(r, r) /\ Head(todo[r]) \in Fresh

\* Nobody waits in a circle: of every group of requests one waits for none of the
\* group, or for nobody but itself, exposing a domain with a certificate to obtain.
\* lock_sites sorts its keys for this.
NoDeadlock ==
  \A S \in SUBSET Requests :
    S # {} => \E r \in S : \A s \in S : WaitsFor(r, s) => s = r /\ WaitsForItself(r)

\* A request that has asked for a site gets it, or its caller hangs up, unless one
\* waits for itself; that one keeps its lock until its own caller hangs up.
EveryoneIsServed ==
  \A r \in Requests :
    todo[r] # <<>> ~> todo[r] = <<>> \/ (\E s \in Requests : WaitsForItself(s))
=============================================================================
