---------------------------- MODULE SiteFiles ----------------------------
(***************************************************************************)
(* The files of the sites on one host, under the agent operations that     *)
(* write them, each a request that runs once: the update with rollback,    *)
(* hardening, the restore of a backup, the sync of two sites, the deletion *)
(* of a site, and the plugin, theme and core actions of WordPress.  The    *)
(* locks are those of SiteLock.                                            *)
(*                                                                         *)
(* The files of a site are the set of what they show: "base" (what the     *)
(* site had in the beginning, and has in its backup) and the requests      *)
(* whose change is in them.  A site with no files is the empty set.        *)
(***************************************************************************)
EXTENDS Naturals, Sequences, FiniteSets

CONSTANTS
  Requests, \* the requests, each served once
  Sites,    \* domains, as numbers in the order of the strings
  Kinds,    \* the operations in use
  HangUps   \* the kinds whose caller may hang up before the answer

ASSUME SitesAssumption == Sites \subseteq Nat \ {0}

VARIABLES
  todo, held, \* as in SiteLock
  op,         \* op[r]: the operation of a request, its site, and a sync's source
  at,         \* at[r]: the step it comes to next
  saved,      \* saved[r]: its snapshot of the site, or what rsync read
  files,      \* files[s]: what the files of site s show
  promised,   \* promised[s]: what they must show, by the answers given so far
  outside     \* the sites some request has written without a guard of theirs

vars == <<todo, held, op, at, saved, files, promised, outside>>

Locks == INSTANCE SiteLock
           WITH Domains <- Sites, Deploys <- {}, Volumes <- {}, Fresh <- {}

Locked == {"update", "harden", "restore", "sync", "delete"}
AllKinds == Locked \cup {"plugin"}
Jobs == {j \in [kind : Kinds, site : Sites, from : Sites] :
           (j.kind = "sync") <=> (j.from # j.site)}
NoJob == [kind |-> "none", site |-> 0, from |-> 0]
Steps == {"new", "start", "work", "check", "orphan", "over"}

Init ==
  /\ todo = [r \in Requests |-> <<>>] /\ held = [r \in Requests |-> <<>>]
  /\ op = [r \in Requests |-> NoJob] /\ at = [r \in Requests |-> "new"]
  /\ saved = [r \in Requests |-> {}]
  /\ files = [s \in Sites |-> {"base"}]
  /\ promised = [s \in Sites |-> {"base"}]
  /\ outside = {}

-----------------------------------------------------------------------------
\* What an operation locks before it starts.  A restore keyed without its site and a
\* sync that locks in the order of its arguments are what Keys is not.
KeysOneSite(j) == IF j.kind = "plugin" THEN <<>> ELSE <<j.site>>
KeysAsNamed(j) == IF j.kind = "sync" THEN <<j.from, j.site>> ELSE KeysOneSite(j)
KeysUnnamed(j) == IF j.kind = "restore" THEN <<0>> ELSE KeysOneSite(j)
Keys(j) == IF j.kind = "sync" THEN Locks!LockSites(j.from, j.site) ELSE KeysOneSite(j)

Request(r) ==
  /\ at[r] = "new"
  /\ \E j \in Jobs :
       /\ op' = [op EXCEPT ![r] = j]
       /\ todo' = [todo EXCEPT ![r] = Keys(j)]
  /\ at' = [at EXCEPT ![r] = "start"]
  /\ UNCHANGED <<held, saved, files, promised, outside>>

Lock(r) == Locks!Lock(r) /\ UNCHANGED <<op, at, saved, files, promised, outside>>
Drop(r) == at[r] = "over" /\ Locks!Drop(r) /\ UNCHANGED <<op, at, saved, files, promised, outside>>

\* r comes to a step of its own operation, with all its locks.
Comes(r, kind, step) == op[r].kind = kind /\ at[r] = step /\ todo[r] = <<>>
Goes(r, step) == at' = [at EXCEPT ![r] = step] /\ UNCHANGED <<todo, held, op>>

Write(r, s, new) ==
  /\ files' = [files EXCEPT ![s] = new]
  /\ outside' = IF Locks!Holds(r, s) THEN outside ELSE outside \cup {s}
Promise(s, new) == promised' = [promised EXCEPT ![s] = new]

\* A request that refuses or fails before it has written.
Refuse(r) ==
  /\ at[r] = "start" /\ todo[r] = <<>>
  /\ Goes(r, "over") /\ UNCHANGED <<saved, files, promised, outside>>

-----------------------------------------------------------------------------
\* update_with_rollback: the health check before and the snapshot (too early when it
\* does not wait for the lock), the updates, and the health check after, with the
\* rollback when it fails.
UpdateSnapshotEarly(r) ==
  /\ op[r].kind = "update" /\ at[r] = "start" /\ files[op[r].site] # {}
  /\ saved' = [saved EXCEPT ![r] = files[op[r].site]]
  /\ Goes(r, "work") /\ UNCHANGED <<files, promised, outside>>

UpdateSnapshot(r) ==
  LET s == op[r].site IN
  /\ Comes(r, "update", "start") /\ files[s] # {}
  /\ saved' = [saved EXCEPT ![r] = files[s]]
  /\ Goes(r, "work") /\ UNCHANGED <<files, promised, outside>>

UpdateApply(r) ==
  LET s == op[r].site IN
  /\ Comes(r, "update", "work")
  /\ Write(r, s, files[s] \cup {r})
  /\ Goes(r, "check") /\ UNCHANGED <<saved, promised>>

UpdateHealthy(r) ==
  LET s == op[r].site IN
  /\ Comes(r, "update", "check")
  /\ Promise(s, promised[s] \cup {r})
  /\ Goes(r, "over") /\ UNCHANGED <<saved, files, outside>>

\* tar puts every file of the snapshot back; it may stop on the way.
UpdateRollback(r) ==
  LET s == op[r].site IN
  /\ Comes(r, "update", "check")
  /\ \E left \in SUBSET (files[s] \ saved[r]) : Write(r, s, saved[r] \cup left)
  /\ Goes(r, "over") /\ UNCHANGED <<saved, promised>>

\* apply_hardening, and the plugin, theme and core actions: written, then answered.
Apply(r, kind) ==
  LET s == op[r].site IN
  /\ Comes(r, kind, "start") /\ files[s] # {}
  /\ Write(r, s, files[s] \cup {r})
  /\ Goes(r, "work") /\ UNCHANGED <<saved, promised>>

Answer(r, kind) ==
  LET s == op[r].site IN
  /\ Comes(r, kind, "work")
  /\ Promise(s, promised[s] \cup {r})
  /\ Goes(r, "over") /\ UNCHANGED <<saved, files, outside>>

Harden(r) == Apply(r, "harden") \/ Answer(r, "harden")
PluginAction(r) == Apply(r, "plugin") \/ Answer(r, "plugin")

\* A restore undoes on purpose what came after the backup; tar may stop on the way.
Restore(r) ==
  LET s == op[r].site IN
  /\ Comes(r, "restore", "start")
  /\ \E left \in SUBSET files[s] : Write(r, s, {"base"} \cup left)
  /\ Promise(s, {"base"})
  /\ Goes(r, "over") /\ UNCHANGED saved

\* sync_files: rsync reads the source and makes the target a copy of it.
SyncRead(r) ==
  /\ Comes(r, "sync", "start") /\ files[op[r].from] # {} /\ files[op[r].site] # {}
  /\ saved' = [saved EXCEPT ![r] = files[op[r].from]]
  /\ Goes(r, "work") /\ UNCHANGED <<files, promised, outside>>

SyncWrite(r) ==
  /\ Comes(r, "sync", "work")
  /\ Write(r, op[r].site, saved[r]) /\ Promise(op[r].site, saved[r])
  /\ Goes(r, "over") /\ UNCHANGED saved

\* delete_site_files.
Delete(r) ==
  LET s == op[r].site IN
  /\ Comes(r, "delete", "start")
  /\ Write(r, s, {}) /\ Promise(s, {})
  /\ Goes(r, "over") /\ UNCHANGED saved
-----------------------------------------------------------------------------
\* What runs on when its request is dropped: rsync is spawned without
\* kill_on_drop, and a tree is removed in the pool of blocking threads.  tar and
\* wp-cli are killed.
RunsOn(r) ==
  /\ todo[r] = <<>>
  /\ (op[r].kind = "sync" /\ at[r] = "work") \/ (op[r].kind = "delete" /\ at[r] = "start")

\* The panel hangs up, at the end of its own timeout: the request is dropped where
\* it stands, with its guards.
HangUp(r) ==
  /\ op[r].kind \in HangUps /\ at[r] \in {"start", "work", "check"}
  /\ at' = [at EXCEPT ![r] = IF RunsOn(r) THEN "orphan" ELSE "over"]
  /\ todo' = [todo EXCEPT ![r] = <<>>] /\ held' = [held EXCEPT ![r] = <<>>]
  /\ UNCHANGED <<op, saved, files, promised, outside>>

OrphanWrite(r) ==
  /\ at[r] = "orphan"
  /\ Write(r, op[r].site, IF op[r].kind = "sync" THEN saved[r] ELSE {})
  /\ Goes(r, "over") /\ UNCHANGED <<saved, promised>>

Next == \E r \in Requests :
  \/ Request(r) \/ Lock(r) \/ Drop(r) \/ Refuse(r)
  \/ UpdateSnapshot(r) \/ UpdateApply(r) \/ UpdateHealthy(r) \/ UpdateRollback(r)
  \/ Harden(r) \/ PluginAction(r) \/ Restore(r)
  \/ SyncRead(r) \/ SyncWrite(r) \/ Delete(r)
  \/ HangUp(r) \/ OrphanWrite(r)

Spec == Init /\ [][Next]_vars
-----------------------------------------------------------------------------
\* Properties.

Marks == {"base"} \cup Requests

TypeOK ==
  /\ todo \in [Requests -> Seq(Sites)] /\ held \in [Requests -> Seq(Sites)]
  /\ op \in [Requests -> Jobs \cup {NoJob}] /\ at \in [Requests -> Steps]
  /\ saved \in [Requests -> SUBSET Marks]
  /\ files \in [Sites -> SUBSET Marks] /\ promised \in [Sites -> SUBSET Marks]
  /\ outside \subseteq Sites

\* The operations use the locks as SiteLock says, whatever else they do.
LocksUsed == Locks!Spec

\* A change that was answered with success stays in the files of its site until
\* something replaces these on purpose, as long as nobody writes the site without
\* its lock: no rollback and no write of another request takes it away without a
\* word.  site_lock.rs was written for this.
LockedWritesStay == \A s \in Sites \ outside : promised[s] \subseteq files[s]
=============================================================================
