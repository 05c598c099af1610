-------------------------- MODULE SiteFilesProofs --------------------------
(***************************************************************************)
(* What was answered on a site nobody wrote without its lock stays there,  *)
(* on any number of sites and requests; and whatever the operations do to  *)
(* the files, they use the locks as SiteLock says.  The invariant says     *)
(* what an operation under way relies on: the snapshot of an update still  *)
(* has all that was promised, because the update holds the site.           *)
(***************************************************************************)
EXTENDS SiteFiles, TLAPS

\* A site is locked by one request.
Exclusive ==
  \A r, q \in Requests, s \in Sites :
    Locks!Holds(r, s) /\ Locks!Holds(q, s) => r = q

\* A request has a job from its start on; one that is yet to come, and one whose
\* caller has hung up on work that runs on, has no locks.
Asked ==
  \A r \in Requests :
    /\ at[r] # "new" => op[r] \in Jobs
    /\ at[r] \in {"new", "orphan"} => todo[r] = <<>> /\ held[r] = <<>>

\* An update that has not started waits for its site, or has it.
Keyed ==
  \A r \in Requests :
    op[r].kind = "update" /\ at[r] = "start" =>
      \/ \E i \in DOMAIN todo[r] : todo[r][i] = op[r].site
      \/ Locks!Holds(r, op[r].site)

\* What the work of r relies on, on a site that nobody wrote without its lock.
Relies(r) ==
  LET s == op[r].site IN
  op[r].kind \in {"update", "harden", "plugin"} /\ at[r] \in {"work", "check"}
      /\ s \notin outside =>
    /\ Locks!Holds(r, s)
    /\ op[r].kind = "update" => promised[s] \subseteq saved[r]
    /\ op[r].kind # "update" \/ at[r] = "check" => r \in files[s]

IInv ==
  /\ TypeOK /\ Exclusive /\ Asked /\ Keyed
  /\ \A r \in Requests : Relies(r)
  /\ LockedWritesStay

-----------------------------------------------------------------------------
LEMMA Initially == Init => IInv
  BY DEF Init, IInv, TypeOK, Exclusive, Asked, Keyed, Relies, LockedWritesStay,
         NoJob, Steps, Marks, Locks!Holds

LEMMA KeysOfJob ==
  ASSUME NEW j \in Jobs
  PROVE  /\ Keys(j) \in Seq(Sites)
         /\ j.kind = "update" => Keys(j) = <<j.site>>
  BY DEF Jobs, Keys, KeysOneSite, Locks!LockSites

LEMMA Asking ==
  ASSUME IInv, NEW r \in Requests, Request(r)
  PROVE  IInv'
<1> USE DEF IInv
<1>1. PICK j \in Jobs : op' = [op EXCEPT ![r] = j] /\ todo' = [todo EXCEPT ![r] = Keys(j)]
  BY DEF Request
<1>2. Keys(j) \in Seq(Sites) /\ (j.kind = "update" => Keys(j) = <<j.site>>)
  BY KeysOfJob
<1>3. /\ at' = [at EXCEPT ![r] = "start"] /\ held' = held /\ saved' = saved
      /\ files' = files /\ promised' = promised /\ outside' = outside
  BY DEF Request
<1>4. TypeOK'
  BY <1>1, <1>2, <1>3 DEF TypeOK, Steps
<1>5. Exclusive'
  BY <1>3 DEF Exclusive, Locks!Holds
<1>6. Asked'
  BY <1>1, <1>3 DEF Asked, TypeOK
<1>7. Keyed'
  <2> SUFFICES ASSUME NEW q \in Requests, op'[q].kind = "update", at'[q] = "start"
               PROVE  \/ \E i \in DOMAIN todo'[q] : todo'[q][i] = op'[q].site
                      \/ Locks!Holds(q, op[q].site)'
    BY DEF Keyed
  <2>1. CASE q = r
    <3>1. todo'[r] = <<j.site>> /\ op'[r] = j
      BY <1>1, <1>2, <2>1 DEF TypeOK
    <3> QED
      BY <2>1, <3>1
  <2>2. CASE q # r
    BY <1>1, <1>3, <2>2 DEF Keyed, TypeOK, Locks!Holds
  <2> QED
    BY <2>1, <2>2
<1>8. \A q \in Requests : Relies(q)'
  BY <1>1, <1>3 DEF Relies, TypeOK, Locks!Holds
<1>9. LockedWritesStay'
  BY <1>3 DEF LockedWritesStay
<1> QED
  BY <1>4, <1>5, <1>6, <1>7, <1>8, <1>9

\* A request that gets a lock.
LEMMA Locking ==
  ASSUME IInv, NEW r \in Requests, Lock(r)
  PROVE  IInv'
<1> USE DEF IInv
<1> DEFINE k == Head(todo[r])
<1>1. /\ todo[r] # <<>> /\ Locks!Free(k)
      /\ held' = [held EXCEPT ![r] = Append(@, k)] /\ todo' = [todo EXCEPT ![r] = Tail(@)]
      /\ op' = op /\ at' = at /\ saved' = saved
      /\ files' = files /\ promised' = promised /\ outside' = outside
  BY DEF Lock, Locks!Lock
<1>2. TypeOK'
  BY <1>1 DEF TypeOK
<1>3. /\ \A q \in Requests : q # r => held'[q] = held[q] /\ todo'[q] = todo[q]
      /\ held'[r] = Append(held[r], k) /\ todo'[r] = Tail(todo[r])
      /\ held[r] \in Seq(Sites) /\ todo[r] \in Seq(Sites) /\ k \in Sites
  BY <1>1 DEF TypeOK
<1>4. ASSUME NEW q \in Requests, NEW s \in Sites
      PROVE  Locks!Holds(q, s)' <=> (Locks!Holds(q, s) \/ (q = r /\ s = k))
  <2>1. CASE q # r
    BY <1>3, <2>1 DEF Locks!Holds
  <2>2. CASE q = r
    <3>1. DOMAIN held'[r] = (DOMAIN held[r]) \cup {Len(held[r]) + 1}
      BY <1>3
    <3>2. /\ \A i \in DOMAIN held[r] : held'[r][i] = held[r][i]
          /\ held'[r][Len(held[r]) + 1] = k
      BY <1>3
    <3> QED
      BY <2>2, <3>1, <3>2 DEF Locks!Holds
  <2> QED
    BY <2>1, <2>2
<1>5. Exclusive'
  BY <1>1, <1>4 DEF Exclusive, Locks!Free
<1>6. Asked'
  BY <1>1, <1>3 DEF Asked
<1>7. Keyed'
  <2> SUFFICES ASSUME NEW q \in Requests, op[q].kind = "update", at[q] = "start"
               PROVE  \/ \E i \in DOMAIN todo'[q] : todo'[q][i] = op[q].site
                      \/ Locks!Holds(q, op[q].site)'
    BY <1>1 DEF Keyed
  <2>1. op[q].site \in Sites
    BY DEF Asked, Jobs
  <2>2. CASE q # r
    BY <1>1, <1>3, <2>2 DEF Keyed, Locks!Holds
  <2>3. CASE q = r /\ Locks!Holds(q, op[q].site)
    BY <1>1, <1>4, <2>1, <2>3 DEF Locks!Holds
  <2>4. CASE q = r /\ \E i \in DOMAIN todo[q] : todo[q][i] = op[q].site
    <3>1. PICK i \in DOMAIN todo[r] : todo[r][i] = op[r].site
      BY <2>4
    <3>2. CASE i = 1
      BY <1>1, <1>3, <1>4, <2>1, <2>4, <3>1, <3>2 DEF Locks!Holds
    <3>3. CASE i # 1
      <4>1. i - 1 \in DOMAIN todo'[r] /\ todo'[r][i - 1] = todo[r][i]
        <5>1. i \in 2 .. Len(todo[r])
          BY <1>3, <3>1, <3>3
        <5>2. Len(Tail(todo[r])) = Len(todo[r]) - 1 /\ Tail(todo[r]) \in Seq(Sites)
          BY <1>1, <1>3
        <5>3. Tail(todo[r])[i - 1] = todo[r][i]
          BY <1>1, <1>3, <5>1
        <5> QED
          BY <1>3, <5>1, <5>2, <5>3
      <4> QED
        BY <2>4, <3>1, <4>1
    <3> QED
      BY <3>2, <3>3
  <2> QED
    BY <2>2, <2>3, <2>4 DEF Keyed
<1>8. \A q \in Requests : Relies(q)'
  <2> SUFFICES ASSUME NEW q \in Requests, op[q].kind \in {"update", "harden", "plugin"},
                      at[q] \in {"work", "check"}, op[q].site \notin outside
               PROVE  Relies(q)'
    BY <1>1 DEF Relies
  <2>1. op[q].site \in Sites /\ Locks!Holds(q, op[q].site)
    BY DEF Asked, Jobs, Relies
  <2>2. Locks!Holds(q, op[q].site)'
    BY <1>1, <1>4, <2>1 DEF Locks!Holds
  <2> QED
    BY <1>1, <2>2 DEF Relies
<1>9. LockedWritesStay'
  BY <1>1 DEF LockedWritesStay
<1> QED
  BY <1>2, <1>5, <1>6, <1>7, <1>8, <1>9

\* A request that is over gives its newest guard back.
LEMMA Dropping ==
  ASSUME IInv, NEW r \in Requests, Drop(r)
  PROVE  IInv'
<1> USE DEF IInv
<1>1. /\ at[r] = "over" /\ held[r] # <<>> /\ todo' = todo
      /\ held' = [held EXCEPT ![r] = SubSeq(@, 1, Len(@) - 1)]
      /\ op' = op /\ at' = at /\ saved' = saved
      /\ files' = files /\ promised' = promised /\ outside' = outside
  BY DEF Drop, Locks!Drop
<1>2. TypeOK'
  BY <1>1 DEF TypeOK
<1>3. ASSUME NEW q \in Requests, NEW s
      PROVE  /\ Locks!Holds(q, s)' => Locks!Holds(q, s)
             /\ q # r => (Locks!Holds(q, s)' <=> Locks!Holds(q, s))
  BY <1>1 DEF TypeOK, Locks!Holds
<1>4. Exclusive'
  BY <1>3 DEF Exclusive
<1>5. Asked'
  BY <1>1 DEF Asked, TypeOK
<1>6. Keyed'
  BY <1>1, <1>3 DEF Keyed
<1>7. \A q \in Requests : Relies(q)'
  BY <1>1, <1>3 DEF Relies
<1>8. LockedWritesStay'
  BY <1>1 DEF LockedWritesStay
<1> QED
  BY <1>2, <1>4, <1>5, <1>6, <1>7, <1>8

\* A request dropped where it stands, with its guards.
LEMMA HangingUp ==
  ASSUME IInv, NEW r \in Requests, HangUp(r)
  PROVE  IInv'
<1> USE DEF IInv
<1>1. /\ at[r] \in {"start", "work", "check"}
      /\ todo' = [todo EXCEPT ![r] = <<>>] /\ held' = [held EXCEPT ![r] = <<>>]
      /\ op' = op /\ saved' = saved
      /\ files' = files /\ promised' = promised /\ outside' = outside
  BY DEF HangUp
<1>2. PICK step \in {"orphan", "over"} : at' = [at EXCEPT ![r] = step]
  BY DEF HangUp
<1>3. TypeOK'
  BY <1>1, <1>2 DEF TypeOK, Steps
<1>4. ASSUME NEW q \in Requests, NEW s
      PROVE  Locks!Holds(q, s)' <=> (q # r /\ Locks!Holds(q, s))
  BY <1>1 DEF TypeOK, Locks!Holds
<1>5. Exclusive'
  BY <1>4 DEF Exclusive
<1>6. Asked'
  BY <1>1, <1>2 DEF Asked, TypeOK
<1>7. Keyed'
  BY <1>1, <1>2, <1>4 DEF Keyed, TypeOK
<1>8. \A q \in Requests : Relies(q)'
  BY <1>1, <1>2, <1>4 DEF Relies, TypeOK
<1>9. LockedWritesStay'
  BY <1>1 DEF LockedWritesStay
<1> QED
  BY <1>3, <1>5, <1>6, <1>7, <1>8, <1>9

-----------------------------------------------------------------------------
\* A step of the operation of r: it goes to another step, on the site of its job,
\* and keeps its locks.
Works(r) ==
  /\ todo' = todo /\ held' = held /\ op' = op
  /\ \E step \in {"work", "check", "over"} : at' = [at EXCEPT ![r] = step]
  /\ at[r] # "new"
  /\ \A q \in Requests : q # r => saved'[q] = saved[q]
  /\ \A s \in Sites : s # op[r].site => files'[s] = files[s] /\ promised'[s] = promised[s]
  /\ outside \subseteq outside'

\* Where r changes files or a promise, it has the lock, or everybody knows that it
\* has not.
LEMMA Working ==
  ASSUME IInv, TypeOK', NEW r \in Requests, Works(r), Relies(r)',
         \/ op[r].site \in outside'
         \/ Locks!Holds(r, op[r].site)
         \/ /\ files'[op[r].site] = files[op[r].site]
            /\ promised'[op[r].site] = promised[op[r].site],
         op[r].site \in outside' \/ promised'[op[r].site] \subseteq files'[op[r].site]
  PROVE  IInv'
<1> USE DEF IInv
<1>0. op[r] \in Jobs /\ op[r].site \in Sites
  BY DEF Works, Asked, Jobs
<1>1. /\ todo' = todo /\ held' = held /\ op' = op /\ outside \subseteq outside'
      /\ \A q \in Requests : q # r => at'[q] = at[q] /\ saved'[q] = saved[q]
      /\ at'[r] \in {"work", "check", "over"}
  BY DEF Works, TypeOK
<1>2. Exclusive'
  BY <1>1 DEF Exclusive, Locks!Holds
<1>3. Asked'
  BY <1>0, <1>1 DEF Asked
<1>4. Keyed'
  BY <1>1 DEF Keyed, Locks!Holds
<1>5. ASSUME NEW q \in Requests, q # r
      PROVE  Relies(q)'
  <2> SUFFICES ASSUME op[q].kind \in {"update", "harden", "plugin"},
                      at[q] \in {"work", "check"}, op[q].site \notin outside'
               PROVE  Relies(q)'
    BY <1>1, <1>5 DEF Relies
  <2>1. op[q].site \in Sites /\ Locks!Holds(q, op[q].site) /\ Relies(q)
    BY <1>1 DEF Asked, Jobs, Relies
  <2>2. /\ files'[op[q].site] = files[op[q].site]
        /\ promised'[op[q].site] = promised[op[q].site]
    <3>1. CASE op[q].site # op[r].site
      BY <2>1, <3>1 DEF Works
    <3>2. CASE op[q].site = op[r].site
      <4>1. ~Locks!Holds(r, op[r].site)
        BY <1>0, <1>5, <2>1, <3>2 DEF Exclusive
      <4> QED
        BY <3>2, <4>1
    <3> QED
      BY <3>1, <3>2
  <2>3. Locks!Holds(q, op[q].site)'
    BY <1>1, <2>1 DEF Locks!Holds
  <2> QED
    BY <1>1, <1>5, <2>1, <2>2, <2>3 DEF Relies
<1>6. LockedWritesStay'
  <2> SUFFICES ASSUME NEW s \in Sites, s \notin outside'
               PROVE  promised'[s] \subseteq files'[s]
    BY DEF LockedWritesStay
  <2>1. CASE s = op[r].site
    BY <2>1
  <2>2. CASE s # op[r].site
    BY <1>1, <2>2 DEF Works, LockedWritesStay
  <2> QED
    BY <2>1, <2>2
<1> QED
  BY <1>2, <1>3, <1>4, <1>5, <1>6

\* The job of a request at one of its steps.
LEMMA JobAt ==
  ASSUME IInv, NEW r \in Requests, at[r] # "new"
  PROVE  op[r] \in Jobs /\ op[r].site \in Sites /\ op[r].from \in Sites
  BY DEF IInv, Asked, Jobs

\* A write without the lock is on record.
LEMMA Writing ==
  ASSUME NEW r, NEW s, NEW new, Write(r, s, new)
  PROVE  outside \subseteq outside' /\ (s \in outside' \/ Locks!Holds(r, s))
  BY DEF Write

LEMMA OperationKeeps ==
  ASSUME IInv, NEW r \in Requests,
         \/ Refuse(r)
         \/ UpdateSnapshot(r) \/ UpdateApply(r) \/ UpdateHealthy(r) \/ UpdateRollback(r)
         \/ Harden(r) \/ PluginAction(r) \/ Restore(r)
         \/ SyncRead(r) \/ SyncWrite(r) \/ Delete(r) \/ OrphanWrite(r)
  PROVE  IInv'
<1> USE DEF IInv
<1> DEFINE s == op[r].site
<1>1. CASE Refuse(r)
  <2>1. /\ at[r] = "start" /\ at' = [at EXCEPT ![r] = "over"]
        /\ todo' = todo /\ held' = held /\ op' = op /\ saved' = saved
        /\ files' = files /\ promised' = promised /\ outside' = outside
    BY <1>1 DEF Refuse, Goes
  <2>2. TypeOK'
    BY <2>1 DEF TypeOK, Steps
  <2>3. Works(r) /\ Relies(r)'
    BY <2>1 DEF Works, Relies, TypeOK
  <2> QED
    BY <2>1, <2>2, <2>3, JobAt, Working DEF LockedWritesStay
<1>2. CASE UpdateSnapshot(r)
  <2>1. /\ op[r].kind = "update" /\ at[r] = "start" /\ todo[r] = <<>>
        /\ at' = [at EXCEPT ![r] = "work"]
        /\ saved' = [saved EXCEPT ![r] = files[s]]
        /\ todo' = todo /\ held' = held /\ op' = op
        /\ files' = files /\ promised' = promised /\ outside' = outside
    BY <1>2 DEF UpdateSnapshot, Comes, Goes
  <2>2. s \in Sites
    BY <2>1, JobAt
  <2>3. TypeOK'
    BY <2>1, <2>2 DEF TypeOK, Steps
  <2>4. Locks!Holds(r, s)
    BY <2>1 DEF Keyed
  <2>5. Works(r) /\ Relies(r)'
    BY <2>1, <2>2, <2>4 DEF Works, Relies, TypeOK, LockedWritesStay, Locks!Holds
  <2> QED
    BY <2>1, <2>2, <2>3, <2>5, Working DEF LockedWritesStay
<1>3. CASE UpdateApply(r)
  <2>1. /\ op[r].kind = "update" /\ at[r] = "work" /\ Write(r, s, files[s] \cup {r})
        /\ files' = [files EXCEPT ![s] = files[s] \cup {r}]
        /\ at' = [at EXCEPT ![r] = "check"]
        /\ todo' = todo /\ held' = held /\ op' = op /\ saved' = saved /\ promised' = promised
    BY <1>3 DEF UpdateApply, Comes, Goes, Write
  <2>2. s \in Sites /\ outside \subseteq outside' /\ (s \in outside' \/ Locks!Holds(r, s))
    BY <2>1, JobAt, Writing
  <2>3. TypeOK'
    BY <2>1, <2>2 DEF TypeOK, Steps, Marks, Write
  <2>4. Works(r) /\ Relies(r)'
    BY <2>1, <2>2 DEF Works, Relies, TypeOK, Locks!Holds
  <2>5. s \in outside' \/ promised'[s] \subseteq files'[s]
    BY <2>1, <2>2 DEF LockedWritesStay, TypeOK
  <2> QED
    BY <2>2, <2>3, <2>4, <2>5, Working
<1>4. ASSUME op[r].kind \in {"update", "harden", "plugin"},
             at[r] \in {"work", "check"}, op[r].kind # "update" \/ at[r] = "check",
             Promise(s, promised[s] \cup {r}), Goes(r, "over"),
             UNCHANGED <<saved, files, outside>>
      PROVE  IInv'
  <2>1. /\ promised' = [promised EXCEPT ![s] = promised[s] \cup {r}]
        /\ at' = [at EXCEPT ![r] = "over"]
        /\ todo' = todo /\ held' = held /\ op' = op
        /\ saved' = saved /\ files' = files /\ outside' = outside
    BY <1>4 DEF Promise, Goes
  <2>2. s \in Sites
    BY <1>4, JobAt
  <2>3. TypeOK'
    BY <2>1, <2>2 DEF TypeOK, Steps, Marks
  <2>4. Works(r) /\ Relies(r)'
    BY <1>4, <2>1 DEF Works, Relies, TypeOK
  <2>5. s \in outside \/ (Locks!Holds(r, s) /\ r \in files[s])
    BY <1>4 DEF Relies
  <2>6. s \in outside' \/ promised'[s] \subseteq files'[s]
    BY <2>1, <2>2, <2>5 DEF LockedWritesStay, TypeOK
  <2> QED
    BY <2>1, <2>2, <2>3, <2>4, <2>5, <2>6, Working
<1>5. CASE UpdateHealthy(r)
  BY <1>4, <1>5 DEF UpdateHealthy, Comes
<1>6. CASE UpdateRollback(r)
  <2>1. PICK left \in SUBSET (files[s] \ saved[r]) : Write(r, s, saved[r] \cup left)
    BY <1>6 DEF UpdateRollback
  <2>2. /\ op[r].kind = "update" /\ at[r] = "check"
        /\ files' = [files EXCEPT ![s] = saved[r] \cup left]
        /\ at' = [at EXCEPT ![r] = "over"]
        /\ todo' = todo /\ held' = held /\ op' = op /\ saved' = saved /\ promised' = promised
    BY <1>6, <2>1 DEF UpdateRollback, Comes, Goes, Write
  <2>3. s \in Sites /\ outside \subseteq outside' /\ (s \in outside' \/ Locks!Holds(r, s))
    BY <2>1, <2>2, JobAt, Writing
  <2>4. TypeOK'
    BY <2>1, <2>2, <2>3 DEF TypeOK, Steps, Marks, Write
  <2>5. Works(r) /\ Relies(r)'
    BY <2>2, <2>3 DEF Works, Relies, TypeOK
  <2>6. s \in outside' \/ promised'[s] \subseteq files'[s]
    BY <2>2, <2>3 DEF Relies, TypeOK
  <2> QED
    BY <2>3, <2>4, <2>5, <2>6, Working
<1>7. ASSUME NEW kind \in {"harden", "plugin"}, Apply(r, kind)
      PROVE  IInv'
  <2>1. /\ op[r].kind = kind /\ at[r] = "start" /\ Write(r, s, files[s] \cup {r})
        /\ files' = [files EXCEPT ![s] = files[s] \cup {r}]
        /\ at' = [at EXCEPT ![r] = "work"]
        /\ todo' = todo /\ held' = held /\ op' = op /\ saved' = saved /\ promised' = promised
    BY <1>7 DEF Apply, Comes, Goes, Write
  <2>2. s \in Sites /\ outside \subseteq outside' /\ (s \in outside' \/ Locks!Holds(r, s))
    BY <2>1, JobAt, Writing
  <2>3. TypeOK'
    BY <2>1, <2>2 DEF TypeOK, Steps, Marks, Write
  <2>4. Works(r) /\ Relies(r)'
    BY <2>1, <2>2 DEF Works, Relies, TypeOK, Locks!Holds
  <2>5. s \in outside' \/ promised'[s] \subseteq files'[s]
    BY <2>1, <2>2 DEF LockedWritesStay, TypeOK
  <2> QED
    BY <2>2, <2>3, <2>4, <2>5, Working
<1>8. ASSUME NEW kind \in {"harden", "plugin"}, Answer(r, kind)
      PROVE  IInv'
  BY <1>4, <1>8 DEF Answer, Comes
\* The operations that put something else in the place of the files, on purpose.
<1>9. ASSUME op[r].kind \in {"restore", "sync", "delete"}, at[r] # "new",
             NEW new \in SUBSET Marks, NEW kept \in SUBSET new,
             Write(r, s, new), Promise(s, kept), Goes(r, "over"), UNCHANGED saved
      PROVE  IInv'
  <2>1. /\ files' = [files EXCEPT ![s] = new] /\ promised' = [promised EXCEPT ![s] = kept]
        /\ at' = [at EXCEPT ![r] = "over"]
        /\ todo' = todo /\ held' = held /\ op' = op /\ saved' = saved
    BY <1>9 DEF Promise, Goes, Write
  <2>2. s \in Sites /\ outside \subseteq outside' /\ (s \in outside' \/ Locks!Holds(r, s))
    BY <1>9, JobAt, Writing
  <2>3. TypeOK'
    BY <1>9, <2>1, <2>2 DEF TypeOK, Steps, Write
  <2>4. Works(r) /\ Relies(r)'
    BY <1>9, <2>1, <2>2 DEF Works, Relies, TypeOK
  <2>5. promised'[s] \subseteq files'[s]
    BY <2>1, <2>2 DEF TypeOK
  <2> QED
    BY <2>2, <2>3, <2>4, <2>5, Working
<1>10. CASE Restore(r)
  <2>1. PICK left \in SUBSET files[s] : Write(r, s, {"base"} \cup left)
    BY <1>10 DEF Restore
  <2>2. op[r].kind = "restore" /\ at[r] = "start" /\ s \in Sites
    BY <1>10, JobAt DEF Restore, Comes
  <2>3. {"base"} \cup left \in SUBSET Marks
    BY <2>1, <2>2 DEF TypeOK, Marks
  <2> QED
    BY <1>9, <1>10, <2>1, <2>2, <2>3 DEF Restore
<1>11. CASE SyncWrite(r)
  <2>1. op[r].kind = "sync" /\ at[r] = "work" /\ saved[r] \in SUBSET Marks
    BY <1>11 DEF SyncWrite, Comes, TypeOK
  <2> QED
    BY <1>9, <1>11, <2>1 DEF SyncWrite
<1>12. CASE Delete(r)
  <2>1. op[r].kind = "delete" /\ at[r] = "start"
    BY <1>12 DEF Delete, Comes
  <2> QED
    BY <1>9, <1>12, <2>1 DEF Delete
<1>13. CASE SyncRead(r)
  <2>1. /\ op[r].kind = "sync" /\ at[r] = "start"
        /\ saved' = [saved EXCEPT ![r] = files[op[r].from]]
        /\ at' = [at EXCEPT ![r] = "work"]
        /\ todo' = todo /\ held' = held /\ op' = op
        /\ files' = files /\ promised' = promised /\ outside' = outside
    BY <1>13 DEF SyncRead, Comes, Goes
  <2>2. s \in Sites /\ op[r].from \in Sites
    BY <2>1, JobAt
  <2>3. TypeOK'
    BY <2>1, <2>2 DEF TypeOK, Steps
  <2>4. Works(r) /\ Relies(r)'
    BY <2>1 DEF Works, Relies, TypeOK
  <2> QED
    BY <2>1, <2>2, <2>3, <2>4, Working DEF LockedWritesStay
\* What runs on has no lock.
<1>14. CASE OrphanWrite(r)
  <2>1. PICK new \in SUBSET Marks : Write(r, s, new)
    BY <1>14 DEF OrphanWrite, TypeOK
  <2>2. /\ at[r] = "orphan" /\ at' = [at EXCEPT ![r] = "over"]
        /\ files' = [files EXCEPT ![s] = new]
        /\ todo' = todo /\ held' = held /\ op' = op /\ saved' = saved /\ promised' = promised
    BY <1>14, <2>1 DEF OrphanWrite, Goes, Write
  <2>3. held[r] = <<>> /\ ~Locks!Holds(r, s)
    BY <2>2 DEF Asked, Locks!Holds
  <2>4. s \in Sites /\ outside \subseteq outside' /\ s \in outside'
    BY <2>1, <2>2, <2>3, JobAt, Writing
  <2>5. TypeOK'
    BY <2>1, <2>2, <2>4 DEF TypeOK, Steps, Write
  <2>6. Works(r) /\ Relies(r)'
    BY <2>2, <2>4 DEF Works, Relies, TypeOK
  <2> QED
    BY <2>4, <2>5, <2>6, Working
<1> QED
  BY <1>1, <1>2, <1>3, <1>5, <1>6, <1>7, <1>8, <1>10, <1>11, <1>12, <1>13, <1>14
     DEF Harden, PluginAction

LEMMA StepKeeps == IInv /\ [Next]_vars => IInv'
<1> SUFFICES ASSUME IInv, [Next]_vars
             PROVE  IInv'
  OBVIOUS
<1>1. CASE UNCHANGED vars
  BY <1>1 DEF vars, IInv, TypeOK, Exclusive, Asked, Keyed, Relies, LockedWritesStay,
              Locks!Holds
<1>2. CASE Next
  BY <1>2, Asking, Locking, Dropping, HangingUp, OperationKeeps DEF Next
<1> QED
  BY <1>1, <1>2

-----------------------------------------------------------------------------
\* The invariant of the files and their locks.
THEOREM FilesInvariant == Spec => []IInv
  BY Initially, StepKeeps, PTL DEF Spec

\* The files, the snapshots, the promises and the locks are of the requests and the
\* sites there are.
THEOREM FilesTyped == Spec => []TypeOK
<1>1. IInv => TypeOK
  BY DEF IInv
<1> QED
  BY FilesInvariant, <1>1, PTL

\* site_lock.rs: no rollback and no write of another request takes an answered
\* change away from a site that is only written under its lock.
THEOREM LockedWritesKept == Spec => []LockedWritesStay
<1>1. IInv => LockedWritesStay
  BY DEF IInv
<1> QED
  BY FilesInvariant, <1>1, PTL

\* The requests on the files are requests to SiteLock: they lock what an operation
\* of it locks, in its order, and give back what they got.
THEOREM LocksRefined == Spec => LocksUsed
<1>1. Init => Locks!Init
  BY DEF Init, Locks!Init
<1>2. IInv /\ [Next]_vars => [Locks!Next]_(Locks!vars)
  <2> SUFFICES ASSUME IInv, Next
               PROVE  Locks!Next \/ UNCHANGED Locks!vars
    BY DEF vars, Locks!vars
  <2> USE DEF IInv
  <2>1. ASSUME NEW r \in Requests, Request(r)
        PROVE  Locks!Next \/ UNCHANGED Locks!vars
    <3>1. PICK j \in Jobs : todo' = [todo EXCEPT ![r] = Keys(j)]
      BY <2>1 DEF Request
    <3>2. todo[r] = <<>> /\ held[r] = <<>> /\ UNCHANGED held
      BY <2>1 DEF Request, Asked
    <3>3. CASE j.kind = "plugin"
      <4>1. Keys(j) = <<>>
        BY <3>3 DEF Keys, KeysOneSite
      <4> QED
        BY <3>1, <3>2, <4>1 DEF Locks!vars, TypeOK
    <3>4. CASE j.kind # "plugin"
      <4>1. Keys(j) \in Locks!Operations
        BY <3>4 DEF Keys, KeysOneSite, Jobs, Locks!Operations, Locks!TwoSites, Locks!OneSite
      <4>2. Locks!Request(r)
        BY <3>1, <3>2, <4>1 DEF Locks!Request
      <4> QED
        BY <4>2 DEF Locks!Next
    <3> QED
      BY <3>3, <3>4
  <2>2. ASSUME NEW r \in Requests, Lock(r) \/ Drop(r)
        PROVE  Locks!Next
    BY <2>2 DEF Lock, Drop, Locks!Next
  <2>3. ASSUME NEW r \in Requests, HangUp(r)
        PROVE  Locks!Next \/ UNCHANGED Locks!vars
    <3>1. /\ todo' = [todo EXCEPT ![r] = <<>>] /\ held' = [held EXCEPT ![r] = <<>>]
      BY <2>3 DEF HangUp
    <3>2. CASE todo[r] # <<>> \/ held[r] # <<>>
      <4>1. Locks!Cancel(r)
        BY <3>1, <3>2 DEF Locks!Cancel
      <4> QED
        BY <4>1 DEF Locks!Next
    <3>3. CASE todo[r] = <<>> /\ held[r] = <<>>
      BY <3>1, <3>3 DEF Locks!vars, TypeOK
    <3> QED
      BY <3>2, <3>3
  <2>4. ASSUME NEW r \in Requests,
               \/ Refuse(r)
               \/ UpdateSnapshot(r) \/ UpdateApply(r) \/ UpdateHealthy(r) \/ UpdateRollback(r)
               \/ Harden(r) \/ PluginAction(r) \/ Restore(r)
               \/ SyncRead(r) \/ SyncWrite(r) \/ Delete(r) \/ OrphanWrite(r)
        PROVE  UNCHANGED Locks!vars
    BY <2>4 DEF Refuse, UpdateSnapshot, UpdateApply, UpdateHealthy, UpdateRollback, Harden,
       PluginAction, Apply, Answer, Restore, SyncRead, SyncWrite, Delete, OrphanWrite,
       Goes, Locks!vars
  <2> QED
    BY <2>1, <2>2, <2>3, <2>4 DEF Next
<1> QED
  BY <1>1, <1>2, FilesInvariant, PTL DEF Spec, LocksUsed, Locks!Spec
=============================================================================
