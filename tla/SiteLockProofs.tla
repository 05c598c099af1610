-------------------------- MODULE SiteLockProofs --------------------------
(***************************************************************************)
(* The site locks cannot deadlock, on any number of requests and sites,    *)
(* but for a request that waits for itself: one that exposes an app on a   *)
(* domain with a certificate to obtain.  Every request asks for keys       *)
(* greater than those it holds, or for that domain again.  Of a group that *)
(* waits, the one that asks for the greatest key waits for none of the     *)
(* group, or for one that waits for itself and for nobody else.            *)
(***************************************************************************)
EXTENDS SiteLock, FiniteSetTheorems, WellFoundedInduction, TLAPS

\* A key above another one, or the domain that is asked for again.
Above(k, l) == k > l \/ (k = l /\ k \in Fresh)

\* What a request has yet to lock goes up, and lies above what it holds.
Ascending ==
  \A r \in Requests :
    /\ \A i, j \in DOMAIN todo[r] : i < j => Above(todo[r][j], todo[r][i])
    /\ \A i \in DOMAIN held[r], j \in DOMAIN todo[r] : Above(todo[r][j], held[r][i])

\* A lock has one holder.
Exclusive == \A r, s \in Requests, k \in Keys : Holds(r, k) /\ Holds(s, k) => r = s

IInv == TypeOK /\ Ascending /\ Exclusive

-----------------------------------------------------------------------------
\* A finite set of numbers that is not empty has a greatest element: the set of
\* the elements above it is the least of all such sets.
LEMMA Greatest ==
  ASSUME NEW K \in SUBSET Nat, IsFiniteSet(K), K # {}
  PROVE  \E m \in K : \A k \in K : k <= m
<1> DEFINE Larger(y) == {x \in K : x > y}
           T == {Larger(y) : y \in K}
<1>1. T \subseteq SUBSET K /\ T # {}
  OBVIOUS
<1>2. IsWellFoundedOn(StrictSubsetOrdering(K), SUBSET K)
  BY FS_StrictSubsetOrderingWellFounded, FS_FiniteSubsetsOfFinite
<1>3. PICK U \in T : \A V \in T : <<V, U>> \notin StrictSubsetOrdering(K)
  <2> HIDE DEF T
  <2> QED
    BY <1>1, <1>2, WFMin
<1>4. PICK m \in K : U = Larger(m)
  OBVIOUS
<1>5. ASSUME NEW k \in K, k > m
      PROVE  FALSE
  <2>1. Larger(k) \subseteq Larger(m) /\ Larger(k) # Larger(m)
    <3>1. \A x \in K : x > k => x > m
      BY <1>5
    <3>2. k \in Larger(m) /\ k \notin Larger(k)
      BY <1>5
    <3> QED
      BY <3>1, <3>2
  <2>2. <<Larger(k), Larger(m)>> \in StrictSubsetOrdering(K)
    BY <2>1 DEF StrictSubsetOrdering
  <2> QED
    BY <1>3, <1>4, <2>2
<1> QED
  BY <1>5

-----------------------------------------------------------------------------
\* The keys of an operation: one or two, going up.
LEMMA OperationKeys ==
  ASSUME NEW keys \in Operations
  PROVE  /\ keys \in Seq(Keys) /\ Len(keys) \in 1 .. 2
         /\ \A i, j \in DOMAIN keys : i < j => Above(keys[j], keys[i])
<1> USE KeysAssumption DEF Keys, Above
<1>1. CASE \E k \in Keys : keys = <<k>>
  BY <1>1
<1>2. CASE \E j, k \in Keys : Above(k, j) /\ keys = <<j, k>>
  BY <1>2
<1>3. CASE keys \in TwoSites
  BY <1>1, <1>2, <1>3 DEF TwoSites, LockSites
<1>4. CASE keys \in OneSite \cup RestoreVolume
  BY <1>1, <1>4 DEF OneSite, RestoreVolume
<1>5. CASE keys \in GitDeploy
  BY <1>1, <1>2, <1>5 DEF GitDeploy
<1>6. CASE keys \in Expose
  BY <1>1, <1>2, <1>6 DEF Expose
<1> QED
  BY <1>3, <1>4, <1>5, <1>6 DEF Operations

LEMMA Initially == Init => IInv
  BY DEF Init, IInv, TypeOK, Ascending, Exclusive, Holds

LEMMA StepKeeps ==
  ASSUME IInv, [Next]_vars
  PROVE  IInv'
<1> USE DEF IInv
<1>1. CASE UNCHANGED vars
  BY <1>1 DEF vars, TypeOK, Ascending, Exclusive, Holds
<1>2. ASSUME NEW r \in Requests, Request(r)
      PROVE  IInv'
  <2>1. PICK keys \in Operations : todo' = [todo EXCEPT ![r] = keys]
    BY <1>2 DEF Request
  <2>2. keys \in Seq(Keys) /\ Len(keys) \in 1 .. 2
    BY OperationKeys
  <2>3. \A i, j \in DOMAIN keys : i < j => Above(keys[j], keys[i])
    BY OperationKeys
  <2>4. TypeOK'
    <3>1. held' = held /\ held[r] = <<>>
      BY <1>2 DEF Request
    <3>2. todo' \in [Requests -> Seq(Keys)]
      BY <2>1, <2>2 DEF TypeOK
    <3>3. ASSUME NEW q \in Requests
          PROVE  Len(todo'[q]) + Len(held'[q]) <= 2
      <4>1. CASE q = r
        <5>1. todo'[q] = keys /\ held'[q] = <<>>
          BY <2>1, <3>1, <4>1 DEF TypeOK
        <5>2. Len(keys) <= 2 /\ Len(keys) \in Nat
          <6>1. \A n \in 1 .. 2 : n <= 2 /\ n \in Nat
            OBVIOUS
          <6> QED
            BY <2>2, <6>1
        <5>3. Len(held'[q]) = 0
          BY <5>1
        <5> QED
          BY <5>1, <5>2, <5>3
      <4>2. CASE q # r
        BY <2>1, <3>1, <4>2 DEF TypeOK
      <4> QED
        BY <4>1, <4>2
    <3> QED
      BY <3>1, <3>2, <3>3 DEF TypeOK
  <2>5. Ascending'
    BY <1>2, <2>1, <2>3 DEF Request, TypeOK, Ascending
  <2>6. Exclusive'
    BY <1>2 DEF Request, Exclusive, Holds
  <2> QED
    BY <2>4, <2>5, <2>6
<1>3. ASSUME NEW r \in Requests, Lock(r)
      PROVE  IInv'
  <2>1. TypeOK'
    BY <1>3 DEF Lock, TypeOK
  <2> DEFINE k == Head(todo[r])
  <2>2. k \in Keys /\ Free(k)
    BY <1>3 DEF Lock, TypeOK
  <2>3. ASSUME NEW q \in Requests, q # r
        PROVE  held'[q] = held[q] /\ todo'[q] = todo[q]
    BY <1>3, <2>3 DEF Lock, TypeOK
  <2>4. /\ held'[r] = Append(held[r], k) /\ todo'[r] = Tail(todo[r])
        /\ todo[r] \in Seq(Keys) /\ todo[r] # <<>> /\ held[r] \in Seq(Keys)
    BY <1>3 DEF Lock, TypeOK
  <2>5. Ascending'
    <3>1. \A i \in DOMAIN todo'[r] : todo'[r][i] = todo[r][i + 1] /\ i + 1 \in DOMAIN todo[r]
      BY <2>4
    <3>2. 1 \in DOMAIN todo[r] /\ k = todo[r][1]
      BY <2>4
    <3>3. \A i \in DOMAIN held'[r] :
            \/ i \in DOMAIN held[r] /\ held'[r][i] = held[r][i]
            \/ held'[r][i] = k
      BY <2>4
    <3>4. \A i, j \in DOMAIN todo'[r] : i < j => Above(todo'[r][j], todo'[r][i])
      <4>1. DOMAIN todo'[r] \subseteq Nat
        BY <2>4
      <4>2. ASSUME NEW i \in DOMAIN todo'[r], NEW j \in DOMAIN todo'[r], i < j
            PROVE  Above(todo'[r][j], todo'[r][i])
        <5>1. i + 1 < j + 1
          BY <4>1, <4>2
        <5> QED
          BY <3>1, <5>1 DEF Ascending
      <4> QED
        BY <4>2
    <3>5. \A i \in DOMAIN held'[r], j \in DOMAIN todo'[r] : Above(todo'[r][j], held'[r][i])
      BY <2>4, <3>1, <3>2, <3>3 DEF Ascending
    <3>6. ASSUME NEW q \in Requests
          PROVE  /\ \A i, j \in DOMAIN todo'[q] : i < j => Above(todo'[q][j], todo'[q][i])
                 /\ \A i \in DOMAIN held'[q], j \in DOMAIN todo'[q] :
                      Above(todo'[q][j], held'[q][i])
      BY <2>3, <3>4, <3>5 DEF Ascending
    <3> QED
      BY <3>6 DEF Ascending, Above
  <2>6. \A q \in Requests, l \in Keys : Holds(q, l)' <=> Holds(q, l) \/ (q = r /\ l = k)
    <3>1. ASSUME NEW q \in Requests, NEW l \in Keys, q # r
          PROVE  Holds(q, l)' <=> Holds(q, l)
      BY <2>3, <3>1 DEF Holds
    <3>2. ASSUME NEW l \in Keys
          PROVE  Holds(r, l)' <=> Holds(r, l) \/ l = k
      <4>1. \A i \in DOMAIN held[r] : i \in DOMAIN held'[r] /\ held'[r][i] = held[r][i]
        BY <2>4
      <4>2. Len(held[r]) + 1 \in DOMAIN held'[r] /\ held'[r][Len(held[r]) + 1] = k
        BY <2>4
      <4>3. \A i \in DOMAIN held'[r] : i \in DOMAIN held[r] \/ i = Len(held[r]) + 1
        BY <2>4
      <4> QED
        BY <4>1, <4>2, <4>3 DEF Holds
    <3> QED
      BY <3>1, <3>2
  <2>7. Exclusive'
    BY <2>2, <2>6 DEF Exclusive, Free
  <2> QED
    BY <2>1, <2>5, <2>7
<1>4. ASSUME NEW r \in Requests, Drop(r)
      PROVE  IInv'
  <2>1. TypeOK'
    BY <1>4 DEF Drop, TypeOK
  <2>2. Ascending'
    BY <1>4 DEF Drop, TypeOK, Ascending
  <2>3. \A q \in Requests, l \in Keys : Holds(q, l)' => Holds(q, l)
    BY <1>4 DEF Drop, TypeOK, Holds
  <2>4. Exclusive'
    BY <2>3 DEF Exclusive
  <2> QED
    BY <2>1, <2>2, <2>4
<1>5. ASSUME NEW r \in Requests, Cancel(r)
      PROVE  IInv'
  <2>1. /\ todo'[r] = <<>> /\ held'[r] = <<>>
        /\ \A q \in Requests \ {r} : todo'[q] = todo[q] /\ held'[q] = held[q]
    BY <1>5 DEF Cancel, TypeOK
  <2>2. TypeOK'
    BY <1>5 DEF Cancel, TypeOK
  <2>3. Ascending'
    BY <2>1 DEF Ascending
  <2>4. \A q \in Requests, l \in Keys : Holds(q, l)' => Holds(q, l)
    BY <2>1 DEF Holds
  <2>5. Exclusive'
    BY <2>4 DEF Exclusive
  <2> QED
    BY <2>2, <2>3, <2>5
<1> QED
  BY <1>1, <1>2, <1>3, <1>4, <1>5 DEF Next

\* Of a group that waits, the one that asks for the greatest key, or the one that it
\* waits for.
LEMMA NoCircle ==
  ASSUME IInv
  PROVE  NoDeadlock
<1> SUFFICES ASSUME NEW S \in SUBSET Requests, S # {},
                    \A r \in S : \E s \in S : WaitsFor(r, s) /\ ~(s = r /\ WaitsForItself(r))
             PROVE  FALSE
  BY DEF NoDeadlock
<1> DEFINE Asks(r) == Head(todo[r])
           K == {Asks(r) : r \in S}
<1>1. ASSUME NEW r \in S
      PROVE  /\ todo[r] # <<>> /\ todo[r] \in Seq(Keys)
             /\ Asks(r) \in Nat /\ Asks(r) \in Keys
  <2>1. todo[r] # <<>>
    BY DEF WaitsFor
  <2>2. todo[r] \in Seq(Keys)
    BY DEF IInv, TypeOK
  <2>3. Head(todo[r]) \in Keys
    BY <2>1, <2>2
  <2> QED
    BY <2>1, <2>2, <2>3, KeysAssumption
<1>2. K \in SUBSET Nat /\ K # {}
  BY <1>1
<1>3. IsFiniteSet(K)
  <2>1. IsFiniteSet(S)
    BY RequestsAssumption, FS_Subset
  <2> DEFINE f == [r \in S |-> Asks(r)]
  <2>2. f \in Surjection(S, K)
    BY DEF Surjection
  <2> QED
    BY <2>1, <2>2, FS_Surjection
<1>4. PICK m \in K : \A k \in K : k <= m
  BY <1>2, <1>3, Greatest
\* Whoever holds a key that is asked for asks for a greater one, or for that one.
<1>5. ASSUME NEW r \in S, NEW s \in S, WaitsFor(r, s)
      PROVE  Above(Asks(s), Asks(r))
  <2>1. PICK i \in DOMAIN held[s] : held[s][i] = Asks(r)
    BY <1>5 DEF WaitsFor, Holds
  <2>2. 1 \in DOMAIN todo[s] /\ todo[s][1] = Asks(s)
    BY <1>1
  <2> QED
    BY <2>1, <2>2 DEF IInv, Ascending
<1>6. PICK r \in S : m = Asks(r)
  OBVIOUS
<1>7. PICK s \in S : WaitsFor(r, s)
  OBVIOUS
<1>8. Asks(s) = m /\ m \in Fresh
  <2>1. Asks(s) <= m /\ Asks(s) \in Nat /\ m \in Nat
    BY <1>1, <1>4, <1>6
  <2> QED
    BY <1>5, <1>6, <1>7, <2>1 DEF Above
<1>9. Holds(s, m)
  BY <1>6, <1>7 DEF WaitsFor
<1>10. PICK u \in S : WaitsFor(s, u) /\ ~(u = s /\ WaitsForItself(s))
  OBVIOUS
<1>11. u = s
  BY <1>1, <1>6, <1>8, <1>9, <1>10 DEF WaitsFor, IInv, Exclusive
<1> QED
  BY <1>8, <1>10, <1>11 DEF WaitsForItself

-----------------------------------------------------------------------------
\* The locks of every request go up, but for the domain that is asked for again, a
\* lock has one holder, and nobody needs more than two.
THEOREM LocksAscend == Spec => []IInv
<1>1. IInv /\ [Next]_vars => IInv'
  BY StepKeeps
<1> QED
  BY Initially, <1>1, PTL DEF Spec

\* No operation ever needs more than two locks, the one that asks again included.
THEOREM LocksTyped == Spec => []TypeOK
<1>1. IInv => TypeOK
  BY DEF IInv
<1> QED
  BY <1>1, LocksAscend, PTL

\* lock_sites: two requests that name the same pair of sites, or any other group of
\* requests, never wait for each other in a circle; and whoever waits for itself
\* exposes an app on a domain with a certificate to obtain.
THEOREM NeverDeadlocked == Spec => []NoDeadlock
<1>1. IInv => NoDeadlock
  BY NoCircle
<1> QED
  BY <1>1, LocksAscend, PTL
=============================================================================
