-------------------------- MODULE DeployGatesProofs --------------------------
(***************************************************************************)
(* The two gates a deployment may have to pass before it comes to the      *)
(* build lock.                                                             *)
(*                                                                         *)
(* Deploy protection, for any administrators, handlers and requests: one   *)
(* request waits at a time, an approval that stands is another             *)
(* administrator's and becomes a build unless its approver is cut off, and *)
(* the handlers implement the ledger.  The invariant says what a handler   *)
(* in flight has read, and that it is alone with a request, which is still *)
(* as it read it, unless the request is contested.                         *)
(*                                                                         *)
(* The one-time schedule, for every number of orders and restarts, and     *)
(* whatever is built beside it: one schedule is one deploy.  The order the *)
(* scheduler has picked is off the row when trigger_deploy_task is called, *)
(* and no order comes back to the row: one that has run is out of reach.   *)
(***************************************************************************)
EXTENDS DeployApproval, DeploySchedule, SequenceTheorems, TLAPS

-----------------------------------------------------------------------------
(* The approvals.                                                            *)

\* What a handler decides about is a request that was filed, and it approves as
\* another administrator than the owner; before a build starts the verdict is written.
Spawns(h) == handler[h].pc = "spawn"
Engaged(h) == Decides(h) \/ Spawns(h)

InFlight ==
  \A h \in Handler :
    /\ Engaged(h) => handler[h].request \in DOMAIN requests
    /\ handler[h].pc \in {"config", "approveLock", "mark", "spawn"} =>
         handler[h].by \in Admin \ {Owner}
    /\ Spawns(h) => ~Pending(handler[h].request)

\* Of a request that is not contested: one handler is at it, which finds it as it was
\* read until the verdict is written, and approved and not built after that; and no
\* request is built before it was decided.
Alone ==
  \A g, h \in Handler :
    Engaged(g) /\ Engaged(h) /\ handler[g].request = handler[h].request =>
      g = h \/ handler[h].request \in contested
Finds(h) ==
  handler[h].request \notin contested =>
    /\ Decides(h) => Pending(handler[h].request)
    /\ Spawns(h) => /\ requests[handler[h].request].status = "approved"
                    /\ built[handler[h].request] = 0
Unbuilt == \A k \in DOMAIN requests \ contested : Pending(k) => built[k] = 0

Uncontested == Alone /\ Unbuilt /\ \A h \in Handler : Finds(h)

IInv == TypeOK /\ InFlight /\ OneWaiting /\ Uncontested /\ ApprovalWasSpent

Requests == [status : RequestStatus, by : Admin \cup {Nobody}]

-----------------------------------------------------------------------------
LEMMA Initially == Init => IInv
<1> SUFFICES ASSUME Init
             PROVE  IInv
  OBVIOUS
<1>1. /\ requests = <<>> /\ built = <<>> /\ Len(requests) = 0 /\ contested = {} /\ burnt = {}
      /\ \A h \in Handler : handler[h] = Idle
      /\ handler = [h \in Handler |-> Idle]
  BY DEF Init
<1>2. Idle \in [pc : Step, by : Admin, request : 0 .. 0]
  BY ApprovalAssumption DEF Idle, Step
<1>3. TypeOK
  <2>1. requests \in Seq([status : RequestStatus, by : Admin \cup {Nobody}])
    BY <1>1
  <2>2. built \in Seq(Nat) /\ Len(built) = Len(requests)
    BY <1>1
  <2>3. handler \in [Handler -> [pc : Step, by : Admin, request : 0 .. Len(requests)]]
    BY <1>1, <1>2
  <2>4. protected \in BOOLEAN /\ locked \in BOOLEAN
    BY DEF Init
  <2>5. flips \in 0 .. MaxFlips
    BY ApprovalAssumption DEF Init
  <2> QED
    BY <1>1, <2>1, <2>2, <2>3, <2>4, <2>5 DEF TypeOK
<1>4. \A h \in Handler : ~Engaged(h)
  BY <1>1 DEF Engaged, Decides, Spawns, Idle
<1>5. InFlight
  BY <1>1, <1>4 DEF InFlight, Engaged, Spawns, Idle
<1>6. Uncontested
  BY <1>1, <1>4 DEF Uncontested, Alone, Finds, Unbuilt, Engaged
<1>7. OneWaiting /\ ApprovalWasSpent
  BY <1>1 DEF OneWaiting, ApprovalWasSpent
<1> QED
  BY <1>3, <1>5, <1>6, <1>7 DEF IInv

\* A handler that goes on, or that begins, is a handler still.
LEMMA Moving ==
  ASSUME TypeOK, NEW h \in Handler, NEW step \in Step, Goto(h, step)
  PROVE  /\ handler' \in [Handler -> [pc : Step, by : Admin, request : 0 .. Len(requests)]]
         /\ \A g \in Handler : g # h => handler'[g] = handler[g]
         /\ step = "idle" => handler'[h] = Idle
         /\ step # "idle" => handler'[h] = [handler[h] EXCEPT !.pc = step]
<1>1. Idle \in [pc : Step, by : Admin, request : 0 .. Len(requests)]
  <2>1. Len(requests) \in Nat
    BY DEF TypeOK
  <2> QED
    BY <2>1, ApprovalAssumption DEF Idle, Step
<1>2. [handler[h] EXCEPT !.pc = step] \in [pc : Step, by : Admin, request : 0 .. Len(requests)]
  BY DEF TypeOK
<1>3. CASE step = "idle"
  BY <1>1, <1>3 DEF TypeOK, Goto
<1>4. CASE step # "idle"
  BY <1>2, <1>4 DEF TypeOK, Goto
<1> QED
  BY <1>3, <1>4

LEMMA Beginning ==
  ASSUME TypeOK, NEW h \in Handler, NEW a \in Admin, NEW k \in 0 .. Len(requests),
         NEW step \in Step, Begin(h, a, k, step)
  PROVE  /\ handler' \in [Handler -> [pc : Step, by : Admin, request : 0 .. Len(requests)]]
         /\ \A g \in Handler : g # h => handler'[g] = handler[g]
         /\ handler'[h] = [pc |-> step, by |-> a, request |-> k]
         /\ ~Engaged(h)
  BY DEF TypeOK, Begin, Engaged, Decides, Spawns

\* What is said of a handler is said of one that did not move.
LEMMA OthersStay ==
  ASSUME NEW g \in Handler, handler'[g] = handler[g]
  PROVE  /\ Decides(g)' = Decides(g) /\ Spawns(g)' = Spawns(g) /\ Engaged(g)' = Engaged(g)
         /\ handler'[g].request = handler[g].request /\ handler'[g].by = handler[g].by
         /\ handler'[g].pc = handler[g].pc
  BY DEF Decides, Spawns, Engaged

\* A step that leaves the requests and the handlers alone.
LEMMA HandlersStay ==
  ASSUME IInv, UNCHANGED <<requests, built, handler, history>>,
         protected' \in BOOLEAN, locked' \in BOOLEAN, flips' \in 0 .. MaxFlips
  PROVE  IInv'
<1> USE DEF IInv, history
<1>1. TypeOK'
  BY DEF TypeOK
<1>2. InFlight' /\ Uncontested'
  BY DEF InFlight, Uncontested, Alone, Finds, Unbuilt, Engaged, Decides, Spawns, Pending
<1>3. OneWaiting' /\ ApprovalWasSpent'
  BY DEF OneWaiting, ApprovalWasSpent, Pending
<1> QED
  BY <1>1, <1>2, <1>3

\* A handler that goes on with the request it decides about, or that is at none
\* afterwards; one cut off before its build is on record.
LEMMA HandlerMoves ==
  ASSUME IInv, NEW h \in Handler, UNCHANGED <<requests, built, contested>>,
         protected' \in BOOLEAN, locked' \in BOOLEAN, flips' \in 0 .. MaxFlips,
         handler' \in [Handler -> [pc : Step, by : Admin, request : 0 .. Len(requests)]],
         \A g \in Handler : g # h => handler'[g] = handler[g],
         \/ ~Engaged(h)'
         \/ /\ Decides(h) /\ Decides(h)' /\ handler'[h].request = handler[h].request
            /\ handler[h].by \in Admin \ {Owner} /\ handler'[h].by = handler[h].by,
         burnt \subseteq burnt', burnt' \subseteq DOMAIN requests,
         Spawns(h) => handler[h].request \in burnt'
  PROVE  IInv'
<1> USE DEF IInv
<1>1. TypeOK'
  BY DEF TypeOK
<1>2. \A g \in Handler : g # h =>
        /\ Decides(g)' = Decides(g) /\ Spawns(g)' = Spawns(g) /\ Engaged(g)' = Engaged(g)
        /\ handler'[g].request = handler[g].request /\ handler'[g].by = handler[g].by
        /\ handler'[g].pc = handler[g].pc
  BY OthersStay
<1>3. Engaged(h)' => /\ Decides(h) /\ Engaged(h) /\ Decides(h)' /\ ~Spawns(h)'
                     /\ handler'[h].request = handler[h].request
                     /\ handler'[h].by \in Admin \ {Owner}
  BY DEF Engaged, Decides, Spawns
<1>4. \A g \in Handler : (Decides(g)' => Engaged(g)') /\ (Spawns(g)' => Engaged(g)')
  BY DEF Engaged
<1>5. \A k \in DOMAIN requests : Pending(k)' = Pending(k)
  BY DEF Pending
<1>6. \A g \in Handler : handler'[g].pc \in {"config", "approveLock", "mark", "spawn"} => Engaged(g)'
  BY DEF Engaged, Decides, Spawns
<1>7. InFlight'
  BY <1>2, <1>3, <1>4, <1>5, <1>6 DEF InFlight
<1>8. Uncontested'
  <2>1. Alone'
    BY <1>2, <1>3 DEF Uncontested, Alone, Finds, Unbuilt
  <2>2. \A g \in Handler : Finds(g)'
    BY <1>2, <1>3, <1>4 DEF Uncontested, Alone, Finds, Unbuilt, Pending
  <2>3. Unbuilt'
    BY <1>5 DEF Uncontested, Alone, Finds, Unbuilt
  <2> QED
    BY <2>1, <2>2, <2>3 DEF Uncontested
<1>9. OneWaiting'
  BY <1>5 DEF OneWaiting
<1>10. ApprovalWasSpent'
  <2> SUFFICES ASSUME NEW k \in DOMAIN requests, requests[k].status = "approved"
               PROVE  /\ requests[k].by \in Admin \ {Owner}
                      /\ \/ built[k] > 0 \/ k \in burnt'
                         \/ \E g \in Handler : handler'[g].pc = "spawn" /\ handler'[g].request = k
    BY DEF ApprovalWasSpent
  <2>1. CASE built[k] > 0 \/ k \in burnt
    BY <2>1 DEF ApprovalWasSpent
  <2>2. CASE \E g \in Handler : handler[g].pc = "spawn" /\ handler[g].request = k
    BY <1>2, <2>2 DEF ApprovalWasSpent, Spawns
  <2> QED
    BY <2>1, <2>2 DEF ApprovalWasSpent
<1> QED
  BY <1>1, <1>7, <1>8, <1>9, <1>10

\* A handler that begins to decide: if it is the second, the request is contested.
LEMMA DecisionBegins ==
  ASSUME IInv, NEW h \in Handler, NEW a \in Admin, NEW k \in DOMAIN requests,
         NEW step \in {"config", "reject"}, step = "config" => a # Owner,
         Pending(k), Begin(h, a, k, step), Contest({k}),
         UNCHANGED <<protected, requests, built, locked, flips, burnt>>
  PROVE  IInv'
<1> USE DEF IInv
<1>1. k \in 0 .. Len(requests) /\ step \in Step
  BY DEF TypeOK, Step
<1>2. /\ handler' \in [Handler -> [pc : Step, by : Admin, request : 0 .. Len(requests)]]
      /\ \A g \in Handler : g # h => handler'[g] = handler[g]
      /\ handler'[h] = [pc |-> step, by |-> a, request |-> k]
      /\ ~Engaged(h)
  BY <1>1, Beginning
<1>3. /\ contested \subseteq contested' /\ contested' \subseteq contested \cup {k}
      /\ (\E g \in Handler : Decides(g) /\ handler[g].request = k) => k \in contested'
  BY DEF Contest
<1>4. TypeOK'
  BY <1>2, <1>3 DEF TypeOK
<1>5. \A g \in Handler : g # h =>
        /\ Decides(g)' = Decides(g) /\ Spawns(g)' = Spawns(g) /\ Engaged(g)' = Engaged(g)
        /\ handler'[g].request = handler[g].request /\ handler'[g].by = handler[g].by
        /\ handler'[g].pc = handler[g].pc
  BY <1>2, OthersStay
<1>6. handler'[h].pc = step /\ handler'[h].by = a /\ handler'[h].request = k /\ ~Spawns(h)'
  BY <1>2 DEF Spawns
<1>7. \A j \in DOMAIN requests : Pending(j)' = Pending(j)
  BY DEF Pending
<1>8. InFlight'
  BY <1>5, <1>6, <1>7 DEF InFlight, Engaged, Spawns, Pending
<1>9. \A g \in Handler : g # h /\ Engaged(g) /\ handler[g].request = k => k \in contested'
  BY <1>3 DEF Engaged, InFlight
<1>10. Uncontested'
  <2>1. Alone'
    BY <1>3, <1>5, <1>6, <1>9 DEF Uncontested, Alone, Finds, Unbuilt
  <2>2. \A g \in Handler : Finds(g)'
    BY <1>3, <1>5, <1>6 DEF Uncontested, Alone, Finds, Unbuilt, Pending
  <2>3. Unbuilt'
    BY <1>3, <1>7 DEF Uncontested, Alone, Finds, Unbuilt
  <2> QED
    BY <2>1, <2>2, <2>3 DEF Uncontested
<1>11. OneWaiting'
  BY <1>7 DEF OneWaiting
<1>12. ApprovalWasSpent'
  BY <1>2, <1>5 DEF ApprovalWasSpent, Engaged, Spawns
<1> QED
  BY <1>4, <1>8, <1>10, <1>11, <1>12

\* A handler that files a request.
LEMMA Filing ==
  ASSUME IInv, NEW h \in Handler, File(h)
  PROVE  IInv'
<1> USE DEF IInv, history
<1>1. Goto(h, "idle") /\ UNCHANGED <<protected, locked, flips, history>> /\ ~Engaged(h)
  BY DEF File, Engaged, Decides, Spawns
<1>2. /\ handler' \in [Handler -> [pc : Step, by : Admin, request : 0 .. Len(requests)]]
      /\ \A g \in Handler : g # h => handler'[g] = handler[g]
      /\ handler'[h] = Idle
  BY <1>1, Moving DEF Step
<1>3. ~Engaged(h)' /\ ~Spawns(h) /\ ~Spawns(h)' /\ ~Decides(h)'
  BY <1>1, <1>2 DEF Engaged, Decides, Spawns, Idle
<1>4. CASE UNCHANGED <<requests, built>>
  BY <1>1, <1>2, <1>3, <1>4, HandlerMoves DEF TypeOK
<1>5. CASE /\ \A k \in DOMAIN requests : ~Pending(k)
           /\ requests' = Append(requests, [status |-> "pending", by |-> Nobody])
           /\ built' = Append(built, 0)
  <2> DEFINE new == [status |-> "pending", by |-> Nobody]
  <2>1. /\ requests \in Seq(Requests) /\ new \in Requests
        /\ built \in Seq(Nat) /\ Len(built) = Len(requests)
    BY DEF TypeOK, Requests, RequestStatus
  <2>2. /\ requests' \in Seq(Requests) /\ Len(requests') = Len(requests) + 1
        /\ DOMAIN requests' = DOMAIN requests \cup {Len(requests) + 1}
        /\ \A k \in DOMAIN requests : requests'[k] = requests[k]
        /\ requests'[Len(requests) + 1] = new
    BY <1>5, <2>1
  <2>3. /\ built' \in Seq(Nat) /\ Len(built') = Len(built) + 1
        /\ \A k \in DOMAIN requests : built'[k] = built[k]
        /\ built'[Len(requests) + 1] = 0
    BY <1>5, <2>1
  <2>4. 0 .. Len(requests) \subseteq 0 .. Len(requests')
    BY <2>1, <2>2
  <2>5. TypeOK'
    BY <1>1, <1>2, <2>1, <2>2, <2>3, <2>4 DEF TypeOK, Requests
  <2>6. \A g \in Handler : g # h =>
          /\ Decides(g)' = Decides(g) /\ Spawns(g)' = Spawns(g) /\ Engaged(g)' = Engaged(g)
          /\ handler'[g].request = handler[g].request /\ handler'[g].by = handler[g].by
          /\ handler'[g].pc = handler[g].pc
    BY <1>2, OthersStay
  <2>7. \A k \in DOMAIN requests : Pending(k)' = Pending(k)
    BY <2>2 DEF Pending
  <2>8. handler'[h].pc = "idle"
    BY <1>2 DEF Idle
  <2>9. InFlight'
    BY <1>3, <2>2, <2>6, <2>7, <2>8 DEF InFlight, Engaged, Spawns, Pending
  <2>10. \A g \in Handler : (Decides(g)' => Engaged(g)) /\ (Spawns(g)' => Engaged(g))
    BY <1>3, <2>6 DEF Engaged
  <2>11. Uncontested'
    <3>1. Alone'
      BY <1>1, <1>3, <2>6 DEF Uncontested, Alone, Finds, Unbuilt
    <3>2. \A g \in Handler : Finds(g)'
      BY <1>1, <1>3, <2>2, <2>3, <2>6, <2>7, <2>10 DEF Uncontested, Alone, Finds, Unbuilt, InFlight
    <3>3. Unbuilt'
      BY <1>1, <2>2, <2>3, <2>7 DEF Uncontested, Alone, Finds, Unbuilt
    <3> QED
      BY <3>1, <3>2, <3>3 DEF Uncontested
  <2>12. OneWaiting'
    BY <1>5, <2>2, <2>7 DEF OneWaiting
  <2>13. ApprovalWasSpent'
    <3>1. ~(requests'[Len(requests) + 1].status = "approved")
      BY <2>2
    <3>2. \A g \in Handler : handler[g].pc = "spawn" => handler'[g] = handler[g]
      BY <1>1, <1>2 DEF Engaged, Spawns
    <3> SUFFICES ASSUME NEW k \in DOMAIN requests, requests[k].status = "approved"
                 PROVE  /\ requests[k].by \in Admin \ {Owner}
                        /\ \/ built[k] > 0 \/ k \in burnt
                           \/ \E g \in Handler : handler'[g].pc = "spawn" /\ handler'[g].request = k
      BY <1>1, <2>2, <2>3, <3>1 DEF ApprovalWasSpent
    <3> QED
      BY <3>2 DEF ApprovalWasSpent
  <2> QED
    BY <2>5, <2>9, <2>11, <2>12, <2>13
<1> QED
  BY <1>4, <1>5 DEF File

\* A verdict is written on a request: a rejection ends its handler, an approval goes on
\* to the build.
LEMMA Resolving ==
  ASSUME IInv, NEW h \in Handler, UNCHANGED <<protected, built, locked, flips, history>>,
         Decides(h), NEW k, k = handler[h].request, NEW a, a = handler[h].by,
         \/ /\ Resolve(k, "approved", a) /\ Goto(h, "spawn") /\ a # Owner
         \/ /\ Resolve(k, "rejected", a) /\ Goto(h, "idle")
  PROVE  IInv'
<1> USE DEF IInv, history
<1>1. PICK s \in {"approved", "rejected"} :
        Resolve(k, s, a) /\ Goto(h, IF s = "approved" THEN "spawn" ELSE "idle")
        /\ (s = "approved" => a # Owner)
  OBVIOUS
<1>2. k \in DOMAIN requests /\ a \in Admin
  BY DEF InFlight, Engaged, TypeOK
<1>3. /\ handler' \in [Handler -> [pc : Step, by : Admin, request : 0 .. Len(requests)]]
      /\ \A g \in Handler : g # h => handler'[g] = handler[g]
      /\ s = "rejected" => handler'[h] = Idle
      /\ s = "approved" => handler'[h] = [handler[h] EXCEPT !.pc = "spawn"]
  BY <1>1, Moving DEF Step
<1>4. s = "approved" =>
        handler'[h].pc = "spawn" /\ handler'[h].request = k /\ handler'[h].by = a
  BY <1>3 DEF TypeOK
<1>5. ~Decides(h)' /\ ~Spawns(h) /\ Engaged(h) /\ (Engaged(h)' => Spawns(h)')
  BY <1>3, <1>4 DEF Engaged, Decides, Spawns, Idle
<1>6. Spawns(h)' <=> s = "approved"
  BY <1>3, <1>4 DEF Spawns, Idle
<1>7. /\ requests \in Seq(Requests) /\ [status |-> s, by |-> a] \in Requests
  BY <1>2 DEF TypeOK, Requests, RequestStatus
<1>8. /\ requests' \in Seq(Requests) /\ Len(requests') = Len(requests)
      /\ DOMAIN requests' = DOMAIN requests
      /\ \A j \in DOMAIN requests : j # k => requests'[j] = requests[j]
      /\ requests'[k] = [status |-> s, by |-> a]
  BY <1>1, <1>2, <1>7 DEF Resolve
<1>9. TypeOK'
  BY <1>3, <1>8 DEF TypeOK, Requests
<1>10. \A g \in Handler : g # h =>
         /\ Decides(g)' = Decides(g) /\ Spawns(g)' = Spawns(g) /\ Engaged(g)' = Engaged(g)
         /\ handler'[g].request = handler[g].request /\ handler'[g].by = handler[g].by
         /\ handler'[g].pc = handler[g].pc
  BY <1>3, OthersStay
<1>11. ~Pending(k)' /\ \A j \in DOMAIN requests : j # k => Pending(j)' = Pending(j)
  BY <1>8 DEF Pending
<1>12. InFlight'
  <2>1. \A g \in Handler : Engaged(g)' => handler'[g].request \in DOMAIN requests'
    BY <1>2, <1>4, <1>5, <1>6, <1>8, <1>10 DEF InFlight
  <2>2. \A g \in Handler : handler'[g].pc \in {"config", "approveLock", "mark", "spawn"} =>
          handler'[g].by \in Admin \ {Owner}
    BY <1>1, <1>2, <1>3, <1>4, <1>10 DEF InFlight, Idle
  <2>3. \A g \in Handler : Spawns(g)' => requests'[handler'[g].request].status # "pending"
    BY <1>4, <1>6, <1>10, <1>11 DEF InFlight, Engaged, Pending
  <2> QED
    BY <2>1, <2>2, <2>3 DEF InFlight, Pending
<1>13. Uncontested'
  <2>1. Alone'
    BY <1>4, <1>5, <1>6, <1>10 DEF Uncontested, Alone, Finds, Unbuilt
  <2>2. \A g \in Handler : g # h /\ Engaged(g) /\ handler[g].request \notin contested =>
          handler[g].request # k /\ handler[g].request \in DOMAIN requests
    BY <1>5 DEF Uncontested, Alone, Finds, Unbuilt, InFlight
  <2>3. \A g \in Handler : Finds(g)'
    <3>1. ASSUME NEW g \in Handler, g # h, handler'[g].request \notin contested'
          PROVE  Finds(g)'
      BY <1>8, <1>10, <1>11, <2>2, <3>1 DEF Uncontested, Alone, Finds, Unbuilt, Engaged
    <3>2. ASSUME k \notin contested
          PROVE  built[k] = 0
      BY <1>2, <3>2 DEF Uncontested, Alone, Finds, Unbuilt
    <3>3. Spawns(h)' /\ handler'[h].request \notin contested' =>
            /\ requests'[handler'[h].request].status = "approved"
            /\ built'[handler'[h].request] = 0
      BY <1>4, <1>6, <1>8, <3>2
    <3> QED
      BY <1>5, <3>1, <3>3 DEF Finds
  <2>4. Unbuilt'
    BY <1>8, <1>11 DEF Uncontested, Alone, Finds, Unbuilt
  <2> QED
    BY <2>1, <2>3, <2>4 DEF Uncontested
<1>14. OneWaiting'
  BY <1>8, <1>11 DEF OneWaiting
<1>15. ApprovalWasSpent'
  <2>1. requests'[k].status = "approved" =>
          /\ requests'[k].by \in Admin \ {Owner}
          /\ \E g \in Handler : handler'[g].pc = "spawn" /\ handler'[g].request = k
    BY <1>1, <1>2, <1>4, <1>8
  <2>2. \A g \in Handler : handler[g].pc = "spawn" => handler'[g] = handler[g]
    BY <1>3, <1>5 DEF Spawns
  <2> QED
    BY <1>8, <2>1, <2>2 DEF ApprovalWasSpent
<1> QED
  BY <1>9, <1>12, <1>13, <1>14, <1>15

\* The build of an approved request starts.
LEMMA Starts ==
  ASSUME IInv, NEW h \in Handler, ApproveSpawn(h)
  PROVE  IInv'
<1> USE DEF IInv, history
<1> DEFINE k == handler[h].request
<1>1. /\ Spawns(h) /\ Engaged(h) /\ ~Decides(h) /\ Goto(h, "idle")
      /\ UNCHANGED <<protected, requests, locked, flips, history>>
      /\ built' = [built EXCEPT ![k] = @ + 1]
  BY DEF ApproveSpawn, Spawns, Engaged, Decides
<1>2. k \in DOMAIN requests /\ ~Pending(k)
  BY <1>1 DEF InFlight
<1>3. /\ handler' \in [Handler -> [pc : Step, by : Admin, request : 0 .. Len(requests)]]
      /\ \A g \in Handler : g # h => handler'[g] = handler[g]
      /\ handler'[h] = Idle
  BY <1>1, Moving DEF Step
<1>4. ~Engaged(h)' /\ ~Spawns(h)' /\ ~Decides(h)' /\ handler'[h].pc = "idle"
  BY <1>3 DEF Engaged, Decides, Spawns, Idle
<1>5. /\ built' \in Seq(Nat) /\ Len(built') = Len(requests)
      /\ \A j \in DOMAIN requests : j # k => built'[j] = built[j]
      /\ built'[k] = built[k] + 1 /\ built[k] \in Nat
  BY <1>1, <1>2 DEF TypeOK
<1>6. TypeOK'
  BY <1>1, <1>3, <1>5 DEF TypeOK
<1>7. \A g \in Handler : g # h =>
        /\ Decides(g)' = Decides(g) /\ Spawns(g)' = Spawns(g) /\ Engaged(g)' = Engaged(g)
        /\ handler'[g].request = handler[g].request /\ handler'[g].by = handler[g].by
        /\ handler'[g].pc = handler[g].pc
  BY <1>3, OthersStay
<1>8. \A j \in DOMAIN requests : Pending(j)' = Pending(j)
  BY <1>1 DEF Pending
<1>9. InFlight'
  BY <1>1, <1>4, <1>7, <1>8 DEF InFlight, Engaged
<1>10. Uncontested'
  <2>1. Alone'
    BY <1>1, <1>4, <1>7 DEF Uncontested, Alone, Finds, Unbuilt
  <2>2. \A g \in Handler : Finds(g)'
    <3>1. ASSUME NEW g \in Handler, g # h, Engaged(g), handler[g].request \notin contested
          PROVE  handler[g].request # k /\ handler[g].request \in DOMAIN requests
      BY <1>1, <3>1 DEF Uncontested, Alone, Finds, Unbuilt, InFlight
    <3>2. \A g \in Handler : (Decides(g) => Engaged(g)) /\ (Spawns(g) => Engaged(g))
      BY DEF Engaged
    <3> QED
      BY <1>1, <1>4, <1>5, <1>7, <1>8, <3>1, <3>2 DEF Uncontested, Finds, Pending
  <2>3. Unbuilt'
    BY <1>1, <1>2, <1>5, <1>8 DEF Uncontested, Alone, Finds, Unbuilt
  <2> QED
    BY <2>1, <2>2, <2>3 DEF Uncontested
<1>11. OneWaiting'
  BY <1>1, <1>8 DEF OneWaiting
<1>12. ApprovalWasSpent'
  <2> SUFFICES ASSUME NEW j \in DOMAIN requests, requests[j].status = "approved"
               PROVE  /\ requests[j].by \in Admin \ {Owner}
                      /\ \/ built'[j] > 0 \/ j \in burnt
                         \/ \E g \in Handler : handler'[g].pc = "spawn" /\ handler'[g].request = j
    BY <1>1 DEF ApprovalWasSpent
  <2>1. CASE j = k
    BY <1>5, <2>1 DEF ApprovalWasSpent
  <2>2. CASE j # k
    <3>1. \A g \in Handler : handler[g].pc = "spawn" /\ handler[g].request = j => handler'[g] = handler[g]
      BY <1>3, <2>2
    <3> QED
      BY <1>5, <2>2, <3>1 DEF ApprovalWasSpent
  <2> QED
    BY <2>1, <2>2
<1> QED
  BY <1>6, <1>9, <1>10, <1>11, <1>12

\* The protection goes off: what waits is cancelled, and contested if it is being decided.
LEMMA Cancelling ==
  ASSUME IInv, NEW h \in Handler, CancelPending(h)
  PROVE  IInv'
<1> USE DEF IInv
<1>1. Goto(h, "idle") /\ UNCHANGED <<protected, built, locked, flips, burnt>> /\ ~Engaged(h)
  BY DEF CancelPending, Engaged, Decides, Spawns
<1>2. /\ handler' \in [Handler -> [pc : Step, by : Admin, request : 0 .. Len(requests)]]
      /\ \A g \in Handler : g # h => handler'[g] = handler[g]
      /\ handler'[h] = Idle
  BY <1>1, Moving DEF Step
<1>3. ~Engaged(h)' /\ ~Spawns(h) /\ ~Spawns(h)' /\ ~Decides(h)' /\ handler'[h].pc = "idle"
  BY <1>1, <1>2 DEF Engaged, Decides, Spawns, Idle
<1>4. CASE UNCHANGED <<requests, contested>>
  BY <1>1, <1>2, <1>3, <1>4, HandlerMoves DEF TypeOK
<1>5. CASE /\ requests' = [k \in DOMAIN requests |->
                 IF Pending(k) THEN [status |-> "cancelled", by |-> Nobody] ELSE requests[k]]
           /\ Contest({k \in DOMAIN requests : Pending(k)})
  <2>1. /\ requests \in Seq(Requests) /\ DOMAIN requests = 1 .. Len(requests)
        /\ Len(requests) \in Nat /\ [status |-> "cancelled", by |-> Nobody] \in Requests
    BY DEF TypeOK, Requests, RequestStatus
  <2>2. \A k \in DOMAIN requests : requests[k] \in Requests /\ requests'[k] \in Requests
    BY <1>5, <2>1
  <2>3. requests' \in [1 .. Len(requests) -> Requests]
    BY <1>5, <2>1, <2>2
  <2>4. requests' \in Seq(Requests) /\ Len(requests') = Len(requests)
    BY <2>1, <2>3
  <2>5. DOMAIN requests' = DOMAIN requests
    BY <1>5
  <2>6. /\ contested \subseteq contested' /\ contested' \subseteq DOMAIN requests
        /\ \A g \in Handler : Decides(g) /\ handler[g].request \in DOMAIN requests
              /\ Pending(handler[g].request) => handler[g].request \in contested'
    BY <1>5 DEF Contest, TypeOK
  <2>7. TypeOK'
    BY <1>1, <1>2, <2>4, <2>5, <2>6 DEF TypeOK, Requests
  <2>8. \A g \in Handler : g # h =>
          /\ Decides(g)' = Decides(g) /\ Spawns(g)' = Spawns(g) /\ Engaged(g)' = Engaged(g)
          /\ handler'[g].request = handler[g].request /\ handler'[g].by = handler[g].by
          /\ handler'[g].pc = handler[g].pc
    BY <1>2, OthersStay
  <2>9. \A k \in DOMAIN requests : /\ ~Pending(k)'
                                   /\ requests[k].status = "approved" => requests'[k] = requests[k]
                                   /\ requests'[k].status = "approved" => requests'[k] = requests[k]
    BY <1>5 DEF Pending
  <2>10. InFlight'
    BY <1>3, <2>5, <2>8, <2>9 DEF InFlight, Engaged
  <2>11. Uncontested'
    <3>1. Alone'
      BY <1>3, <2>6, <2>8 DEF Uncontested, Alone, Finds, Unbuilt
    <3>2. \A g \in Handler : Decides(g) => handler[g].request \in contested'
      BY <2>6 DEF Uncontested, Alone, Finds, Unbuilt, InFlight, Engaged
    <3>3. \A g \in Handler : Finds(g)'
      BY <1>1, <1>3, <2>6, <2>8, <2>9, <3>2 DEF Uncontested, Alone, Finds, Unbuilt, InFlight, Engaged
    <3>4. Unbuilt'
      BY <2>5, <2>9 DEF Unbuilt
    <3> QED
      BY <3>1, <3>3, <3>4 DEF Uncontested
  <2>12. OneWaiting'
    BY <2>5, <2>9 DEF OneWaiting
  <2>13. ApprovalWasSpent'
    BY <1>1, <1>3, <2>5, <2>8, <2>9 DEF ApprovalWasSpent, Spawns
  <2> QED
    BY <2>7, <2>10, <2>11, <2>12, <2>13
<1> QED
  BY <1>4, <1>5 DEF CancelPending

LEMMA HandleKeeps ==
  ASSUME IInv, NEW h \in Handler, Handle(h)
  PROVE  IInv'
<1> USE DEF IInv, history
\* The steps that only move the handler, and perhaps take the lock.
<1>1. ASSUME NEW step \in {"approveLock", "mark", "idle"}, Goto(h, step),
             step # "idle" => handler[h].pc \in {"config", "approveLock"},
             UNCHANGED <<protected, requests, built, flips, contested>>, locked' \in BOOLEAN,
             burnt \subseteq burnt', burnt' \subseteq DOMAIN requests,
             Spawns(h) => handler[h].request \in burnt'
      PROVE  IInv'
  <2>1. /\ handler' \in [Handler -> [pc : Step, by : Admin, request : 0 .. Len(requests)]]
        /\ \A g \in Handler : g # h => handler'[g] = handler[g]
        /\ step = "idle" => handler'[h] = Idle
        /\ step # "idle" => handler'[h] = [handler[h] EXCEPT !.pc = step]
    BY <1>1, Moving DEF Step
  <2>2. ASSUME step # "idle"
        PROVE  /\ Decides(h) /\ Decides(h)' /\ handler'[h].request = handler[h].request
               /\ handler[h].by \in Admin \ {Owner} /\ handler'[h].by = handler[h].by
    BY <1>1, <2>1, <2>2 DEF TypeOK, Decides, InFlight
  <2>3. ASSUME step = "idle"
        PROVE  ~Engaged(h)'
    BY <2>1, <2>3 DEF Engaged, Decides, Spawns, Idle
  <2> QED
    BY <1>1, <2>1, <2>2, <2>3, HandlerMoves DEF TypeOK
\* The steps that begin something else than a decision.
<1>2. ASSUME NEW step \in Step, Begin(h, Owner, 0, step),
             step \in {"file", "deployLock", "idle", "cancel"},
             protected' \in BOOLEAN, flips' \in 0 .. MaxFlips,
             UNCHANGED <<requests, built, locked, history>>
      PROVE  IInv'
  <2>1. Owner \in Admin /\ 0 \in 0 .. Len(requests)
    BY ApprovalAssumption DEF TypeOK
  <2>2. /\ handler' \in [Handler -> [pc : Step, by : Admin, request : 0 .. Len(requests)]]
        /\ \A g \in Handler : g # h => handler'[g] = handler[g]
        /\ handler'[h] = [pc |-> step, by |-> Owner, request |-> 0]
        /\ ~Engaged(h)
    BY <1>2, <2>1, Beginning
  <2>3. ~Engaged(h)' /\ ~Spawns(h)
    BY <1>2, <2>2 DEF Engaged, Decides, Spawns
  <2> QED
    BY <1>2, <2>2, <2>3, HandlerMoves DEF TypeOK
<1>3. handler[h].pc # "spawn" => ~Spawns(h)
  BY DEF Spawns
<1>4. CASE DeployRead(h)
  BY <1>2, <1>4 DEF DeployRead, Step, TypeOK
<1>5. CASE DeployLock(h)
  BY <1>1, <1>3, <1>5 DEF DeployLock, TypeOK
<1>6. CASE ApproveRead(h)
  BY <1>6, DecisionBegins DEF ApproveRead
<1>7. CASE ApproveConfig(h)
  BY <1>1, <1>3, <1>7 DEF ApproveConfig, TypeOK
<1>8. CASE ApproveLock(h)
  BY <1>1, <1>3, <1>8 DEF ApproveLock, TypeOK
<1>9. CASE ApproveMark(h)
  <2>1. handler[h].by \in Admin \ {Owner} /\ Decides(h)
    BY <1>9 DEF ApproveMark, InFlight, Decides
  <2>2. CASE Goto(h, "idle") /\ UNCHANGED requests
    BY <1>1, <1>3, <1>9, <2>2 DEF ApproveMark, TypeOK
  <2>3. CASE Resolve(handler[h].request, "approved", handler[h].by) /\ Goto(h, "spawn")
    BY <1>9, <2>1, <2>3, Resolving DEF ApproveMark
  <2> QED
    BY <1>9, <2>2, <2>3 DEF ApproveMark
<1>10. CASE RejectRead(h)
  BY <1>10, DecisionBegins DEF RejectRead
<1>11. CASE RejectWrite(h)
  <2>1. Decides(h)
    BY <1>11 DEF RejectWrite, Decides
  <2>2. CASE UNCHANGED requests
    BY <1>1, <1>3, <1>11, <2>2 DEF RejectWrite, TypeOK
  <2>3. CASE Resolve(handler[h].request, "rejected", handler[h].by)
    BY <1>11, <2>1, <2>3, Resolving DEF RejectWrite
  <2> QED
    BY <1>11, <2>2, <2>3 DEF RejectWrite
<1>12. CASE Update(h)
  <2>1. PICK p \in BOOLEAN :
          protected' = p /\ Begin(h, Owner, 0, IF p THEN "idle" ELSE "cancel")
    BY <1>12 DEF Update
  <2>2. flips' \in 0 .. MaxFlips
    BY <1>12, ApprovalAssumption DEF Update, TypeOK
  <2> QED
    BY <1>2, <1>12, <2>1, <2>2 DEF Update, Step
<1>13. CASE HangUp(h)
  <2>1. burnt' = burnt \cup (IF Spawns(h) THEN {handler[h].request} ELSE {})
    BY <1>13 DEF HangUp, Burn, Spawns
  <2>2. Spawns(h) => handler[h].request \in DOMAIN requests
    BY DEF InFlight, Engaged
  <2> QED
    BY <1>1, <1>13, <2>1, <2>2 DEF HangUp, TypeOK
<1> QED
  BY <1>4, <1>5, <1>6, <1>7, <1>8, <1>9, <1>10, <1>11, <1>12, <1>13, Filing, Starts, Cancelling
     DEF Handle

LEMMA StepKeeps == IInv /\ [Next]_vars => IInv'
<1> SUFFICES ASSUME IInv, [Next]_vars
             PROVE  IInv'
  OBVIOUS
<1> USE DEF IInv, history
<1>1. CASE UNCHANGED vars \/ OtherDoor \/ LockFreed
  BY <1>1, HandlersStay DEF vars, OtherDoor, LockFreed, TypeOK
<1>2. CASE PanelRestart
  <2>1. handler' = [h \in Handler |-> Idle] /\ UNCHANGED <<protected, requests, built, locked, flips, contested>>
    BY <1>2 DEF PanelRestart
  <2>2. \A h \in Handler : ~Engaged(h)' /\ handler'[h].pc = "idle"
    BY <2>1 DEF Engaged, Decides, Spawns, Idle
  <2>3. Idle \in [pc : Step, by : Admin, request : 0 .. Len(requests)]
    <3>1. Len(requests) \in Nat
      BY DEF TypeOK
    <3> QED
      BY <3>1, ApprovalAssumption DEF Idle, Step
  <2>4. /\ burnt \subseteq burnt' /\ burnt' \subseteq DOMAIN requests
        /\ \A h \in Handler : handler[h].pc = "spawn" => handler[h].request \in burnt'
    BY <1>2 DEF PanelRestart, Burn, TypeOK, InFlight, Engaged, Spawns
  <2>5. TypeOK'
    BY <2>1, <2>3, <2>4 DEF TypeOK
  <2>6. InFlight' /\ OneWaiting'
    BY <2>1, <2>2 DEF InFlight, OneWaiting, Pending, Engaged
  <2>7. Uncontested'
    BY <2>1, <2>2 DEF Uncontested, Alone, Finds, Unbuilt, Engaged, Pending
  <2>8. ApprovalWasSpent'
    BY <2>1, <2>4 DEF ApprovalWasSpent
  <2> QED
    BY <2>5, <2>6, <2>7, <2>8
<1> QED
  BY <1>1, <1>2, HandleKeeps DEF Next

-----------------------------------------------------------------------------
\* The invariant of the requests and the handlers.
THEOREM ApprovalInvariant == Spec => []IInv
  BY Initially, StepKeeps, PTL DEF Spec

\* The requests and the handlers in flight only hold what the code can write.
THEOREM ApprovalTyped == Spec => []TypeOK
<1>1. IInv => TypeOK
  BY DEF IInv
<1> QED
  BY ApprovalInvariant, <1>1, PTL

\* The index of pending requests and ON CONFLICT DO NOTHING: one request waits.
THEOREM OneRequestWaits == Spec => []OneWaiting
<1>1. IInv => OneWaiting
  BY DEF IInv
<1> QED
  BY ApprovalInvariant, <1>1, PTL

\* approve_deploy: what stands as approved was approved by another administrator
\* than the owner, and became a build or is about to, unless the approver was cut off
\* between the UPDATE and the build.
THEOREM ApprovalsAreSpent == Spec => []ApprovalWasSpent
<1>1. IInv => ApprovalWasSpent
  BY DEF IInv
<1> QED
  BY ApprovalInvariant, <1>1, PTL

-----------------------------------------------------------------------------
\* The handlers implement the ledger: how a handler's step shows in the decisions
\* under way and in the builds about to start.
LEMMA DecisionsAfter ==
  ASSUME NEW h \in Handler, \A g \in Handler : g # h => handler'[g] = handler[g]
  PROVE  /\ ~Decides(h) /\ ~Decides(h)' => Deciding' = Deciding
         /\ ~Decides(h) /\ Decides(h)' => Deciding' = Deciding \cup {Decision(h)'}
         /\ Decides(h) /\ Decides(h)' /\ Decision(h)' = Decision(h) => Deciding' = Deciding
         /\ Decides(h) /\ ~Decides(h)' =>
              Deciding \ {Decision(h)} \subseteq Deciding' /\ Deciding' \subseteq Deciding
<1> DEFINE D == {Decision(g) : g \in {g \in Handler : g # h /\ Decides(g)}}
<1>1. D' = D
  BY DEF Decides, Decision, Verdict
<1>2. Deciding = D \cup (IF Decides(h) THEN {Decision(h)} ELSE {})
  BY DEF Deciding
<1>3. Deciding' = D' \cup (IF Decides(h)' THEN {Decision(h)'} ELSE {})
  BY DEF Deciding, Decides, Decision
<1> HIDE DEF D
<1> QED
  BY <1>1, <1>2, <1>3

LEMMA StartsAfter ==
  ASSUME NEW h \in Handler, \A g \in Handler : g # h => handler'[g] = handler[g]
  PROVE  /\ ~Spawns(h) /\ ~Spawns(h)' => Starting' = Starting
         /\ ~Spawns(h) /\ Spawns(h)' => Starting' = Starting \cup {handler'[h].request}
         /\ Spawns(h) /\ ~Spawns(h)' =>
              Starting \ {handler[h].request} \subseteq Starting' /\ Starting' \subseteq Starting
<1> DEFINE D == {handler[g].request : g \in {g \in Handler : g # h /\ Spawns(g)}}
<1>1. D' = D
  BY DEF Spawns
<1>2. Starting = D \cup (IF Spawns(h) THEN {handler[h].request} ELSE {})
  BY DEF Starting, Spawns
<1>3. Starting' = D' \cup (IF Spawns(h)' THEN {handler'[h].request} ELSE {})
  BY DEF Starting, Spawns
<1> HIDE DEF D
<1> QED
  BY <1>1, <1>2, <1>3

\* Of the requests K, those somebody is deciding become contested.
LEMMA ContestIs ==
  ASSUME NEW K, Contest(K)
  PROVE  contested' = contested \cup {k \in K : Ledger!Decided(k)}
<1>1. \A k : Ledger!Decided(k) <=> \E h \in Handler : Decides(h) /\ handler[h].request = k
  <2> TAKE k
  <2>1. ASSUME Ledger!Decided(k)
        PROVE  \E h \in Handler : Decides(h) /\ handler[h].request = k
    <3>1. PICK d \in Deciding : d.request = k
      BY <2>1 DEF Ledger!Decided
    <3>2. PICK h \in Handler : Decides(h) /\ d = Decision(h)
      BY DEF Deciding
    <3> QED
      BY <3>1, <3>2 DEF Decision
  <2>2. ASSUME NEW h \in Handler, Decides(h), handler[h].request = k
        PROVE  Ledger!Decided(k)
    <3>1. Decision(h) \in Deciding /\ Decision(h).request = k
      BY <2>2 DEF Deciding, Decision
    <3> QED
      BY <3>1 DEF Ledger!Decided
  <2> QED
    BY <2>1, <2>2
<1> QED
  BY <1>1 DEF Contest

LedgerVars == <<requests, built, Deciding, Starting, contested>>

LEMMA StepIsLedgerStep ==
  ASSUME IInv, [Next]_vars
  PROVE  [Ledger!LedgerNext]_LedgerVars
<1> USE DEF IInv, history
<1> DEFINE Goal == Ledger!LedgerNext \/ UNCHANGED LedgerVars
<1> SUFFICES Goal
  BY DEF LedgerVars
<1>1. ASSUME Deciding' \subseteq Deciding, Starting' \subseteq Starting,
             UNCHANGED <<requests, built, contested>>
      PROVE  Goal
  BY <1>1 DEF Ledger!LedgerNext, Ledger!Abandon
\* A handler that goes on, or comes to nothing, and one that begins something else.
<1>2. ASSUME NEW h \in Handler, NEW step \in {"approveLock", "mark", "idle"}, Goto(h, step),
             UNCHANGED <<requests, built, contested>>,
             step # "idle" => handler[h].pc \in {"config", "approveLock"}
      PROVE  Goal
  <2>1. /\ \A g \in Handler : g # h => handler'[g] = handler[g]
        /\ step = "idle" => handler'[h] = Idle
        /\ step # "idle" => handler'[h] = [handler[h] EXCEPT !.pc = step]
    BY <1>2, Moving DEF Step
  <2>2. ~Spawns(h)'
    BY <1>2, <2>1 DEF Spawns, Idle, TypeOK
  <2>3. Starting' \subseteq Starting
    BY <2>1, <2>2, StartsAfter
  <2>4. CASE step # "idle"
    <3>1. /\ handler'[h].pc = step /\ handler'[h].by = handler[h].by
          /\ handler'[h].request = handler[h].request
      BY <2>1, <2>4 DEF TypeOK
    <3>2. Decides(h) /\ Decides(h)' /\ Decision(h)' = Decision(h)
      BY <1>2, <2>4, <3>1 DEF Decides, Decision, Verdict
    <3> QED
      BY <1>1, <1>2, <2>1, <2>3, <3>2, DecisionsAfter
  <2>5. CASE step = "idle"
    <3>1. ~Decides(h)'
      BY <2>1, <2>5 DEF Idle, Decides
    <3> QED
      BY <1>1, <1>2, <2>1, <2>3, <3>1, DecisionsAfter
  <2> QED
    BY <2>4, <2>5
<1>3. ASSUME NEW h \in Handler, NEW step \in {"file", "deployLock", "idle", "cancel"},
             Begin(h, Owner, 0, step), UNCHANGED <<requests, built, contested>>
      PROVE  Goal
  <2>1. Owner \in Admin /\ 0 \in 0 .. Len(requests) /\ step \in Step
    BY ApprovalAssumption DEF TypeOK, Step
  <2>2. /\ \A g \in Handler : g # h => handler'[g] = handler[g]
        /\ handler'[h] = [pc |-> step, by |-> Owner, request |-> 0] /\ ~Engaged(h)
    BY <1>3, <2>1, Beginning
  <2>3. ~Decides(h)' /\ ~Spawns(h)' /\ ~Decides(h) /\ ~Spawns(h)
    BY <1>3, <2>2 DEF Decides, Spawns, Engaged
  <2> QED
    BY <1>1, <1>3, <2>2, <2>3, DecisionsAfter, StartsAfter
<1>4. ASSUME NEW h \in Handler, NEW a \in Admin, NEW k \in DOMAIN requests,
             NEW step \in {"config", "reject"}, step = "config" => a # Owner,
             Pending(k), Begin(h, a, k, step), Contest({k}), UNCHANGED <<requests, built>>
      PROVE  Goal
  <2> DEFINE verdict == IF step = "reject" THEN "rejected" ELSE "approved"
  <2>1. k \in 0 .. Len(requests) /\ step \in Step
    BY DEF TypeOK, Step
  <2>2. /\ \A g \in Handler : g # h => handler'[g] = handler[g]
        /\ handler'[h] = [pc |-> step, by |-> a, request |-> k]
        /\ ~Engaged(h)
    BY <1>4, <2>1, Beginning
  <2>3. ~Decides(h) /\ Decides(h)' /\ ~Spawns(h) /\ ~Spawns(h)'
    BY <2>2 DEF Decides, Spawns, Engaged
  <2>4. Decision(h)' = [request |-> k, by |-> a, verdict |-> verdict]
    BY <2>2 DEF Decision, Verdict
  <2>5. Deciding' = Deciding \cup {[request |-> k, by |-> a, verdict |-> verdict]}
    BY <2>2, <2>3, <2>4, DecisionsAfter
  <2>6. Starting' = Starting
    BY <2>2, <2>3, StartsAfter
  <2>7. contested' = IF Ledger!Decided(k) THEN contested \cup {k} ELSE contested
    BY <1>4, ContestIs
  <2>8. Ledger!Open(k, a, verdict)
    BY <1>4, <2>5, <2>6, <2>7 DEF Ledger!Open, Ledger!Waiting, Pending
  <2> QED
    BY <2>8 DEF Ledger!LedgerNext
\* A verdict that lands.
<1>5. ASSUME NEW h \in Handler, Decides(h), UNCHANGED <<built, contested>>,
             Resolve(handler[h].request, Verdict(h), handler[h].by),
             Goto(h, IF Verdict(h) = "approved" THEN "spawn" ELSE "idle")
      PROVE  Goal
  <2>1. /\ \A g \in Handler : g # h => handler'[g] = handler[g]
        /\ Verdict(h) = "rejected" => handler'[h] = Idle
        /\ Verdict(h) = "approved" => handler'[h] = [handler[h] EXCEPT !.pc = "spawn"]
    BY <1>5, Moving DEF Step, Verdict
  <2>2. Verdict(h) = "approved" => handler'[h].pc = "spawn" /\ handler'[h].request = handler[h].request
    BY <2>1 DEF TypeOK
  <2>3. /\ ~Decides(h)' /\ ~Spawns(h)
        /\ Spawns(h)' <=> Verdict(h) = "approved"
    BY <1>5, <2>1, <2>2 DEF Decides, Spawns, Idle, Verdict
  <2>4. Deciding \ {Decision(h)} \subseteq Deciding' /\ Deciding' \subseteq Deciding
    BY <1>5, <2>1, <2>3, DecisionsAfter
  <2>5. Starting' = IF Verdict(h) = "approved" THEN Starting \cup {handler[h].request} ELSE Starting
    BY <2>1, <2>2, <2>3, StartsAfter
  <2>6. Pending(handler[h].request) \/ handler[h].request \in contested
    BY <1>5 DEF Uncontested, Finds
  <2>7. Ledger!Land(Decision(h))
    BY <1>5, <2>4, <2>5, <2>6 DEF Ledger!Land, Ledger!Waiting, Pending, Decision, Resolve
  <2>8. Decision(h) \in Deciding
    BY <1>5 DEF Deciding
  <2> QED
    BY <2>7, <2>8 DEF Ledger!LedgerNext
<1>6. ASSUME NEW h \in Handler, ApproveSpawn(h)
      PROVE  Goal
  <2> DEFINE k == handler[h].request
  <2>1. /\ Spawns(h) /\ ~Decides(h) /\ Goto(h, "idle") /\ UNCHANGED <<requests, contested>>
        /\ built' = [built EXCEPT ![k] = @ + 1]
    BY <1>6 DEF ApproveSpawn, Spawns, Decides
  <2>2. (\A g \in Handler : g # h => handler'[g] = handler[g]) /\ handler'[h] = Idle
    BY <2>1, Moving DEF Step
  <2>3. ~Decides(h)' /\ ~Spawns(h)'
    BY <2>2 DEF Decides, Spawns, Idle
  <2>4. Deciding' = Deciding /\ Starting \ {k} \subseteq Starting' /\ Starting' \subseteq Starting
    BY <2>1, <2>2, <2>3, DecisionsAfter, StartsAfter
  <2>5. (built[k] = 0 /\ requests[k].status = "approved") \/ k \in contested
    BY <2>1 DEF Uncontested, Finds
  <2>6. Ledger!Start(k)
    BY <2>1, <2>4, <2>5 DEF Ledger!Start
  <2>7. k \in Starting
    BY <2>1 DEF Starting, Spawns
  <2> QED
    BY <2>6, <2>7 DEF Ledger!LedgerNext
<1>7. ASSUME NEW h \in Handler, File(h)
      PROVE  Goal
  <2>1. Goto(h, "idle") /\ handler[h].pc = "file" /\ contested' = contested
    BY <1>7 DEF File
  <2>2. CASE UNCHANGED <<requests, built>>
    BY <1>2, <2>1, <2>2
  <2>3. CASE /\ \A k \in DOMAIN requests : ~Pending(k)
             /\ requests' = Append(requests, [status |-> "pending", by |-> Nobody])
             /\ built' = Append(built, 0)
    <3>1. (\A g \in Handler : g # h => handler'[g] = handler[g]) /\ handler'[h] = Idle
      BY <2>1, Moving DEF Step
    <3>2. ~Decides(h) /\ ~Decides(h)' /\ ~Spawns(h) /\ ~Spawns(h)'
      BY <2>1, <3>1 DEF Decides, Spawns, Idle
    <3>3. Deciding' = Deciding /\ Starting' = Starting
      BY <3>1, <3>2, DecisionsAfter, StartsAfter
    <3> QED
      BY <2>1, <2>3, <3>3 DEF Ledger!LedgerNext, Ledger!Ask, Ledger!Waiting, Pending
  <2> QED
    BY <1>7, <2>2, <2>3 DEF File
<1>8. ASSUME NEW h \in Handler, CancelPending(h)
      PROVE  Goal
  <2>1. Goto(h, "idle") /\ handler[h].pc = "cancel" /\ built' = built
    BY <1>8 DEF CancelPending
  <2>2. CASE UNCHANGED <<requests, contested>>
    BY <1>2, <2>1, <2>2
  <2>3. CASE /\ requests' = [k \in DOMAIN requests |->
                   IF Pending(k) THEN [status |-> "cancelled", by |-> Nobody] ELSE requests[k]]
             /\ Contest({k \in DOMAIN requests : Pending(k)})
    <3>1. (\A g \in Handler : g # h => handler'[g] = handler[g]) /\ handler'[h] = Idle
      BY <2>1, Moving DEF Step
    <3>2. ~Decides(h) /\ ~Decides(h)' /\ ~Spawns(h) /\ ~Spawns(h)'
      BY <2>1, <3>1 DEF Decides, Spawns, Idle
    <3>3. Deciding' = Deciding /\ Starting' = Starting
      BY <3>1, <3>2, DecisionsAfter, StartsAfter
    <3>4. requests = [k \in DOMAIN requests |-> requests[k]]
      BY DEF TypeOK
    <3>5. contested' = contested \cup
                         {k \in {j \in DOMAIN requests : Pending(j)} : Ledger!Decided(k)}
      BY <2>3, ContestIs
    <3>6. CASE \A k \in DOMAIN requests : ~Pending(k)
      <4>1. requests' = requests /\ contested' = contested
        BY <2>3, <3>4, <3>5, <3>6
      <4> QED
        BY <2>1, <3>3, <4>1 DEF LedgerVars
    <3>7. CASE \E k \in DOMAIN requests : Pending(k)
      <4>1. PICK k \in DOMAIN requests : Pending(k)
        BY <3>7
      <4>2. \A j \in DOMAIN requests : Pending(j) => j = k
        BY <4>1 DEF OneWaiting
      <4>3. requests' = [requests EXCEPT ![k] = [status |-> "cancelled", by |-> Nobody]]
        BY <2>3, <3>4, <4>1, <4>2
      <4>4. contested' = IF Ledger!Decided(k) THEN contested \cup {k} ELSE contested
        BY <3>5, <4>1, <4>2
      <4>5. Ledger!Cancel(k)
        BY <2>1, <3>3, <4>1, <4>3, <4>4 DEF Ledger!Cancel, Ledger!Waiting, Pending
      <4> QED
        BY <4>1, <4>5 DEF Ledger!LedgerNext
    <3> QED
      BY <3>6, <3>7
  <2> QED
    BY <1>8, <2>2, <2>3 DEF CancelPending
<1>9. ASSUME NEW h \in Handler, Handle(h)
      PROVE  Goal
  <2>1. CASE DeployRead(h)
    BY <1>3, <2>1 DEF DeployRead
  <2>2. CASE DeployLock(h)
    BY <1>2, <2>2 DEF DeployLock
  <2>3. CASE ApproveRead(h)
    BY <1>4, <2>3 DEF ApproveRead
  <2>4. CASE ApproveConfig(h)
    BY <1>2, <2>4 DEF ApproveConfig
  <2>5. CASE ApproveLock(h)
    BY <1>2, <2>5 DEF ApproveLock
  <2>6. CASE ApproveMark(h)
    <3>1. Decides(h) /\ Verdict(h) = "approved" /\ handler[h].pc = "mark"
      BY <2>6 DEF ApproveMark, Decides, Verdict
    <3> QED
      BY <1>2, <1>5, <2>6, <3>1 DEF ApproveMark
  <2>7. CASE RejectRead(h)
    BY <1>4, <2>7 DEF RejectRead
  <2>8. CASE RejectWrite(h)
    <3>1. Decides(h) /\ Verdict(h) = "rejected" /\ handler[h].pc = "reject"
      BY <2>8 DEF RejectWrite, Decides, Verdict
    <3> QED
      BY <1>2, <1>5, <2>8, <3>1 DEF RejectWrite
  <2>9. CASE Update(h)
    <3>1. PICK p \in BOOLEAN : Begin(h, Owner, 0, IF p THEN "idle" ELSE "cancel")
      BY <2>9 DEF Update
    <3> QED
      BY <1>3, <2>9, <3>1 DEF Update
  <2>10. CASE HangUp(h)
    BY <1>2, <2>10 DEF HangUp
  <2> QED
    BY <1>6, <1>7, <1>8, <1>9, <2>1, <2>2, <2>3, <2>4, <2>5, <2>6, <2>7, <2>8, <2>9, <2>10 DEF Handle
<1>10. CASE UNCHANGED vars \/ OtherDoor \/ LockFreed
  <2>1. UNCHANGED <<requests, built, handler, contested>>
    BY <1>10 DEF vars, OtherDoor, LockFreed
  <2> QED
    BY <2>1 DEF Deciding, Decides, Decision, Starting, Verdict, LedgerVars
<1>11. CASE PanelRestart
  <2>1. \A h \in Handler : ~Decides(h)' /\ handler'[h].pc # "spawn"
    BY <1>11 DEF PanelRestart, Decides, Idle
  <2>2. Deciding' = {} /\ Starting' = {}
    BY <2>1 DEF Deciding, Starting, Decides
  <2> QED
    BY <1>1, <1>11, <2>2 DEF PanelRestart
<1> QED
  BY <1>9, <1>10, <1>11 DEF Next

\* However many administrators decide at once and whatever cuts them off, the requests
\* are the ledger: verdicts are final, an approval is another's and one build, but for
\* the requests the ledger has as contested, of which the guide promises it too.
THEOREM LedgerImplemented == Spec => LedgerKept
<1>1. Init => Ledger!LedgerInit
  <2> SUFFICES ASSUME Init
               PROVE  Ledger!LedgerInit
    OBVIOUS
  <2>1. \A h \in Handler : ~Decides(h) /\ handler[h].pc # "spawn"
    BY DEF Init, Decides, Idle
  <2>2. Deciding = {} /\ Starting = {}
    BY <2>1 DEF Deciding, Starting, Decides
  <2> QED
    BY <2>2 DEF Init, Ledger!LedgerInit
<1>2. IInv /\ [Next]_vars => [Ledger!LedgerNext]_<<requests, built, Deciding, Starting, contested>>
  BY StepIsLedgerStep DEF LedgerVars
<1> QED
  BY <1>1, <1>2, ApprovalInvariant, PTL DEF Spec, LedgerKept, Ledger!LedgerSpec, Ledger!ledgerVars

\* A request that was decided or cancelled never waits again, whoever writes to it
\* late.  When it is not contested it stays as it was decided, and it is built only
\* when it stands as approved, by an administrator other than its owner, and has not
\* been built.
VerdictsStand ==
  \A k \in DOMAIN requests :
    /\ k \in DOMAIN requests'
    /\ requests'[k].status = "pending" => requests[k].status = "pending"
    /\ k \notin contested /\ requests[k].status # "pending" => requests'[k] = requests[k]
    /\ k \notin contested /\ built'[k] # built[k] =>
         /\ requests[k].status = "approved" /\ requests[k].by # Owner
         /\ built[k] = 0 /\ built'[k] = 1

\* approve_deploy, reject_deploy and update: it is so of every ledger, and the handlers
\* keep one.
THEOREM VerdictsAreFinal == Spec => [][VerdictsStand]_vars
<1>1. ASSUME IInv, [Next]_vars
      PROVE  VerdictsStand
  <2> USE <1>1 DEF IInv, TypeOK
  <2>1. [Ledger!LedgerNext]_LedgerVars
    BY StepIsLedgerStep
  <2>2. CASE Ledger!Ask
    BY <2>2 DEF Ledger!Ask, VerdictsStand
  <2>3. CASE UNCHANGED <<requests, built>>
    BY <2>3 DEF VerdictsStand
  <2>4. CASE \E k \in DOMAIN requests : Ledger!Cancel(k)
    BY <2>4 DEF Ledger!Cancel, Ledger!Waiting, VerdictsStand
  <2>5. CASE \E d \in Deciding : Ledger!Land(d)
    <3>1. PICK h \in Handler : Decides(h) /\ Ledger!Land(Decision(h))
      BY <2>5 DEF Deciding
    <3>2. /\ handler[h].request \in DOMAIN requests /\ Verdict(h) \in {"approved", "rejected"}
      BY <3>1 DEF Verdict, InFlight, Engaged
    <3>3. /\ requests' = [requests EXCEPT ![handler[h].request] =
                            [status |-> Verdict(h), by |-> handler[h].by]]
          /\ built' = built
          /\ requests[handler[h].request].status = "pending" \/ handler[h].request \in contested
      BY <3>1 DEF Ledger!Land, Ledger!Waiting, Decision
    <3> QED
      BY <3>2, <3>3 DEF VerdictsStand
  <2>6. CASE \E k \in Starting : Ledger!Start(k)
    <3>1. PICK k \in Starting : Ledger!Start(k)
      BY <2>6
    <3>2. /\ requests' = requests /\ built' = [built EXCEPT ![k] = @ + 1]
          /\ (built[k] = 0 /\ requests[k].status = "approved") \/ k \in contested
      BY <3>1 DEF Ledger!Start
    <3>3. k \in DOMAIN requests
      BY DEF Starting, InFlight, Engaged, Spawns
    <3>4. requests[k].status = "approved" => requests[k].by # Owner
      BY <3>3 DEF ApprovalWasSpent
    <3> QED
      BY <3>2, <3>3, <3>4 DEF VerdictsStand
  <2> QED
    BY <2>1, <2>2, <2>3, <2>4, <2>5, <2>6
       DEF Ledger!LedgerNext, Ledger!Abandon, Ledger!Open, LedgerVars
<1> QED
  BY <1>1, ApprovalInvariant, PTL DEF Spec

-----------------------------------------------------------------------------
(* The one-time schedule.                                                    *)

\* The orders that may still be deployed: one that is yet to be written, the one
\* on the row, and the one the scheduler is about to deploy.
Live(o) ==
  \/ o > orders
  \/ o = armed
  \/ o = picked /\ pc \in {"selected", "clear", "trigger"}

NotRunYet == \A o \in Order : Live(o) => runs[o] = 0

\* The UPDATE before the deploy takes the order off the row.
Claimed == pc = "trigger" => armed # picked

\* ScheduleTypeOK in three parts, for the provers: what the order goes through, the flags
\* and the counters.
OrderOK ==
  /\ armed \in 0 .. orders /\ orders \in 0 .. MaxOrders
  /\ runs \in [Order -> Nat]
  /\ pc \in {"idle", "selected", "clear", "trigger", "deploying", "after"}
  /\ picked \in 0 .. orders /\ (pc # "idle" => picked # 0)

FlagsOK ==
  /\ due \in BOOLEAN /\ building \in BOOLEAN /\ other \in BOOLEAN /\ reachable \in BOOLEAN
  /\ fate \in [Order -> {"none", "takenBack", "wiped", "declined", "cutOff"}]

CountersOK ==
  strands \in 0 .. MaxStrands

OnceOnly == OrderOK /\ NotRunYet /\ Claimed /\ AtMostOnce

ScheduleInv == OnceOnly /\ FlagsOK /\ CountersOK

-----------------------------------------------------------------------------
LEMMA ScheduleInitially == ScheduleInit => ScheduleInv
<1> SUFFICES ASSUME ScheduleInit
             PROVE  ScheduleInv
  OBVIOUS
<1>1. OnceOnly
  BY ScheduleAssumption
     DEF ScheduleInit, OnceOnly, OrderOK, NotRunYet, Live, Claimed, AtMostOnce, Order
<1>2. FlagsOK
  BY DEF ScheduleInit, FlagsOK
<1>3. CountersOK
  BY ScheduleAssumption DEF ScheduleInit, CountersOK
<1> QED
  BY <1>1, <1>2, <1>3 DEF ScheduleInv

LEMMA OperatorKeeps ==
  ASSUME ScheduleInv, Operator
  PROVE  ScheduleInv'
<1> USE ScheduleAssumption DEF ScheduleInv, row, others, End
<1>1. CASE ScheduleDeploy
  <2>1. OnceOnly'
    BY <1>1
       DEF ScheduleDeploy, OnceOnly, OrderOK, NotRunYet, Live, Claimed, AtMostOnce,
           Order
  <2>2. FlagsOK'
    BY <1>1 DEF ScheduleDeploy, FlagsOK
  <2>3. CountersOK'
    BY <1>1 DEF ScheduleDeploy, CountersOK
  <2> QED
    BY <2>1, <2>2, <2>3
<1>2. CASE CancelScheduled
  <2>1. OnceOnly'
    BY <1>2
       DEF CancelScheduled, OnceOnly, OrderOK, NotRunYet, Live, Claimed, AtMostOnce,
           Order
  <2>2. FlagsOK'
    BY <1>2 DEF CancelScheduled, FlagsOK
  <2>3. CountersOK'
    BY <1>2 DEF CancelScheduled, CountersOK
  <2> QED
    BY <2>1, <2>2, <2>3
<1>3. CASE Lifecycle
  <2>1. OnceOnly'
    BY <1>3
       DEF Lifecycle, OnceOnly, OrderOK, NotRunYet, Live, Claimed, AtMostOnce, Order
  <2>2. FlagsOK'
    BY <1>3 DEF Lifecycle, FlagsOK
  <2>3. CountersOK'
    BY <1>3 DEF Lifecycle, CountersOK
  <2> QED
    BY <2>1, <2>2, <2>3
<1> QED
  BY <1>1, <1>2, <1>3 DEF Operator

LEMMA SchedulerKeeps ==
  ASSUME ScheduleInv, Scheduler
  PROVE  ScheduleInv'
<1> USE ScheduleAssumption DEF ScheduleInv, row, others, End
<1>1. CASE Select
  <2>1. OnceOnly'
    BY <1>1 DEF Select, OnceOnly, OrderOK, NotRunYet, Live, Claimed, AtMostOnce, Order
  <2>2. FlagsOK'
    BY <1>1 DEF Select, FlagsOK
  <2>3. CountersOK'
    BY <1>1 DEF Select, CountersOK
  <2> QED
    BY <2>1, <2>2, <2>3
<1>2. CASE CheckServer
  <2>1. OnceOnly'
    BY <1>2
       DEF CheckServer, OnceOnly, OrderOK, NotRunYet, Live, Claimed, AtMostOnce, Order
  <2>2. FlagsOK'
    BY <1>2 DEF CheckServer, FlagsOK
  <2>3. CountersOK'
    BY <1>2 DEF CheckServer, CountersOK
  <2> QED
    BY <2>1, <2>2, <2>3
<1>3. CASE Clear
  <2>1. OnceOnly'
    BY <1>3 DEF Clear, OnceOnly, OrderOK, NotRunYet, Live, Claimed, AtMostOnce, Order
  <2>2. FlagsOK'
    BY <1>3 DEF Clear, FlagsOK
  <2>3. CountersOK'
    BY <1>3 DEF Clear, CountersOK
  <2> QED
    BY <2>1, <2>2, <2>3
<1>4. CASE Trigger
  <2>1. OnceOnly'
    <3>1. picked \in Order /\ runs[picked] = 0
      BY <1>4
         DEF Trigger, OnceOnly, OrderOK, NotRunYet, Live, Claimed, AtMostOnce, Order
    <3>2. CASE runs' = [runs EXCEPT ![picked] = @ + 1] /\ pc' = "deploying"
      <4>1. runs' \in [Order -> Nat] /\ runs'[picked] = 1
        BY <3>1, <3>2 DEF OnceOnly, OrderOK
      <4>2. \A o \in Order : o # picked => runs'[o] = runs[o]
        BY <3>2 DEF OnceOnly, OrderOK
      <4> QED
        BY <1>4, <3>1, <3>2, <4>1, <4>2
           DEF Trigger, OnceOnly, OrderOK, NotRunYet, Live, Claimed, AtMostOnce, Order
    <3>3. CASE pc' = "idle" /\ UNCHANGED runs
      BY <1>4, <3>3
         DEF Trigger, OnceOnly, OrderOK, NotRunYet, Live, Claimed, AtMostOnce, Order
    <3> QED
      BY <1>4, <3>2, <3>3 DEF Trigger
  <2>2. FlagsOK'
    BY <1>4 DEF Trigger, FlagsOK
  <2>3. CountersOK'
    BY <1>4 DEF Trigger, CountersOK
  <2> QED
    BY <2>1, <2>2, <2>3
<1>5. CASE DeployEnds
  <2>1. OnceOnly'
    BY <1>5
       DEF DeployEnds, OnceOnly, OrderOK, NotRunYet, Live, Claimed, AtMostOnce, Order
  <2>2. FlagsOK'
    BY <1>5 DEF DeployEnds, FlagsOK, LastWrite
  <2>3. CountersOK'
    BY <1>5 DEF DeployEnds, CountersOK, LastWrite
  <2> QED
    BY <2>1, <2>2, <2>3
<1>6. CASE AfterDeploy
  <2>1. OnceOnly'
    BY <1>6
       DEF AfterDeploy, OnceOnly, OrderOK, NotRunYet, Live, Claimed, AtMostOnce, Order
  <2>2. FlagsOK'
    BY <1>6 DEF AfterDeploy, FlagsOK
  <2>3. CountersOK'
    BY <1>6 DEF AfterDeploy, CountersOK
  <2> QED
    BY <2>1, <2>2, <2>3
<1> QED
  BY <1>1, <1>2, <1>3, <1>4, <1>5, <1>6 DEF Scheduler

LEMMA EnvironmentKeeps ==
  ASSUME ScheduleInv, Environment
  PROVE  ScheduleInv'
<1> USE ScheduleAssumption DEF ScheduleInv, row, others, End
<1>1. CASE TimeComes
  <2>1. OnceOnly'
    BY <1>1
       DEF TimeComes, OnceOnly, OrderOK, NotRunYet, Live, Claimed, AtMostOnce, Order
  <2>2. FlagsOK'
    BY <1>1 DEF TimeComes, FlagsOK
  <2>3. CountersOK'
    BY <1>1 DEF TimeComes, CountersOK
  <2> QED
    BY <2>1, <2>2, <2>3
<1>2. CASE OtherBuild
  <2>1. OnceOnly'
    BY <1>2
       DEF OtherBuild, OnceOnly, OrderOK, NotRunYet, Live, Claimed, AtMostOnce, Order
  <2>2. FlagsOK'
    BY <1>2 DEF OtherBuild, FlagsOK
  <2>3. CountersOK'
    BY <1>2 DEF OtherBuild, CountersOK
  <2> QED
    BY <2>1, <2>2, <2>3
<1>3. CASE OtherEnds
  <2>1. OnceOnly'
    BY <1>3
       DEF OtherEnds, OnceOnly, OrderOK, NotRunYet, Live, Claimed, AtMostOnce, Order
  <2>2. FlagsOK'
    BY <1>3 DEF OtherEnds, FlagsOK, LastWrite
  <2>3. CountersOK'
    BY <1>3 DEF OtherEnds, CountersOK, LastWrite
  <2> QED
    BY <2>1, <2>2, <2>3
<1>4. CASE ServerComesAndGoes
  <2>1. OnceOnly'
    BY <1>4
       DEF ServerComesAndGoes, OnceOnly, OrderOK, NotRunYet, Live, Claimed, AtMostOnce, Order
  <2>2. FlagsOK'
    BY <1>4 DEF ServerComesAndGoes, FlagsOK
  <2>3. CountersOK'
    BY <1>4 DEF ServerComesAndGoes, CountersOK
  <2> QED
    BY <2>1, <2>2, <2>3
<1>5. CASE PanelDies
  <2>1. OnceOnly'
    BY <1>5
       DEF PanelDies, OnceOnly, OrderOK, NotRunYet, Live, Claimed, AtMostOnce, Order
  <2>2. FlagsOK'
    BY <1>5 DEF PanelDies, FlagsOK
  <2>3. CountersOK'
    BY <1>5 DEF PanelDies, CountersOK
  <2> QED
    BY <2>1, <2>2, <2>3
<1> QED
  BY <1>1, <1>2, <1>3, <1>4, <1>5 DEF Environment

-----------------------------------------------------------------------------
\* The invariant of the schedule and its scheduler.
THEOREM ScheduleInvariant == ScheduleSpec => []ScheduleInv
<1>1. ScheduleInv /\ UNCHANGED scheduleVars => ScheduleInv'
  BY
     DEF scheduleVars, row, others, ScheduleInv, FlagsOK, CountersOK, OnceOnly, OrderOK,
         NotRunYet, Live, Claimed, AtMostOnce
<1>2. ScheduleInv /\ [ScheduleNext]_scheduleVars => ScheduleInv'
  BY <1>1, OperatorKeeps, SchedulerKeeps, EnvironmentKeeps DEF ScheduleNext
<1> QED
  BY ScheduleInitially, <1>2, PTL DEF ScheduleSpec

\* deploy_scheduler.rs: whatever fails, restarts or is rescheduled between the
\* SELECT and the deploy, an order is never deployed twice.
THEOREM DeployedOnce == ScheduleSpec => []AtMostOnce
<1>1. ScheduleInv => AtMostOnce
  BY DEF ScheduleInv, OnceOnly
<1> QED
  BY ScheduleInvariant, <1>1, PTL

\* The row and the scheduler only hold what the code can write.
THEOREM ScheduleTyped == ScheduleSpec => []ScheduleTypeOK
<1>1. ScheduleInv => ScheduleTypeOK
  BY DEF ScheduleInv, OnceOnly, OrderOK, FlagsOK, CountersOK, ScheduleTypeOK
<1> QED
  BY ScheduleInvariant, <1>1, PTL
=============================================================================
