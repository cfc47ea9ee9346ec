-------------------------- MODULE MockttpServer_proofs --------------------------
(***************************************************************************)
(* Theorems of MockttpServer, for any number of servers, ports and         *)
(* connections: servers listen where they were asked to and searches for a *)
(* port do not clash; and each connection, whatever layers it unwraps, is  *)
(* authenticated, knows its last hop, and is reported once.                *)
(***************************************************************************)
EXTENDS MockttpServer, TLAPS

-----------------------------------------------------------------------------
(* Ports.                                                                  *)

\* Key logs that were opened: one for each try that was made, and one is ended.
LogsOK(s) ==
    /\ starting[s] = "no" => openLogs[s] = 0 /\ blamed[s] = <<>>
    /\ stopping[s] # "no" => starting[s] \in {"unmade", "resolved", "rejected"}
    /\ starting[s] # "no" /\ stopping[s] # "resolved" => openLogs[s] > 0
    /\ openLogs[s] <= Len(blamed[s]) + 1
    /\ Len(blamed[s]) <= MaxRetries

\* A server that looks for a port holds the mutex until it listens, so nobody of
\* its process listens on the port it found.
PickedOK(s) ==
    starting[s] = "picked" =>
        /\ mutex = s /\ ~fixed[s]
        /\ bound[s] \in Port
        /\ \A t \in Server : Listens(t) => bound[t] # bound[s]

\* A number is tried once, and is the port.
FixedOK(s) ==
    fixed[s] /\ starting[s] # "rejected" =>
        /\ starting[s] # "picked"
        /\ blamed[s] = <<>>
        /\ Listens(s) => bound[s] \in asked[s]

BlamesOthers(s) == ~fixed[s] => \A i \in DOMAIN blamed[s] : blamed[s][i] = "foreign"

ListeningOK(s) ==
    Listens(s) => bound[s] \notin foreign /\ \A t \in Server \ {s} : Listens(t) => bound[t] # bound[s]

LifecycleOK ==
    \A s \in Server : LogsOK(s) /\ PickedOK(s) /\ FixedOK(s) /\ BlamesOthers(s) /\ ListeningOK(s)

LifecycleInv == LifecycleTypeOK /\ LifecycleOK

LEMMA InitLifecycle == LifecycleInit => LifecycleInv
<1> SUFFICES ASSUME LifecycleInit
             PROVE  LifecycleInv
    OBVIOUS
<1>1. LifecycleTypeOK
    BY PortsAssumption DEF LifecycleInit, LifecycleTypeOK
<1>2. LifecycleOK
    BY PortsAssumption
    DEF LifecycleInit, LifecycleOK, LogsOK, PickedOK, FixedOK, BlamesOthers, ListeningOK, Listens
<1> QED BY <1>1, <1>2 DEF LifecycleInv

\* A collision is added to those before it.
LEMMA BlameAppend ==
    ASSUME NEW b \in Seq({"foreign", "own"}), NEW x \in {"foreign", "own"}
    PROVE  /\ Append(b, x) \in Seq({"foreign", "own"})
           /\ Len(Append(b, x)) = Len(b) + 1
           /\ (\A i \in DOMAIN b : b[i] = "foreign") /\ x = "foreign" =>
                  \A i \in DOMAIN Append(b, x) : Append(b, x)[i] = "foreign"
OBVIOUS

LEMMA StartKeeps ==
    ASSUME LifecycleInv, NEW s \in Server, NEW number \in BOOLEAN, NEW ports \in SUBSET Port,
           Start(s, number, ports)
    PROVE  LifecycleInv'
<1> USE PortsAssumption DEF LifecycleInv, Start, Goes
<1>1. LifecycleTypeOK'
    BY DEF LifecycleTypeOK, LifecycleOK, LogsOK
<1>2. \A t \in Server : Listens(t)' <=> Listens(t)
    BY DEF Listens, LifecycleTypeOK
<1>3. \A t \in Server : t # s =>
          /\ starting'[t] = starting[t] /\ openLogs'[t] = openLogs[t] /\ fixed'[t] = fixed[t]
          /\ asked'[t] = asked[t]
    BY DEF LifecycleTypeOK
<1>4. starting'[s] = "creating" /\ openLogs'[s] = 1 /\ blamed[s] = <<>>
    BY DEF LifecycleTypeOK, LifecycleOK, LogsOK
<1>5. ~Listens(s)
    BY DEF Listens
<1>6. LifecycleOK'
  <2> SUFFICES ASSUME NEW t \in Server
               PROVE  (LogsOK(t) /\ PickedOK(t) /\ FixedOK(t) /\ BlamesOthers(t) /\ ListeningOK(t))'
      BY DEF LifecycleOK
  <2>1. LogsOK(t)'
      BY <1>3, <1>4 DEF LifecycleOK, LogsOK
  <2>2. PickedOK(t)'
      BY <1>2, <1>3, <1>4 DEF LifecycleOK, PickedOK
  <2>3. FixedOK(t)'
      BY <1>2, <1>3, <1>4, <1>5 DEF LifecycleOK, FixedOK
  <2>4. BlamesOthers(t)'
      BY <1>3, <1>4 DEF LifecycleOK, BlamesOthers
  <2>5. ListeningOK(t)'
      BY <1>2 DEF LifecycleOK, ListeningOK
  <2> QED BY <2>1, <2>2, <2>3, <2>4, <2>5
<1> QED BY <1>1, <1>6

\* start() moves on, without a port.
LEMMA GoesKeeps ==
    ASSUME LifecycleInv, NEW s \in Server, NEW to \in {"waiting", "unmade", "rejected"},
           starting[s] \in {"creating", "waiting"}, Goes(s, to),
           UNCHANGED <<fixed, asked, bound, mutex, foreign, blamed, openLogs, stopping>>
    PROVE  LifecycleInv'
<1> USE DEF LifecycleInv, Goes
<1>1. LifecycleTypeOK'
    BY DEF LifecycleTypeOK
<1>2. \A t \in Server : Listens(t)' <=> Listens(t)
    BY DEF Listens, LifecycleTypeOK
<1>3. starting'[s] = to /\ \A t \in Server : t # s => starting'[t] = starting[t]
    BY DEF LifecycleTypeOK
<1>4. LifecycleOK'
    BY <1>2, <1>3
    DEF LifecycleOK, LogsOK, PickedOK, FixedOK, BlamesOthers, ListeningOK
<1> QED BY <1>1, <1>4

LEMMA CreatedKeeps ==
    ASSUME LifecycleInv, NEW s \in Server, Created(s)
    PROVE  LifecycleInv'
BY GoesKeeps DEF Created

LEMMA NothingToPickKeeps ==
    ASSUME LifecycleInv, NEW s \in Server, NothingToPick(s)
    PROVE  LifecycleInv'
BY GoesKeeps DEF NothingToPick

LEMMA PickKeeps ==
    ASSUME LifecycleInv, NEW s \in Server, Pick(s)
    PROVE  LifecycleInv'
<1> USE DEF LifecycleInv, Pick, Goes
<1>1. PICK p \in Port : p \notin InUse /\ bound' = [bound EXCEPT ![s] = p]
    BY DEF LifecycleTypeOK, Allowed
<1>2. LifecycleTypeOK'
    BY <1>1 DEF LifecycleTypeOK
<1>3. /\ starting'[s] = "picked" /\ bound'[s] = p
      /\ \A t \in Server : t # s => starting'[t] = starting[t] /\ bound'[t] = bound[t]
    BY <1>1 DEF LifecycleTypeOK
<1>4. ~Listens(s) /\ ~Listens(s)'
    BY <1>3 DEF Listens
<1>5. \A t \in Server : Listens(t)' <=> Listens(t)
    BY <1>3, <1>4 DEF Listens
<1>6. \A t \in Server : Listens(t) => bound[t] # p
    BY <1>1 DEF InUse, Own
<1>7. LifecycleOK'
  <2> SUFFICES ASSUME NEW t \in Server
               PROVE  (LogsOK(t) /\ PickedOK(t) /\ FixedOK(t) /\ BlamesOthers(t) /\ ListeningOK(t))'
      BY DEF LifecycleOK
  <2>1. LogsOK(t)' /\ BlamesOthers(t)'
      BY <1>3 DEF LifecycleOK, LogsOK, BlamesOthers
  <2>2. PickedOK(t)'
    <3>1. CASE t = s
        BY <1>3, <1>4, <1>5, <1>6, <3>1 DEF PickedOK
    <3>2. CASE t # s
        BY <1>3, <3>2, PortsAssumption DEF LifecycleOK, PickedOK
    <3> QED BY <3>1, <3>2
  <2>3. FixedOK(t)'
      BY <1>3, <1>4, <1>5 DEF LifecycleOK, FixedOK
  <2>4. ListeningOK(t)'
      BY <1>3, <1>4, <1>5 DEF LifecycleOK, ListeningOK
  <2> QED BY <2>1, <2>2, <2>3, <2>4
<1> QED BY <1>2, <1>7

\* s listens on a port that it was asked for, or that it found, in the mutex.
LEMMA ListenKeeps ==
    ASSUME LifecycleInv, NEW s \in Server, NEW p \in Port, Listen(s, p), mutex' = NoServer,
           \/ starting[s] = "waiting" /\ fixed[s] /\ mutex = NoServer /\ p \in asked[s]
           \/ starting[s] = "picked" /\ p = bound[s]
    PROVE  LifecycleInv'
<1> USE DEF LifecycleInv
<1>1. \A t \in Server : t # s => starting[t] # "picked"
    BY PortsAssumption DEF LifecycleOK, PickedOK
<1>2. UNCHANGED <<fixed, asked, foreign, stopping>> /\ ~Listens(s)
    BY DEF Listen, Listens
<1>3. CASE /\ p \notin InUse
           /\ bound' = [bound EXCEPT ![s] = p]
           /\ Goes(s, "resolved")
           /\ UNCHANGED <<blamed, openLogs>>
  <2>1. LifecycleTypeOK'
      BY <1>2, <1>3 DEF LifecycleTypeOK, Goes
  <2>2. /\ starting'[s] = "resolved" /\ bound'[s] = p
        /\ \A t \in Server : t # s => starting'[t] = starting[t] /\ bound'[t] = bound[t]
      BY <1>3 DEF LifecycleTypeOK, Goes
  <2>3. \A t \in Server : t # s => (Listens(t)' <=> Listens(t))
      BY <1>2, <2>2 DEF Listens
  <2>4. p \notin foreign /\ \A t \in Server : Listens(t) => bound[t] # p
      BY <1>3 DEF InUse, Own
  <2>5. LifecycleOK'
    <3> SUFFICES ASSUME NEW t \in Server
                 PROVE  (LogsOK(t) /\ PickedOK(t) /\ FixedOK(t) /\ BlamesOthers(t) /\ ListeningOK(t))'
        BY DEF LifecycleOK
    <3>1. LogsOK(t)' /\ BlamesOthers(t)'
        BY <1>2, <1>3, <2>2 DEF LifecycleOK, LogsOK, BlamesOthers
    <3>2. PickedOK(t)'
        BY <1>1, <2>2 DEF PickedOK
    <3>3. FixedOK(t)'
        BY <1>2, <1>3, <2>2, <2>3 DEF LifecycleOK, FixedOK, PickedOK
    <3>4. ListeningOK(t)'
        BY <1>2, <2>2, <2>3, <2>4 DEF LifecycleOK, ListeningOK
    <3> QED BY <3>1, <3>2, <3>3, <3>4
  <2> QED BY <2>1, <2>5
<1>4. CASE /\ p \in InUse
           /\ Len(blamed[s]) < MaxRetries
           /\ bound' = [bound EXCEPT ![s] = NoPort]
           /\ blamed' = [blamed EXCEPT ![s] =
                             Append(@, IF p \in foreign THEN "foreign" ELSE "own")]
           /\ Collide(s)
  <2> DEFINE x == IF p \in foreign THEN "foreign" ELSE "own"
             to == IF fixed[s] THEN "rejected" ELSE "creating"
             logs == IF fixed[s] THEN openLogs[s] ELSE openLogs[s] + 1
  <2>1. /\ blamed[s] \in Seq({"foreign", "own"}) /\ x \in {"foreign", "own"}
        /\ Len(blamed[s]) \in Nat /\ openLogs[s] \in Nat
        /\ openLogs[s] <= Len(blamed[s]) + 1 /\ openLogs[s] > 0 /\ stopping[s] = "no"
    <3>1. LogsOK(s) /\ starting[s] \in {"waiting", "picked"}
        BY DEF LifecycleOK
    <3>2. stopping[s] = "no" /\ openLogs[s] <= Len(blamed[s]) + 1 /\ openLogs[s] > 0
        BY <3>1 DEF LogsOK
    <3>3. blamed[s] \in Seq({"foreign", "own"}) /\ x \in {"foreign", "own"}
        BY DEF LifecycleTypeOK
    <3>4. Len(blamed[s]) \in Nat /\ openLogs[s] \in Nat
        BY <3>3, PortsAssumption DEF LifecycleTypeOK
    <3> QED BY <3>2, <3>3, <3>4
  <2>2. /\ Append(blamed[s], x) \in Seq({"foreign", "own"})
        /\ Len(Append(blamed[s], x)) = Len(blamed[s]) + 1
        /\ (\A i \in DOMAIN blamed[s] : blamed[s][i] = "foreign") /\ x = "foreign" =>
               \A i \in DOMAIN Append(blamed[s], x) : Append(blamed[s], x)[i] = "foreign"
      BY <2>1, BlameAppend
  <2>3. Goes(s, to) /\ openLogs' = [openLogs EXCEPT ![s] = logs]
      BY <1>4 DEF Collide, LifecycleTypeOK
  <2>4. logs \in Nat /\ logs > 0 /\ logs <= Len(blamed[s]) + 2 /\ logs <= MaxRetries + 1
      BY <1>4, <2>1, PortsAssumption
  <2>5. blamed' = [blamed EXCEPT ![s] = Append(blamed[s], x)]
      BY <1>4
  <2> HIDE DEF x, logs
  <2>6. blamed' \in [Server -> Seq({"foreign", "own"})]
      BY <2>2, <2>5 DEF LifecycleTypeOK
  <2>7. openLogs' \in [Server -> 0 .. MaxRetries + 1]
      BY <2>3, <2>4, PortsAssumption DEF LifecycleTypeOK
  <2>8. bound' \in [Server -> Port \cup {NoPort}] /\ mutex' \in Server \cup {NoServer}
      BY <1>4 DEF LifecycleTypeOK
  <2>9. starting' \in [Server -> {"no", "creating", "unmade", "waiting",
                                  "picked", "resolved", "rejected"}]
      BY <2>3 DEF LifecycleTypeOK, Goes
  <2>10. LifecycleTypeOK'
      BY <1>2, <2>3, <2>6, <2>7, <2>8, <2>9 DEF LifecycleTypeOK
  <2>11. /\ starting'[s] = to /\ blamed'[s] = Append(blamed[s], x) /\ openLogs'[s] = logs
         /\ \A t \in Server : t # s =>
                /\ starting'[t] = starting[t] /\ bound'[t] = bound[t]
                /\ blamed'[t] = blamed[t] /\ openLogs'[t] = openLogs[t]
      BY <1>4, <2>3, <2>5 DEF LifecycleTypeOK, Goes
  <2>12. \A t \in Server : t # s => (Listens(t)' <=> Listens(t))
      BY <1>2, <2>11 DEF Listens
  <2>13. ~Listens(s)'
      BY <2>11 DEF Listens
  <2>14. LogsOK(s)'
    <3>1. starting'[s] # "no" /\ stopping'[s] = "no"
        BY <1>2, <2>1, <2>11
    <3>2. openLogs'[s] > 0 /\ openLogs'[s] <= Len(blamed'[s]) + 1 /\ Len(blamed'[s]) <= MaxRetries
        BY <1>4, <2>1, <2>2, <2>4, <2>11, PortsAssumption
    <3> QED BY <3>1, <3>2 DEF LogsOK
  <2>15. FixedOK(s)'
      BY <1>2, <2>11 DEF LifecycleOK, FixedOK
  <2>16. BlamesOthers(s)'
    <3> SUFFICES ASSUME ~fixed[s]
                 PROVE  BlamesOthers(s)'
        BY <1>2 DEF BlamesOthers
    <3>1. p \notin Own
        BY DEF Own, LifecycleOK, PickedOK
    <3>2. x = "foreign"
        BY <1>4, <3>1 DEF InUse, x
    <3> QED BY <2>2, <2>11, <3>2 DEF LifecycleOK, BlamesOthers
  <2>17. LifecycleOK'
    <3> SUFFICES ASSUME NEW t \in Server
                 PROVE  (LogsOK(t) /\ PickedOK(t) /\ FixedOK(t) /\ BlamesOthers(t) /\ ListeningOK(t))'
        BY DEF LifecycleOK
    <3>1. PickedOK(t)'
        BY <1>1, <2>11 DEF PickedOK
    <3>2. ListeningOK(t)'
        BY <1>2, <2>11, <2>12, <2>13 DEF LifecycleOK, ListeningOK
    <3>3. CASE t = s
        BY <2>14, <2>15, <2>16, <3>1, <3>2, <3>3
    <3>4. CASE t # s
        BY <1>2, <2>3, <2>11, <2>12, <3>1, <3>2, <3>4
        DEF LifecycleOK, LogsOK, FixedOK, BlamesOthers
    <3> QED BY <3>3, <3>4
  <2> QED BY <2>10, <2>17
<1> QED BY <1>3, <1>4 DEF Listen

LEMMA ListenAtOnceKeeps ==
    ASSUME LifecycleInv, NEW s \in Server, ListenAtOnce(s)
    PROVE  LifecycleInv'
<1>1. PICK p \in asked[s] : Listen(s, p)
    BY DEF ListenAtOnce, LifecycleInv, LifecycleOK, FixedOK, Allowed
<1>2. p \in Port
    BY DEF LifecycleInv, LifecycleTypeOK
<1> QED BY <1>1, <1>2, ListenKeeps DEF ListenAtOnce

LEMMA ListenOnPickKeeps ==
    ASSUME LifecycleInv, NEW s \in Server, ListenOnPick(s)
    PROVE  LifecycleInv'
<1>1. bound[s] \in Port
    BY DEF ListenOnPick, LifecycleInv, LifecycleOK, PickedOK
<1> QED BY <1>1, ListenKeeps DEF ListenOnPick

LEMMA ForeignKeeps ==
    ASSUME LifecycleInv, NEW p \in Port, ForeignTakes(p) \/ ForeignLeaves(p)
    PROVE  LifecycleInv'
<1> USE DEF LifecycleInv
<1>1. UNCHANGED <<starting, fixed, asked, bound, mutex, blamed, openLogs, stopping>>
    BY DEF ForeignTakes, ForeignLeaves
<1>2. LifecycleTypeOK'
    BY <1>1 DEF LifecycleTypeOK, ForeignTakes, ForeignLeaves
<1>3. \A t \in Server : Listens(t)' <=> Listens(t)
    BY <1>1 DEF Listens
<1>4. \A t \in Server : Listens(t) /\ bound[t] \notin foreign => bound[t] \notin foreign'
    BY DEF ForeignTakes, ForeignLeaves, InUse, Own
<1>5. LifecycleOK'
    BY <1>1, <1>3, <1>4
    DEF LifecycleOK, LogsOK, PickedOK, FixedOK, BlamesOthers, ListeningOK
<1> QED BY <1>2, <1>5

LEMMA StopKeeps ==
    ASSUME LifecycleInv, NEW s \in Server, Stop(s) \/ Finishes(s)
    PROVE  LifecycleInv'
<1> USE DEF LifecycleInv
<1>1. UNCHANGED <<starting, fixed, asked, mutex, foreign, blamed>>
    BY DEF Stop, Finishes, Closed, Flushed
<1>2. openLogs[s] \in 0 .. MaxRetries + 1 /\ Len(blamed[s]) \in Nat /\ MaxRetries \in Nat
    BY PortsAssumption DEF LifecycleTypeOK
<1>3. starting[s] \in {"unmade", "resolved", "rejected"}
    BY DEF LifecycleOK, LogsOK, Stop, Finishes, Closed, Flushed
<1>4. /\ LifecycleTypeOK' /\ LogsOK(s)' /\ stopping'[s] # "no"
      /\ \A t \in Server : t # s => /\ stopping'[t] = stopping[t] /\ bound'[t] = bound[t]
                                    /\ openLogs'[t] = openLogs[t]
  <2>1. CASE Stop(s)
    <3>1. PICK to \in {"closing", "rejected", "flushing"} :
              stopping' = [stopping EXCEPT ![s] = to]
        BY <1>3, <2>1 DEF Stop
    <3>2. stopping'[s] = to /\ \A t \in Server : t # s => stopping'[t] = stopping[t]
        BY <3>1 DEF LifecycleTypeOK
    <3>3. UNCHANGED <<bound, openLogs>> /\ stopping[s] = "no"
        BY <2>1 DEF Stop
    <3>4. LifecycleTypeOK'
        BY <1>1, <3>1, <3>3 DEF LifecycleTypeOK
    <3>5. LogsOK(s)'
        BY <1>1, <1>3, <3>2, <3>3 DEF LifecycleOK, LogsOK
    <3> QED BY <3>2, <3>3, <3>4, <3>5
  <2>2. CASE Closed(s)
    <3>1. /\ stopping' = [stopping EXCEPT ![s] = "flushing"] /\ stopping[s] = "closing"
          /\ bound' = [bound EXCEPT ![s] = NoPort] /\ UNCHANGED openLogs
        BY <2>2 DEF Closed
    <3>2. /\ stopping'[s] = "flushing"
          /\ \A t \in Server : t # s => stopping'[t] = stopping[t] /\ bound'[t] = bound[t]
        BY <3>1 DEF LifecycleTypeOK
    <3>3. LifecycleTypeOK'
        BY <1>1, <3>1 DEF LifecycleTypeOK
    <3>4. LogsOK(s)'
        BY <1>1, <1>3, <3>1, <3>2 DEF LifecycleOK, LogsOK
    <3> QED BY <3>1, <3>2, <3>3, <3>4
  <2>3. CASE Flushed(s)
    <3>1. /\ stopping' = [stopping EXCEPT ![s] = "resolved"] /\ stopping[s] = "flushing"
          /\ openLogs' = [openLogs EXCEPT ![s] = openLogs[s] - 1] /\ UNCHANGED bound
        BY <2>3 DEF Flushed
    <3>2. /\ stopping'[s] = "resolved" /\ openLogs'[s] = openLogs[s] - 1
          /\ \A t \in Server : t # s => stopping'[t] = stopping[t] /\ openLogs'[t] = openLogs[t]
        BY <3>1 DEF LifecycleTypeOK
    <3>3. openLogs[s] > 0 /\ openLogs[s] <= Len(blamed[s]) + 1 /\ Len(blamed[s]) <= MaxRetries
        BY <1>3, <3>1 DEF LifecycleOK, LogsOK
    <3>4. openLogs[s] - 1 \in 0 .. MaxRetries + 1
        BY <1>2, <3>3
    <3>5. LifecycleTypeOK'
        BY <1>1, <3>1, <3>4 DEF LifecycleTypeOK
    <3>6. LogsOK(s)'
        BY <1>1, <1>2, <1>3, <3>2, <3>3 DEF LogsOK
    <3> QED BY <3>1, <3>2, <3>5, <3>6
  <2> QED BY <2>1, <2>2, <2>3 DEF Finishes
<1>5. \A t \in Server : Listens(t)' => Listens(t) /\ t # s
    BY <1>1, <1>4 DEF Listens
<1>6. LifecycleOK'
  <2> SUFFICES ASSUME NEW t \in Server
               PROVE  (LogsOK(t) /\ PickedOK(t) /\ FixedOK(t) /\ BlamesOthers(t) /\ ListeningOK(t))'
      BY DEF LifecycleOK
  <2>1. LogsOK(t)'
    <3>1. CASE t = s
        BY <1>4, <3>1
    <3>2. CASE t # s
        BY <1>1, <1>4, <3>2 DEF LifecycleOK, LogsOK
    <3> QED BY <3>1, <3>2
  <2>2. PickedOK(t)'
    <3>1. starting'[t] = "picked" => t # s
        BY <1>1, <1>3
    <3>2. \A u \in Server : Listens(u)' => bound'[u] = bound[u]
        BY <1>4, <1>5
    <3> QED BY <1>1, <1>4, <1>5, <3>1, <3>2 DEF LifecycleOK, PickedOK
  <2>3. FixedOK(t)' /\ BlamesOthers(t)' /\ ListeningOK(t)'
      BY <1>1, <1>4, <1>5 DEF LifecycleOK, FixedOK, BlamesOthers, ListeningOK
  <2> QED BY <2>1, <2>2, <2>3
<1> QED BY <1>4, <1>6

-----------------------------------------------------------------------------
(* Connections.                                                            *)

Stage ==
    Settled \cup SocksStage \cup
        {Stuck, "new", "sniff", "hello", "handshake", "connect", "http1", "http2",
         "unknown", "through"}

\* The last hop: what the symbols of the socket say of it, and where it may lead.
HopOK(c) ==
    /\ tunnel[c] = hop[c].tunnel
    /\ hop[c].by # "socks" => (encrypted[c] <=> hop[c].by = "tls")
    /\ stage[c] = "hello" => hop[c].by # "tls"
    /\ upstream[c].state # "none" /\ hop[c].by # "socks" => (upstream[c].tls <=> hop[c].by = "tls")
    /\ stage[c] \in SocksStage \cup {"connect"} => tunnel[c].number < MaxTunnels
    /\ upstream[c].tls => encrypted[c] /\ upstream[c].state # "none"
    /\ upstream[c].state # "none" => stage[c] \in {"through", "gone"}

Accepted(c) == \E i \in DOMAIN authMethods : used[c].by = authMethods[i]

\* The metadata that a method asks for was read.
Readable(c) == used[c].by = "no-auth" \/ used[c].said \in {"object", "other JSON"}

\* A handshake goes on with a method that the server accepts, or to be refused.
SocksOK(c) ==
    /\ stage[c] \in {"user id", "domain", "version 5", "address"} => Accepted(c) /\ Readable(c)
    /\ stage[c] \in {"username", "metadata"} => Accepted(c)
    /\ stage[c] = "password" => Accepted(c) \/ used[c].by = "wrong user"
    /\ stage[c] \notin SocksStage \cup Settled \cup {Stuck} /\ hop[c].by = "socks" =>
           Accepted(c) /\ Readable(c)

TlsFailed == <<"tls-client-error">>
ClientFailed == <<"client-error">>
BothFailed == <<"client-error", "tls-client-error">>
Opened == <<"opened">>
OpenedClosed == <<"opened", "closed">>

\* TLS that was set up is trusted, watched, or reported as dropped.
TrustOK(c) ==
    /\ watched[c] =>
           /\ kind[c] = "tls" /\ ~left[c]
           /\ stage[c] \in {"sniff", "http2"} \/ (stage[c] = "refused" /\ trusted[c])
    /\ kind[c] = "tls" /\ ~trusted[c] =>
           watched[c] \/ heard[c] = TlsFailed \/ heard[c] = BothFailed

\* Errors are handled where there is nothing left to be read.
ErrorOK(c) ==
    /\ error[c] \in {"queued", "answering"} => stage[c] \in {"http1", "unknown", "gone"}
    /\ error[c] = "announced" => stage[c] \in {"http2", "gone"}
    /\ stage[c] = "gone" => left[c]
    /\ packet[c] = arrived[c] \/ BeginsTwice(arrived[c])

\* All that can be heard of a connection, and how far it is then.
HeardOK(c) ==
    \/ heard[c] = <<>> /\ upstream[c].state = "none" /\ stage[c] # "through"
    \/ /\ heard[c] = TlsFailed /\ upstream[c].state = "none" /\ stage[c] = "gone"
       /\ error[c] \in {"queued", "answering"} => kind[c] = "tls" /\ ~trusted[c]
    \/ heard[c] = ClientFailed /\ upstream[c].state = "none" /\ error[c] = "announced"
    \/ /\ heard[c] = BothFailed /\ upstream[c].state = "none" /\ stage[c] = "gone"
       /\ error[c] = "announced"
    \/ heard[c] = Opened /\ upstream[c].state # "none" /\ stage[c] = "through" /\ ~left[c]
    \/ /\ heard[c] = OpenedClosed /\ upstream[c].state = "destroyed" /\ stage[c] = "gone"
       /\ error[c] = "none"

ConnectionOK(c) == HopOK(c) /\ SocksOK(c) /\ TrustOK(c) /\ ErrorOK(c) /\ HeardOK(c)

AuthOK ==
    authMethods \in {<<"no-auth">>, <<"custom-metadata", "user-password-metadata">>,
                     <<"user-password-metadata", "no-auth">>}

ComboInv == ComboTypeOK /\ AuthOK /\ \A c \in Connection : ConnectionOK(c)

LEMMA InitCombo == ComboInit => ComboInv
<1> SUFFICES ASSUME ComboInit
             PROVE  ComboInv
    OBVIOUS
<1>1. ComboTypeOK
  <2>1. By("nothing") \in Credential
      BY DEF By, Credential
  <2> QED BY <2>1, MaxTunnelsAssumption
      DEF ComboInit, ComboTypeOK, NoTunnel, Tunnel, NoUpstream, Settled
<1>2. AuthOK
    BY DEF ComboInit, AuthOK
<1>3. ASSUME NEW c \in Connection
      PROVE  ConnectionOK(c)
  <2>1. HopOK(c) /\ SocksOK(c) /\ TrustOK(c)
      BY DEF ComboInit, HopOK, SocksOK, TrustOK, NoUpstream, SocksStage
  <2>2. ErrorOK(c)
      BY DEF ComboInit, ErrorOK
  <2>3. HeardOK(c)
      BY DEF ComboInit, HeardOK, NoUpstream
  <2> QED BY <2>1, <2>2, <2>3 DEF ConnectionOK
<1> QED BY <1>1, <1>2, <1>3 DEF ComboInv

\* Connection d is as it was.
Same(d) ==
    /\ stage'[d] = stage[d] /\ tunnel'[d] = tunnel[d] /\ used'[d] = used[d]
    /\ hop'[d] = hop[d] /\ kind'[d] = kind[d] /\ encrypted'[d] = encrypted[d]
    /\ trusted'[d] = trusted[d] /\ watched'[d] = watched[d] /\ left'[d] = left[d]
    /\ error'[d] = error[d] /\ packet'[d] = packet[d] /\ arrived'[d] = arrived[d]
    /\ upstream'[d] = upstream[d] /\ heard'[d] = heard[d]

LEMMA SameConnection ==
    ASSUME NEW d \in Connection, ConnectionOK(d), Same(d), UNCHANGED authMethods
    PROVE  ConnectionOK(d)'
<1> USE DEF ConnectionOK, Same
<1>1. HopOK(d)'
    BY DEF HopOK
<1>2. SocksOK(d)'
    BY DEF SocksOK, Accepted, Readable
<1>3. TrustOK(d)'
    BY DEF TrustOK
<1>4. ErrorOK(d)'
    BY DEF ErrorOK
<1>5. HeardOK(d)'
    BY DEF HeardOK
<1> QED BY <1>1, <1>2, <1>3, <1>4, <1>5

\* The types of the variables of connections.  They are kept as names, since provers that
\* expand all of them at once get lost.
Stages == [Connection -> Stage]
Tunnels == [Connection -> Tunnel]
Flags == [Connection -> BOOLEAN]
Methods == [Connection -> Credential]
Hops == [Connection -> [tunnel : Tunnel, by : {"tcp", "socks", "connect", "tls"}]]
Kinds == [Connection -> {"tcp", "tls", "stream"}]
Errors == [Connection -> {"none", "queued", "answering", "announced"}]
Packets == [Connection -> Seq(Byte)]
Upstreams == [Connection ->
    [state : {"none", "connecting", "connected", "destroyed"}, tls : BOOLEAN]]
Hearings == [Connection -> Seq({"tls-client-error", "client-error", "opened", "closed"})]

LEMMA ComboTypes ==
    ComboTypeOK <=>
        /\ stage \in Stages /\ tunnel \in Tunnels /\ tagged \in Flags /\ used \in Methods
        /\ hop \in Hops /\ kind \in Kinds /\ encrypted \in Flags /\ trusted \in Flags
        /\ watched \in Flags /\ left \in Flags /\ error \in Errors /\ packet \in Packets
        /\ arrived \in Packets /\ upstream \in Upstreams /\ heard \in Hearings
<1>1. {encrypted, trusted, watched, left} \subseteq Flags <=>
          encrypted \in Flags /\ trusted \in Flags /\ watched \in Flags /\ left \in Flags
    OBVIOUS
<1> QED BY <1>1, Zenon DEF ComboTypeOK, Stages, Stage, Tunnels, Flags, Methods, Hops, Kinds,
        Errors, Packets, Upstreams, Hearings

LEMMA NextComboTypes ==
    ComboTypeOK' <=>
        /\ stage' \in Stages /\ tunnel' \in Tunnels /\ tagged' \in Flags /\ used' \in Methods
        /\ hop' \in Hops /\ kind' \in Kinds /\ encrypted' \in Flags /\ trusted' \in Flags
        /\ watched' \in Flags /\ left' \in Flags /\ error' \in Errors /\ packet' \in Packets
        /\ arrived' \in Packets /\ upstream' \in Upstreams /\ heard' \in Hearings
<1>1. {encrypted', trusted', watched', left'} \subseteq Flags <=>
          encrypted' \in Flags /\ trusted' \in Flags /\ watched' \in Flags /\ left' \in Flags
    OBVIOUS
<1> QED BY <1>1, Zenon DEF ComboTypeOK, Stages, Stage, Tunnels, Flags, Methods, Hops, Kinds,
        Errors, Packets, Upstreams, Hearings

LEMMA OneConnection ==
    ASSUME ComboInv, ComboTypeOK', UNCHANGED authMethods, NEW c \in Connection,
           \A d \in Connection \ {c} : Same(d), ConnectionOK(c)'
    PROVE  ComboInv'
<1>1. \A d \in Connection : ConnectionOK(d)'
    BY SameConnection DEF ComboInv
<1> QED BY <1>1 DEF ComboInv, AuthOK

-----------------------------------------------------------------------------
(* SOCKS handshakes.                                                       *)

\* The method that is chosen is one of the server's.
LEMMA PreferredIsAccepted ==
    ASSUME AuthOK, NEW offered, NEW k \in DOMAIN authMethods, authMethods[k] \in offered
    PROVE  /\ Preferred(offered) \in AuthMethod
           /\ \E i \in DOMAIN authMethods : Preferred(offered) = authMethods[i]
<1> DEFINE fits == {i \in DOMAIN authMethods : authMethods[i] \in offered}
<1>1. DOMAIN authMethods \subseteq {1, 2} /\ \A i \in DOMAIN authMethods : authMethods[i] \in AuthMethod
    BY DEF AuthOK, AuthMethod
<1>2. \E i \in fits : \A j \in fits : i <= j
  <2>1. CASE 1 \in fits
      BY <1>1, <2>1
  <2>2. CASE 1 \notin fits
      BY <1>1, <2>2
  <2> QED BY <2>1, <2>2
<1>3. (CHOOSE i \in fits : \A j \in fits : i <= j) \in fits
    BY <1>2
<1> QED BY <1>1, <1>3 DEF Preferred

\* Nothing but the symbols of SOCKS changes.
ReadsPart(c) ==
    /\ stage' \in [Connection -> Stage]
    /\ tunnel' \in [Connection -> Tunnel]
    /\ tagged' \in [Connection -> BOOLEAN]
    /\ used' \in [Connection -> Credential]
    /\ hop' \in [Connection -> [tunnel : Tunnel, by : {"tcp", "socks", "connect", "tls"}]]
    /\ \A d \in Connection \ {c} :
           /\ stage'[d] = stage[d] /\ tunnel'[d] = tunnel[d] /\ used'[d] = used[d]
           /\ hop'[d] = hop[d]
    /\ stage[c] \in SocksStage
    /\ UNCHANGED authMethods
    /\ SocksOK(c)'
    /\ \/ /\ stage'[c] \in SocksStage \cup {"refused", Stuck}
          /\ tunnel'[c] = tunnel[c] /\ hop'[c] = hop[c]
       \/ /\ stage'[c] = "sniff"
          /\ hop'[c].tunnel = tunnel'[c] /\ hop'[c].by = "socks"

\* Only the stage changes, and how the client authenticated.
LEMMA ReadsInHandshake ==
    ASSUME ComboInv, NEW c \in Connection, stage[c] \in SocksStage,
           NEW to \in SocksStage \cup {"refused", Stuck}, Moves(c, to),
           NEW how \in Credential,
           used' = [used EXCEPT ![c] = how],
           to \in {"user id", "domain", "username", "metadata", "version 5", "address"} =>
               \E i \in DOMAIN authMethods : how.by = authMethods[i],
           to \in {"user id", "domain", "version 5", "address"} =>
               how.by = "no-auth" \/ how.said \in {"object", "other JSON"},
           to = "password" =>
               (\E i \in DOMAIN authMethods : how.by = authMethods[i]) \/ how.by = "wrong user",
           tagged' \in [Connection -> BOOLEAN],
           UNCHANGED <<authMethods, tunnel, hop>>
    PROVE  ReadsPart(c)
<1>1. /\ stage \in [Connection -> Stage] /\ to \in Stage
      /\ used \in [Connection -> Credential]
      /\ tunnel \in [Connection -> Tunnel]
      /\ hop \in [Connection -> [tunnel : Tunnel, by : {"tcp", "socks", "connect", "tls"}]]
    BY DEF ComboInv, ComboTypeOK, Stage, Settled
<1>2. /\ stage'[c] = to /\ used'[c] = how
      /\ \A d \in Connection \ {c} : stage'[d] = stage[d] /\ used'[d] = used[d]
      /\ stage' \in [Connection -> Stage]
      /\ used' \in [Connection -> Credential]
    BY <1>1 DEF Moves
<1>3. SocksOK(c)'
  <2>1. to \in SocksStage \cup Settled \cup {Stuck}
      BY DEF Settled
  <2> QED BY <1>2, <2>1 DEF SocksOK, Accepted, Readable
<1> QED BY <1>1, <1>2, <1>3 DEF ReadsPart

LEMMA RefusedInHandshake ==
    ASSUME ComboInv, NEW c \in Connection, stage[c] \in SocksStage, Moves(c, "refused"),
           UNCHANGED <<authMethods, tunnel, tagged, used, hop>>
    PROVE  ReadsPart(c)
<1>1. /\ used[c] \in Credential
      /\ used' = [used EXCEPT ![c] = used[c]]
      /\ tagged' \in [Connection -> BOOLEAN]
    BY DEF ComboInv, ComboTypeOK
<1>2. "refused" \in SocksStage \cup {"refused", Stuck}
    OBVIOUS
<1>3. /\ "refused" \notin {"user id", "domain", "username", "metadata", "version 5", "address"}
      /\ "refused" # "password"
    OBVIOUS
<1> QED BY <1>1, <1>2, <1>3, ReadsInHandshake, Zenon

LEMMA NextNumber ==
    ASSUME NEW t \in Tunnel, t.number < MaxTunnels, NEW text \in {"any", "missing", "garbled"}
    PROVE  [number |-> t.number + 1, port |-> text] \in Tunnel
<1>1. t.number \in 0..MaxTunnels
    BY DEF Tunnel
<1>2. t.number + 1 \in 0..MaxTunnels
    BY <1>1, MaxTunnelsAssumption
<1> QED BY <1>2 DEF Tunnel

LEMMA HopRecord ==
    ASSUME NEW t \in Tunnel, NEW b \in {"tcp", "socks", "connect", "tls"}
    PROVE  /\ [tunnel |-> t, by |-> b].tunnel = t /\ [tunnel |-> t, by |-> b].by = b
           /\ [tunnel |-> t, by |-> b] \in [tunnel : Tunnel, by : {"tcp", "socks", "connect", "tls"}]
OBVIOUS

LEMMA ReadsTheAddress ==
    ASSUME ComboInv, NEW c \in Connection, stage[c] \in {"user id", "domain", "address"},
           SocksTcpConnect(c), UNCHANGED <<authMethods, tagged, used>>
    PROVE  ReadsPart(c)
<1> DEFINE next == NextTunnel(c, "any")
<1>1. /\ stage \in [Connection -> Stage] /\ "sniff" \in Stage
      /\ used \in [Connection -> Credential]
      /\ tagged \in [Connection -> BOOLEAN]
      /\ tunnel \in [Connection -> Tunnel]
      /\ hop \in [Connection -> [tunnel : Tunnel, by : {"tcp", "socks", "connect", "tls"}]]
    BY DEF ComboInv, ComboTypeOK, Stage, Settled
<1>2. stage[c] \in SocksStage /\ HopOK(c) /\ SocksOK(c)
    BY DEF SocksStage, ComboInv, ConnectionOK
<1>3. next \in Tunnel
    BY <1>1, <1>2, NextNumber DEF HopOK, NextTunnel
<1> HIDE DEF next
<1>4. /\ [tunnel |-> next, by |-> "socks"] \in
             [tunnel : Tunnel, by : {"tcp", "socks", "connect", "tls"}]
      /\ [tunnel |-> next, by |-> "socks"].tunnel = next
      /\ [tunnel |-> next, by |-> "socks"].by = "socks"
    BY <1>3, HopRecord
<1>5. /\ stage' = [stage EXCEPT ![c] = "sniff"]
      /\ tunnel' = [tunnel EXCEPT ![c] = next]
      /\ hop' = [hop EXCEPT ![c] = [tunnel |-> next, by |-> "socks"]]
    BY DEF SocksTcpConnect, Moves, next
<1>6. /\ stage'[c] = "sniff" /\ tunnel'[c] = next
      /\ hop'[c] = [tunnel |-> next, by |-> "socks"]
      /\ \A d \in Connection \ {c} :
             stage'[d] = stage[d] /\ tunnel'[d] = tunnel[d] /\ hop'[d] = hop[d]
      /\ stage' \in [Connection -> Stage] /\ tunnel' \in [Connection -> Tunnel]
      /\ hop' \in [Connection -> [tunnel : Tunnel, by : {"tcp", "socks", "connect", "tls"}]]
    BY <1>1, <1>3, <1>4, <1>5
<1>7. SocksOK(c)'
    BY <1>2, <1>6 DEF SocksOK, Accepted, Readable
<1>8. hop'[c].tunnel = tunnel'[c] /\ hop'[c].by = "socks"
    BY <1>4, <1>6, Zenon
<1> QED BY <1>1, <1>2, <1>6, <1>7, <1>8, Zenon DEF ReadsPart

LEMMA HandshakeReads ==
    ASSUME ComboInv, NEW c \in Connection, ReadPart(c) \/ ReadNothing(c)
    PROVE  ReadsPart(c)
<1>1. /\ used \in [Connection -> Credential]
      /\ used[c] \in Credential
      /\ used = [used EXCEPT ![c] = used[c]]
      /\ tagged \in [Connection -> BOOLEAN]
      /\ AuthOK /\ SocksOK(c)
    BY DEF ComboInv, ComboTypeOK, ConnectionOK
<1>2. {"version 4", "user id", "domain", "methods", "username", "password", "metadata",
       "version 5", "address", "refused", Stuck} = SocksStage \cup {"refused", Stuck}
    BY DEF SocksStage
<1>3. \A method \in AuthMethod :
          By(method) \in Credential /\ By(method).by = method /\ By(method).said = "nothing"
    BY DEF By, Credential
<1>4. ASSUME NEW text, GetSocketMetadata(c, text)
      PROVE  tagged' \in [Connection -> BOOLEAN]
    BY <1>1, <1>4 DEF GetSocketMetadata
<1>5. CASE ReadVersion4(c)
  <2>1. CASE Moves(c, "refused") /\ UNCHANGED used
      BY <1>5, <2>1, RefusedInHandshake DEF ReadVersion4, SocksStage
  <2>2. CASE /\ "no-auth" \in {authMethods[i] : i \in DOMAIN authMethods}
             /\ Moves(c, "user id") /\ used' = [used EXCEPT ![c] = By("no-auth")]
    <3>1. /\ By("no-auth") \in Credential /\ By("no-auth").by = "no-auth"
          /\ \E i \in DOMAIN authMethods : By("no-auth").by = authMethods[i]
        BY <1>3, <2>2 DEF AuthMethod
    <3>2. stage[c] \in SocksStage /\ UNCHANGED <<authMethods, tunnel, tagged, hop>>
        BY <1>5 DEF ReadVersion4, SocksStage
    <3> QED BY <1>1, <1>2, <2>2, <3>1, <3>2, ReadsInHandshake
  <2> QED BY <1>5, <2>1, <2>2 DEF ReadVersion4
<1>6. CASE ReadUserId(c)
  <2>1. CASE Moves(c, "domain") /\ UNCHANGED <<tunnel, hop>>
      BY <1>1, <1>2, <1>6, <2>1, ReadsInHandshake DEF ReadUserId, SocksOK, SocksStage, Accepted, Readable
  <2>2. CASE SocksTcpConnect(c)
      BY <1>6, <2>2, ReadsTheAddress DEF ReadUserId
  <2> QED BY <1>6, <2>1, <2>2 DEF ReadUserId
<1>7. CASE ReadDomain(c) \/ ReadAddress(c)
    BY <1>7, ReadsTheAddress DEF ReadDomain, ReadAddress
<1>8. CASE ReadMethods(c)
  <2>1. CASE Moves(c, "refused") /\ UNCHANGED used
      BY <1>8, <2>1, RefusedInHandshake DEF ReadMethods, SocksStage
  <2>2. ASSUME NEW offered \in SUBSET AuthMethod, NEW method, method = Preferred(offered),
               ~(\A i \in DOMAIN authMethods : authMethods[i] \notin offered),
               Moves(c, CASE method = "no-auth" -> "version 5"
                          [] method = "user-password-metadata" -> "username"
                          [] method = "custom-metadata" -> "metadata"),
               used' = [used EXCEPT ![c] = By(method)]
        PROVE  ReadsPart(c)
    <3>1. method \in AuthMethod /\ \E i \in DOMAIN authMethods : method = authMethods[i]
        BY <1>1, <2>2, PreferredIsAccepted
    <3>2. PICK to \in {"version 5", "username", "metadata"} :
              Moves(c, to) /\ (to = "version 5" => By(method).by = "no-auth")
        BY <1>3, <2>2, <3>1 DEF AuthMethod
    <3>3. to \in SocksStage \cup {"refused", Stuck} /\ to # "password"
        BY DEF SocksStage
    <3>4. stage[c] \in SocksStage /\ UNCHANGED <<authMethods, tunnel, tagged, hop>>
        BY <1>8 DEF ReadMethods, SocksStage
    <3>5. By(method) \in Credential /\ By(method).by = method
        BY <1>3, <3>1
    <3>6. \E i \in DOMAIN authMethods : By(method).by = authMethods[i]
        BY <3>1, <3>5
    <3> QED BY <1>1, <2>2, <3>2, <3>3, <3>4, <3>5, <3>6, ReadsInHandshake
  <2> QED BY <1>8, <2>1, <2>2 DEF ReadMethods
<1>9. CASE ReadUsername(c)
  <2>1. PICK how \in {used[c], [used[c] EXCEPT !.by = "wrong user"]} :
            used' = [used EXCEPT ![c] = how]
      BY <1>1, <1>9 DEF ReadUsername
  <2>2. Accepted(c) /\ stage[c] \in SocksStage /\ Moves(c, "password")
        /\ UNCHANGED <<authMethods, tunnel, tagged, hop>>
      BY <1>1, <1>9 DEF ReadUsername, SocksOK, SocksStage
  <2>3. /\ how \in Credential /\ "password" \in SocksStage
        /\ how.by = used[c].by \/ how.by = "wrong user"
        /\ "password" \notin {"user id", "domain", "username", "metadata", "version 5", "address"}
      BY <1>1 DEF SocksStage, Credential
  <2> QED BY <1>1, <2>1, <2>2, <2>3, ReadsInHandshake DEF Accepted
<1>10. CASE ReadPassword(c) \/ ReadMetadata(c)
  <2>1. stage[c] \in SocksStage /\ UNCHANGED <<authMethods, tunnel, hop>>
      BY <1>10 DEF ReadPassword, ReadMetadata, SocksStage
  <2>2. PICK text \in {"object", "other JSON", "no JSON"} :
            /\ used' = [used EXCEPT ![c].said = text]
            /\ \/ Moves(c, "refused") /\ UNCHANGED tagged
               \/ /\ Moves(c, "version 5") /\ GetSocketMetadata(c, text) /\ Accepted(c)
                  /\ text # "no JSON"
    <3>1. CASE ReadPassword(c)
        BY <1>1, <3>1 DEF ReadPassword, SocksOK
    <3>2. CASE ReadMetadata(c)
        BY <1>1, <3>2 DEF ReadMetadata, SocksOK
    <3> QED BY <1>10, <3>1, <3>2
  <2> DEFINE how == [used[c] EXCEPT !.said = text]
  <2>3. how \in Credential /\ how.by = used[c].by /\ how.said = text
      BY <1>1 DEF Credential
  <2>4. used' = [used EXCEPT ![c] = how]
      BY <2>2
  <2> HIDE DEF how
  <2>5. CASE Moves(c, "refused") /\ UNCHANGED tagged
    <3>1. /\ "refused" \notin {"user id", "domain", "username", "metadata", "version 5", "address"}
          /\ "refused" # "password"
        OBVIOUS
    <3> QED BY <1>1, <1>2, <2>1, <2>3, <2>4, <2>5, <3>1, ReadsInHandshake
  <2>6. CASE Moves(c, "version 5") /\ GetSocketMetadata(c, text) /\ Accepted(c) /\ text # "no JSON"
    <3>1. /\ \E i \in DOMAIN authMethods : how.by = authMethods[i]
          /\ how.said \in {"object", "other JSON"}
        BY <2>3, <2>6 DEF Accepted
    <3> QED BY <1>1, <1>2, <1>4, <2>1, <2>3, <2>4, <2>6, <3>1, ReadsInHandshake
  <2> QED BY <2>2, <2>5, <2>6
<1>11. CASE ReadVersion5(c)
  <2>1. PICK to \in {"address", "refused"} : Moves(c, to)
      BY <1>11 DEF ReadVersion5
  <2>2. /\ stage[c] \in SocksStage /\ Accepted(c) /\ Readable(c) /\ to \in SocksStage \cup {"refused", Stuck}
        /\ to # "password" /\ UNCHANGED <<authMethods, tunnel, tagged, used, hop>>
      BY <1>1, <1>11 DEF ReadVersion5, SocksOK, SocksStage
  <2> QED BY <1>1, <2>1, <2>2, ReadsInHandshake DEF Accepted, Readable
<1>12. CASE ReadNothing(c)
  <2>1. /\ stage[c] \in SocksStage /\ Moves(c, Stuck)
        /\ UNCHANGED <<authMethods, tunnel, tagged, used, hop>>
      BY <1>12 DEF ReadNothing, SocksStage
  <2>2. Stuck \notin {"user id", "domain", "username", "metadata", "version 5", "address",
                      "password"}
      BY DEF Stuck
  <2> QED BY <1>1, <2>1, <2>2, ReadsInHandshake
<1> QED BY <1>5, <1>6, <1>7, <1>8, <1>9, <1>10, <1>11, <1>12 DEF ReadPart

LEMMA HandshakeKeeps ==
    ASSUME ComboInv, NEW c \in Connection, Handshake(c)
    PROVE  ComboInv'
<1>1. ReadsPart(c)
    BY HandshakeReads DEF Handshake
<1>2. ~left[c] /\ UNCHANGED <<tlsVars, left, errorVars, upstream, heard>>
    BY DEF Handshake
<1>3. UNCHANGED <<kind, encrypted, trusted, watched, left, error, packet, arrived, upstream, heard>>
    BY <1>2 DEF tlsVars, errorVars
<1>4. ComboTypeOK'
  <2>1. stage' \in Stages /\ tunnel' \in Tunnels /\ tagged' \in Flags /\ used' \in Methods /\ hop' \in Hops
      BY <1>1 DEF Stages, Tunnels, Flags, Methods, Hops, ReadsPart
  <2> QED BY <1>3, <1>1, <2>1, ComboTypes, NextComboTypes DEF ComboInv, ReadsPart
<1>5. \A d \in Connection \ {c} : Same(d)
    BY <1>1, <1>3 DEF ReadsPart, Same
<1>6. /\ stage[c] \in SocksStage /\ stage'[c] \in SocksStage \cup {"refused", Stuck, "sniff"}
      /\ HopOK(c) /\ TrustOK(c) /\ ErrorOK(c) /\ HeardOK(c)
    BY <1>1 DEF ReadsPart, ComboInv, ConnectionOK
<1>7. /\ upstream[c].state = "none" /\ heard[c] = <<>> /\ error[c] = "none" /\ ~watched[c]
      /\ ~upstream[c].tls
  <2>1. upstream[c].state = "none"
      BY <1>6 DEF HopOK, SocksStage
  <2>2. error[c] = "none"
      BY <1>6 DEF ErrorOK, SocksStage, ComboInv, ComboTypeOK
  <2>3. heard[c] = <<>>
      BY <1>6, <2>1, <2>2 DEF HeardOK, SocksStage
  <2>4. ~watched[c]
      BY <1>6 DEF TrustOK, SocksStage
  <2> QED BY <1>6, <2>1, <2>2, <2>3, <2>4 DEF HopOK
<1>8. HopOK(c)'
    BY <1>1, <1>3, <1>6, <1>7 DEF HopOK, ReadsPart, SocksStage, Stuck
<1>9. SocksOK(c)'
    BY <1>1 DEF ReadsPart
<1>10. TrustOK(c)'
    BY <1>3, <1>6, <1>7 DEF TrustOK
<1>11. ErrorOK(c)'
    BY <1>3, <1>6, <1>7 DEF ErrorOK, SocksStage, Stuck
<1>12. HeardOK(c)'
    BY <1>3, <1>6, <1>7 DEF HeardOK, SocksStage, Stuck
<1>13. ConnectionOK(c)'
    BY <1>8, <1>9, <1>10, <1>11, <1>12 DEF ConnectionOK
<1> QED BY <1>1, <1>4, <1>5, <1>13, OneConnection DEF ReadsPart

-----------------------------------------------------------------------------
(* Layers: sniffing, TLS and CONNECT.                                      *)

\* Before a connection is passed through, and without an error, nothing was said.
LEMMA NothingSaid ==
    ASSUME ComboInv, NEW c \in Connection, stage[c] \notin {"through", "gone"}
    PROVE  /\ upstream[c].state = "none" /\ ~upstream[c].tls
           /\ stage[c] \notin {"http1", "unknown", "http2"} => error[c] = "none"
           /\ error[c] = "none" => heard[c] = <<>>
           /\ error[c] # "announced" => heard[c] = <<>>
           /\ stage[c] \notin {"sniff", "http2", "refused"} => ~watched[c]
           /\ kind[c] = "tls" /\ ~watched[c] /\ heard[c] = <<>> => trusted[c]
<1>1. ConnectionOK(c) /\ error[c] \in {"none", "queued", "answering", "announced"}
      /\ kind[c] \in {"tcp", "tls", "stream"}
    BY DEF ComboInv, ComboTypeOK
<1>2. upstream[c].state = "none" /\ ~upstream[c].tls
    BY <1>1 DEF ConnectionOK, HopOK
<1>3. stage[c] \notin {"http1", "unknown", "http2"} => error[c] = "none"
    BY <1>1 DEF ConnectionOK, ErrorOK
<1>4. error[c] # "announced" => heard[c] = <<>>
    BY <1>1, <1>2 DEF ConnectionOK, HeardOK
<1>5. stage[c] \notin {"sniff", "http2", "refused"} => ~watched[c]
    BY <1>1 DEF ConnectionOK, TrustOK
<1>6. kind[c] = "tls" /\ ~watched[c] /\ heard[c] = <<>> => trusted[c]
    BY <1>1 DEF ConnectionOK, TrustOK, TlsFailed, BothFailed
<1> QED BY <1>2, <1>3, <1>4, <1>5, <1>6

\* A step of a connection that nothing was said of, and nothing is said in it.
LEMMA QuietStep ==
    ASSUME ComboInv, ComboTypeOK', NEW c \in Connection,
           stage[c] \notin {"through", "gone"}, error[c] = "none",
           stage'[c] # "through", stage'[c] = "gone" => left'[c],
           \A d \in Connection \ {c} : Same(d),
           UNCHANGED <<authMethods, error, packet, arrived, upstream, heard>>,
           HopOK(c)', SocksOK(c)', TrustOK(c)'
    PROVE  ComboInv'
<1>1. upstream[c].state = "none" /\ heard[c] = <<>>
    BY NothingSaid
<1>2. HeardOK(c)'
    BY <1>1 DEF HeardOK
<1>3. ErrorOK(c)'
    BY DEF ErrorOK, ComboInv, ConnectionOK
<1>4. ConnectionOK(c)'
    BY <1>2, <1>3 DEF ConnectionOK
<1> QED BY <1>4, OneConnection

\* The socket is handed on as it is.
LEMMA StageMoves ==
    ASSUME ComboInv, NEW c \in Connection, stage[c] \in {"new", "hello", "http1", "http2"},
           error[c] = "none",
           NEW to \in {"sniff", "handshake", "refused", "connect"}, Moves(c, to),
           to = "connect" => tunnel[c].number < MaxTunnels,
           watched[c] => to = "refused" /\ trusted[c],
           UNCHANGED <<authMethods, tunnel, tagged, used, hop, tlsVars, left, errorVars,
                       upstream, heard>>
    PROVE  ComboInv'
<1>1. UNCHANGED <<authMethods, tunnel, tagged, used, hop, kind, encrypted, trusted, watched, left,
                  error, packet, arrived, upstream, heard>>
    BY DEF tlsVars, errorVars
<1>2. stage \in [Connection -> Stage] /\ to \in Stage
    BY DEF ComboInv, ComboTypeOK, Stage, Settled
<1>3. /\ stage' \in [Connection -> Stage] /\ stage'[c] = to
      /\ \A d \in Connection \ {c} : stage'[d] = stage[d]
    BY <1>2 DEF Moves
<1>4. ComboTypeOK'
  <2>1. stage' \in Stages
      BY <1>3 DEF Stages
  <2> QED BY <1>1, <2>1, ComboTypes, NextComboTypes DEF ComboInv
<1>5. \A d \in Connection \ {c} : Same(d)
    BY <1>1, <1>3 DEF Same
<1>6. ConnectionOK(c) /\ upstream[c].state = "none"
    BY NothingSaid DEF ComboInv
<1>7. HopOK(c)'
    BY <1>1, <1>3, <1>6 DEF ConnectionOK, HopOK, SocksStage
<1>8. SocksOK(c)'
    BY <1>1, <1>3, <1>6 DEF ConnectionOK, SocksOK, SocksStage, Settled, Stuck, Accepted, Readable
<1>9. TrustOK(c)'
    BY <1>1, <1>3, <1>6 DEF ConnectionOK, TrustOK
<1> QED BY <1>1, <1>3, <1>4, <1>5, <1>7, <1>8, <1>9, QuietStep

LEMMA ConnectKeeps ==
    ASSUME ComboInv, NEW c \in Connection, Connect(c)
    PROVE  ComboInv'
BY NothingSaid, StageMoves DEF Connect

LEMMA H1ConnectKeeps ==
    ASSUME ComboInv, NEW c \in Connection, H1Connect(c)
    PROVE  ComboInv'
BY NothingSaid, StageMoves DEF H1Connect

\* Data on the socket shows that TLS is trusted.
LEMMA SeeDataTrusts ==
    ASSUME ComboInv, NEW c \in Connection, SeeData(c)
    PROVE  /\ trusted' \in [Connection -> BOOLEAN] /\ watched' \in [Connection -> BOOLEAN]
           /\ UNCHANGED <<kind, encrypted>>
           /\ ~watched'[c] /\ (trusted'[c] <=> trusted[c] \/ watched[c])
           /\ \A d \in Connection \ {c} : trusted'[d] = trusted[d] /\ watched'[d] = watched[d]
           /\ stage[c] = "sniff" /\ kind[c] = "tls" => trusted'[c]
<1>1. trusted \in [Connection -> BOOLEAN] /\ watched \in [Connection -> BOOLEAN]
    BY DEF ComboInv, ComboTypeOK
<1>2. (trusted[c] \/ watched[c]) \in BOOLEAN
    BY <1>1, Zenon
<1>3. trusted' = [trusted EXCEPT ![c] = trusted[c] \/ watched[c]]
    BY DEF SeeData
<1>4. /\ trusted' \in [Connection -> BOOLEAN] /\ trusted'[c] = (trusted[c] \/ watched[c])
      /\ \A d \in Connection \ {c} : trusted'[d] = trusted[d]
    BY <1>1, <1>2, <1>3, Zenon
<1>5. /\ watched' \in [Connection -> BOOLEAN] /\ ~watched'[c]
      /\ \A d \in Connection \ {c} : watched'[d] = watched[d]
    BY <1>1 DEF SeeData
<1>6. stage[c] = "sniff" /\ kind[c] = "tls" => trusted[c] \/ watched[c]
    BY NothingSaid
<1> QED BY <1>4, <1>5, <1>6 DEF SeeData

LEMMA SniffKeeps ==
    ASSUME ComboInv, NEW c \in Connection, Sniff(c)
    PROVE  ComboInv'
<1>1. PICK to \in {"version 4", "methods", "hello", "http1", "http2"} :
          /\ Moves(c, to)
          /\ to \in {"version 4", "methods"} => tunnel[c].number < MaxTunnels
          /\ to = "hello" => hop[c].by # "tls"
    BY DEF Sniff
<1>2. /\ UNCHANGED <<authMethods, tunnel, tagged, used, hop, left, error, packet, arrived,
                     upstream, heard>>
      /\ stage[c] = "sniff" /\ SeeData(c)
    BY DEF Sniff, errorVars
<1>3. stage \in [Connection -> Stage] /\ to \in Stage
    BY DEF ComboInv, ComboTypeOK, Stage, SocksStage
<1>4. /\ stage' \in [Connection -> Stage] /\ stage'[c] = to
      /\ \A d \in Connection \ {c} : stage'[d] = stage[d]
    BY <1>1, <1>3 DEF Moves
<1>5. ComboTypeOK'
  <2>1. stage' \in Stages
      BY <1>4 DEF Stages
  <2>2. trusted' \in Flags /\ watched' \in Flags
      BY <1>2, SeeDataTrusts DEF Flags
  <2> QED BY <1>2, SeeDataTrusts, <2>1, <2>2, ComboTypes, NextComboTypes DEF ComboInv
<1>6. \A d \in Connection \ {c} : Same(d)
    BY <1>2, <1>4, SeeDataTrusts DEF Same
<1>7. ConnectionOK(c) /\ upstream[c].state = "none" /\ error[c] = "none"
    BY <1>2, NothingSaid DEF ComboInv
<1>8. HopOK(c)'
    BY <1>1, <1>2, <1>4, <1>7, SeeDataTrusts DEF ConnectionOK, HopOK, SocksStage
<1>9. SocksOK(c)'
    BY <1>2, <1>4, <1>7 DEF ConnectionOK, SocksOK, SocksStage, Settled, Stuck, Accepted, Readable
<1>10. TrustOK(c)'
    BY <1>2, <1>4, SeeDataTrusts DEF TrustOK
<1> QED BY <1>2, <1>4, <1>5, <1>6, <1>7, <1>8, <1>9, <1>10, QuietStep

LEMMA SecureKeeps ==
    ASSUME ComboInv, NEW c \in Connection, Secure(c)
    PROVE  ComboInv'
<1>1. PICK to \in {"sniff", "http2"} : Moves(c, to)
    BY DEF Secure
<1>2. /\ UNCHANGED <<authMethods, tunnel, tagged, used, left, error, packet, arrived,
                     upstream, heard>>
      /\ stage[c] = "handshake" /\ ~left[c]
    BY DEF Secure, Inherit, errorVars
<1>3. stage \in [Connection -> Stage] /\ to \in Stage
    BY DEF ComboInv, ComboTypeOK, Stage
<1>4. /\ stage' \in [Connection -> Stage] /\ stage'[c] = to
      /\ \A d \in Connection \ {c} : stage'[d] = stage[d]
    BY <1>1, <1>3 DEF Moves
<1>5. /\ hop' \in [Connection -> [tunnel : Tunnel, by : {"tcp", "socks", "connect", "tls"}]]
      /\ hop'[c].by = "tls" /\ hop'[c].tunnel = hop[c].tunnel
      /\ \A d \in Connection \ {c} : hop'[d] = hop[d]
  <2>1. /\ hop \in [Connection -> [tunnel : Tunnel, by : {"tcp", "socks", "connect", "tls"}]]
        /\ hop' = [hop EXCEPT ![c].by = "tls"]
      BY DEF Secure, ComboInv, ComboTypeOK
  <2> QED BY <2>1
<1>6. /\ kind' \in [Connection -> {"tcp", "tls", "stream"}] /\ kind'[c] = "tls"
      /\ encrypted' \in [Connection -> BOOLEAN] /\ encrypted'[c]
      /\ trusted' \in [Connection -> BOOLEAN] /\ watched' \in [Connection -> BOOLEAN] /\ watched'[c]
      /\ \A d \in Connection \ {c} :
             /\ kind'[d] = kind[d] /\ encrypted'[d] = encrypted[d]
             /\ trusted'[d] = trusted[d] /\ watched'[d] = watched[d]
    BY DEF Secure, ComboInv, ComboTypeOK
<1>7. ComboTypeOK'
  <2>1. stage' \in Stages
      BY <1>4 DEF Stages
  <2>2. hop' \in Hops
      BY <1>5 DEF Hops
  <2>3. kind' \in Kinds /\ encrypted' \in Flags /\ trusted' \in Flags /\ watched' \in Flags
      BY <1>6 DEF Kinds, Flags
  <2> QED BY <1>2, <2>1, <2>2, <2>3, ComboTypes, NextComboTypes DEF ComboInv
<1>8. \A d \in Connection \ {c} : Same(d)
    BY <1>2, <1>4, <1>5, <1>6 DEF Same
<1>9. ConnectionOK(c) /\ upstream[c].state = "none" /\ ~upstream[c].tls /\ error[c] = "none"
    BY <1>2, NothingSaid DEF ComboInv
<1>10. HopOK(c)'
    BY <1>2, <1>4, <1>5, <1>6, <1>9 DEF ConnectionOK, HopOK, SocksStage
<1>11. SocksOK(c)'
    BY <1>4, <1>5 DEF SocksOK
<1>12. TrustOK(c)'
    BY <1>2, <1>4, <1>6 DEF TrustOK
<1> QED BY <1>2, <1>4, <1>7, <1>8, <1>9, <1>10, <1>11, <1>12, QuietStep

LEMMA TrustKeeps ==
    ASSUME ComboInv, NEW c \in Connection, TrustInTime(c) \/ RemoteSettings(c)
    PROVE  ComboInv'
<1>1. UNCHANGED <<authMethods, stage, tunnel, tagged, used, hop, kind, encrypted, left,
                  error, packet, arrived, upstream, heard>>
    BY DEF TrustInTime, RemoteSettings, socksVars, errorVars
<1>2. /\ trusted' \in [Connection -> BOOLEAN] /\ trusted'[c]
      /\ watched' \in [Connection -> BOOLEAN] /\ (watched'[c] => watched[c])
      /\ \A d \in Connection \ {c} : trusted'[d] = trusted[d] /\ watched'[d] = watched[d]
    BY DEF TrustInTime, RemoteSettings, ComboInv, ComboTypeOK
<1>3. ComboTypeOK'
  <2>1. trusted' \in Flags /\ watched' \in Flags
      BY <1>2 DEF Flags
  <2> QED BY <1>1, <2>1, ComboTypes, NextComboTypes DEF ComboInv
<1>4. \A d \in Connection \ {c} : Same(d)
    BY <1>1, <1>2 DEF Same
<1>5. ConnectionOK(c) /\ stage[c] \in {"sniff", "http2", "refused"}
    BY DEF ComboInv, ConnectionOK, TrustOK, TrustInTime, RemoteSettings
<1>6. HopOK(c)' /\ SocksOK(c)'
    BY <1>1, <1>5 DEF ConnectionOK, HopOK, SocksOK, Accepted, Readable
<1>7. TrustOK(c)'
    BY <1>1, <1>2, <1>5 DEF ConnectionOK, TrustOK
<1>8. ErrorOK(c)' /\ HeardOK(c)'
  <2>1. ErrorOK(c)'
      BY <1>1, <1>5 DEF ConnectionOK, ErrorOK
  <2>2. HeardOK(c)'
      BY <1>1, <1>5 DEF ConnectionOK, HeardOK
  <2> QED BY <2>1, <2>2
<1> QED BY <1>1, <1>3, <1>4, <1>6, <1>7, <1>8, OneConnection DEF ConnectionOK

\* A tunnel is opened by a CONNECT.
LEMMA TunnelledKeeps ==
    ASSUME ComboInv, NEW c \in Connection, tunnel[c].number < MaxTunnels,
           NEW port \in {"any", "missing", "garbled"}, NEW metadata \in BOOLEAN,
           Tunnelled(c, port, metadata)
    PROVE  /\ tunnel' \in [Connection -> Tunnel] /\ tagged' \in [Connection -> BOOLEAN]
           /\ hop' \in [Connection -> [tunnel : Tunnel, by : {"tcp", "socks", "connect", "tls"}]]
           /\ encrypted' \in [Connection -> BOOLEAN]
           /\ hop'[c].tunnel = tunnel'[c] /\ hop'[c].by = "connect" /\ ~encrypted'[c]
           /\ \A d \in Connection \ {c} :
                  tunnel'[d] = tunnel[d] /\ hop'[d] = hop[d] /\ encrypted'[d] = encrypted[d]
<1> DEFINE next == NextTunnel(c, port)
<1>1. /\ tunnel \in [Connection -> Tunnel] /\ tagged \in [Connection -> BOOLEAN]
      /\ hop \in [Connection -> [tunnel : Tunnel, by : {"tcp", "socks", "connect", "tls"}]]
      /\ encrypted \in [Connection -> BOOLEAN]
    BY DEF ComboInv, ComboTypeOK
<1>2. next \in Tunnel
    BY <1>1, NextNumber DEF NextTunnel
<1>3. /\ tunnel' = [tunnel EXCEPT ![c] = next]
      /\ hop' = [hop EXCEPT ![c] = [tunnel |-> next, by |-> "connect"]]
      /\ encrypted' = [encrypted EXCEPT ![c] = FALSE]
      /\ tagged' = [tagged EXCEPT ![c] = tagged[c] \/ metadata]
    BY DEF Tunnelled
<1> HIDE DEF next
<1>4. /\ [tunnel |-> next, by |-> "connect"] \in
             [tunnel : Tunnel, by : {"tcp", "socks", "connect", "tls"}]
      /\ [tunnel |-> next, by |-> "connect"].tunnel = next
      /\ [tunnel |-> next, by |-> "connect"].by = "connect"
    BY <1>2, HopRecord
<1>5. /\ tunnel' \in [Connection -> Tunnel] /\ tunnel'[c] = next
      /\ hop' \in [Connection -> [tunnel : Tunnel, by : {"tcp", "socks", "connect", "tls"}]]
      /\ hop'[c] = [tunnel |-> next, by |-> "connect"]
      /\ \A d \in Connection \ {c} : tunnel'[d] = tunnel[d] /\ hop'[d] = hop[d]
    BY <1>1, <1>2, <1>3, <1>4
<1>6. /\ encrypted' \in [Connection -> BOOLEAN] /\ ~encrypted'[c]
      /\ \A d \in Connection \ {c} : encrypted'[d] = encrypted[d]
    BY <1>1, <1>3
<1>7. (tagged[c] \/ metadata) \in BOOLEAN
    BY <1>1, Zenon
<1>8. tagged' \in [Connection -> BOOLEAN]
    BY <1>1, <1>3, <1>7, Zenon
<1> QED BY <1>4, <1>5, <1>6, <1>8, Zenon

LEMMA H1ConnectedKeeps ==
    ASSUME ComboInv, NEW c \in Connection, H1Connected(c)
    PROVE  ComboInv'
<1>1. ConnectionOK(c) /\ stage[c] = "connect"
    BY DEF H1Connected, ComboInv
<1>2. PICK port \in {"any", "missing", "garbled"}, metadata \in BOOLEAN :
          Tunnelled(c, port, metadata)
    BY DEF H1Connected
<1>3. tunnel[c].number < MaxTunnels
    BY <1>1 DEF ConnectionOK, HopOK
<1>4. /\ tunnel' \in [Connection -> Tunnel] /\ tagged' \in [Connection -> BOOLEAN]
      /\ hop' \in [Connection -> [tunnel : Tunnel, by : {"tcp", "socks", "connect", "tls"}]]
      /\ encrypted' \in [Connection -> BOOLEAN]
      /\ hop'[c].tunnel = tunnel'[c] /\ hop'[c].by = "connect" /\ ~encrypted'[c]
      /\ \A d \in Connection \ {c} :
             tunnel'[d] = tunnel[d] /\ hop'[d] = hop[d] /\ encrypted'[d] = encrypted[d]
    BY <1>2, <1>3, TunnelledKeeps
<1>5. PICK to \in {"gone", "sniff"} : Moves(c, to) /\ (to = "gone" => left[c])
    BY DEF H1Connected
<1>6. stage \in [Connection -> Stage] /\ to \in Stage
    BY DEF ComboInv, ComboTypeOK, Stage, Settled
<1>7. /\ stage' \in [Connection -> Stage] /\ stage'[c] = to
      /\ \A d \in Connection \ {c} : stage'[d] = stage[d]
    BY <1>5, <1>6 DEF Moves
<1>8. UNCHANGED <<authMethods, used, kind, trusted, watched, left, error, packet, arrived,
                  upstream, heard>>
    BY DEF H1Connected, errorVars
<1>9. ComboTypeOK'
  <2>1. tunnel' \in Tunnels /\ tagged' \in Flags /\ hop' \in Hops /\ encrypted' \in Flags
      BY <1>4 DEF Tunnels, Flags, Hops
  <2>2. stage' \in Stages
      BY <1>7 DEF Stages
  <2> QED BY <1>8, <2>1, <2>2, ComboTypes, NextComboTypes DEF ComboInv
<1>10. \A d \in Connection \ {c} : Same(d)
    BY <1>4, <1>7, <1>8 DEF Same
<1>11. upstream[c].state = "none" /\ ~upstream[c].tls /\ error[c] = "none" /\ ~watched[c]
    BY <1>1, NothingSaid
<1>12. HopOK(c)'
    BY <1>4, <1>7, <1>8, <1>11 DEF HopOK, SocksStage
<1>13. SocksOK(c)'
    BY <1>4, <1>7 DEF SocksOK
<1>14. TrustOK(c)'
    BY <1>1, <1>8, <1>11 DEF ConnectionOK, TrustOK
<1> QED BY <1>1, <1>5, <1>7, <1>8, <1>9, <1>10, <1>11, <1>12, <1>13, <1>14, QuietStep

LEMMA H2ConnectKeeps ==
    ASSUME ComboInv, NEW c \in Connection, H2Connect(c)
    PROVE  ComboInv'
<1>1. /\ ConnectionOK(c) /\ stage[c] = "http2" /\ error[c] = "none" /\ trusted[c]
      /\ tunnel[c].number < MaxTunnels
    BY DEF H2Connect, ComboInv
<1>2. CASE /\ Moves(c, "refused")
           /\ UNCHANGED <<tunnel, tagged, hop, kind, encrypted, trusted, watched>>
    BY <1>1, <1>2, StageMoves DEF H2Connect, tlsVars
<1>3. ASSUME NEW port \in {"any", "missing", "garbled"}, NEW metadata \in BOOLEAN,
             Tunnelled(c, port, metadata), Moves(c, "sniff"),
             kind' = [kind EXCEPT ![c] = "stream"],
             trusted' = [trusted EXCEPT ![c] = FALSE],
             watched' = [watched EXCEPT ![c] = FALSE]
      PROVE  ComboInv'
  <2>1. /\ tunnel' \in [Connection -> Tunnel] /\ tagged' \in [Connection -> BOOLEAN]
        /\ hop' \in [Connection -> [tunnel : Tunnel, by : {"tcp", "socks", "connect", "tls"}]]
        /\ encrypted' \in [Connection -> BOOLEAN]
        /\ hop'[c].tunnel = tunnel'[c] /\ hop'[c].by = "connect" /\ ~encrypted'[c]
        /\ \A d \in Connection \ {c} :
               tunnel'[d] = tunnel[d] /\ hop'[d] = hop[d] /\ encrypted'[d] = encrypted[d]
      BY <1>1, <1>3, TunnelledKeeps
  <2>2. stage \in [Connection -> Stage] /\ "sniff" \in Stage
      BY DEF ComboInv, ComboTypeOK, Stage
  <2>3. /\ stage' \in [Connection -> Stage] /\ stage'[c] = "sniff"
        /\ \A d \in Connection \ {c} : stage'[d] = stage[d]
      BY <1>3, <2>2 DEF Moves
  <2>4. /\ kind' \in [Connection -> {"tcp", "tls", "stream"}] /\ kind'[c] = "stream"
        /\ trusted' \in [Connection -> BOOLEAN]
        /\ watched' \in [Connection -> BOOLEAN] /\ ~watched'[c]
        /\ \A d \in Connection \ {c} :
               kind'[d] = kind[d] /\ trusted'[d] = trusted[d] /\ watched'[d] = watched[d]
      BY <1>3 DEF ComboInv, ComboTypeOK
  <2>5. UNCHANGED <<authMethods, used, left, error, packet, arrived, upstream, heard>>
      BY DEF H2Connect, errorVars
  <2>6. ComboTypeOK'
    <3>1. tunnel' \in Tunnels /\ tagged' \in Flags /\ hop' \in Hops /\ encrypted' \in Flags
        BY <2>1 DEF Tunnels, Flags, Hops
    <3>2. stage' \in Stages
        BY <2>3 DEF Stages
    <3>3. kind' \in Kinds /\ trusted' \in Flags /\ watched' \in Flags
        BY <2>4 DEF Kinds, Flags
    <3> QED BY <2>5, <3>1, <3>2, <3>3, ComboTypes, NextComboTypes DEF ComboInv
  <2>7. \A d \in Connection \ {c} : Same(d)
      BY <2>1, <2>3, <2>4, <2>5 DEF Same
  <2>8. upstream[c].state = "none" /\ ~upstream[c].tls
      BY <1>1, NothingSaid
  <2>9. HopOK(c)'
      BY <2>1, <2>3, <2>5, <2>8 DEF HopOK, SocksStage
  <2>10. SocksOK(c)'
      BY <2>1, <2>3 DEF SocksOK
  <2>11. TrustOK(c)'
      BY <2>4 DEF TrustOK
  <2> QED BY <1>1, <2>3, <2>5, <2>6, <2>7, <2>9, <2>10, <2>11, QuietStep
<1> QED BY <1>2, <1>3 DEF H2Connect

-----------------------------------------------------------------------------
(* What is told of a connection, and the packets of its errors.            *)

LEMMA TellHears ==
    ASSUME ComboInv, NEW c \in Connection,
           NEW event \in {"tls-client-error", "client-error", "opened", "closed"}, Tell(c, event)
    PROVE  /\ heard' \in [Connection -> Seq({"tls-client-error", "client-error", "opened", "closed"})]
           /\ heard'[c] = Append(heard[c], event)
           /\ \A d \in Connection \ {c} : heard'[d] = heard[d]
<1>1. heard \in [Connection -> Seq({"tls-client-error", "client-error", "opened", "closed"})]
    BY DEF ComboInv, ComboTypeOK
<1>2. heard[c] \in Seq({"tls-client-error", "client-error", "opened", "closed"})
    BY <1>1
<1>3. Append(heard[c], event) \in Seq({"tls-client-error", "client-error", "opened", "closed"})
    BY <1>2
<1> QED BY <1>1, <1>3 DEF Tell

\* Data that begins twice does so when more is added.
LEMMA BeginsTwiceStays ==
    ASSUME NEW data \in Seq(Byte), NEW chunk \in Seq(Byte), BeginsTwice(data)
    PROVE  BeginsTwice(data \o chunk)
<1>1. PICK k \in 1 .. Len(data) : 2 * k <= Len(data) /\ \A i \in 1..k : data[i] = data[k + i]
    BY DEF BeginsTwice
<1> DEFINE all == data \o chunk
<1>2. Len(all) = Len(data) + Len(chunk) /\ \A i \in 1 .. Len(data) : all[i] = data[i]
    OBVIOUS
<1> HIDE DEF all
<1>3. k \in 1 .. Len(all) /\ 2 * k <= Len(all)
    BY <1>1, <1>2
<1>4. ASSUME NEW i \in 1..k
      PROVE  all[i] = all[k + i]
  <2>1. i \in 1 .. Len(data) /\ k + i \in 1 .. Len(data)
      BY <1>1
  <2> QED BY <1>1, <1>2, <2>1
<1>5. BeginsTwice(all)
    BY <1>3, <1>4 DEF BeginsTwice
<1> QED BY <1>5 DEF all

\* A chunk that begins with the data so far makes it begin twice.
LEMMA RepeatedData ==
    ASSUME NEW data \in Seq(Byte), NEW chunk \in Seq(Byte), data # <<>>, IsPrefix(data, chunk)
    PROVE  BeginsTwice(data \o chunk)
<1> DEFINE k == Len(data)
           all == data \o chunk
<1>1. k <= Len(chunk) /\ SubSeq(data, 1, k) = SubSeq(chunk, 1, k) /\ k \in Nat /\ k # 0
    BY DEF IsPrefix
<1>2. \A i \in 1..k : SubSeq(data, 1, k)[i] = data[i] /\ SubSeq(chunk, 1, k)[i] = chunk[i]
    BY <1>1
<1>3. \A i \in 1..k : data[i] = chunk[i]
    BY <1>1, <1>2
<1>4. /\ Len(all) = k + Len(chunk)
      /\ \A i \in 1..k : all[i] = data[i]
      /\ \A i \in 1 .. Len(chunk) : all[k + i] = chunk[i]
    OBVIOUS
<1> HIDE DEF k, all
<1>5. k \in 1 .. Len(all) /\ 2 * k <= Len(all)
    BY <1>1, <1>4 DEF k
<1>6. \A i \in 1..k : all[i] = all[k + i]
    BY <1>1, <1>3, <1>4 DEF k
<1>7. BeginsTwice(all)
    BY <1>5, <1>6 DEF BeginsTwice
<1> QED BY <1>7 DEF all

LEMMA BeginsWithItself ==
    ASSUME NEW data \in Seq(Byte), NEW chunk \in Seq(Byte)
    PROVE  IsPrefix(data, data \o chunk)
<1> DEFINE n == Len(data)
           all == data \o chunk
<1>1. all \in Seq(Byte) /\ n \in Nat /\ n <= Len(all) /\ \A i \in 1..n : all[i] = data[i]
    OBVIOUS
<1> HIDE DEF all
<1>2. SubSeq(data, 1, n) = SubSeq(all, 1, n)
    BY <1>1
<1> QED BY <1>1, <1>2 DEF IsPrefix, all

\* Whether an error repeats the data so far or not, all of it is in the packet.
LEMMA AccumulateAll ==
    ASSUME NEW old \in Seq(Byte), NEW data \in Seq(Byte), NEW chunk \in Seq(Byte),
           old = data \/ BeginsTwice(data),
           NEW new, new = data \o chunk \/ new = chunk
    PROVE  /\ Accumulate(old, new) \in Seq(Byte)
           /\ Accumulate(old, new) = data \o chunk \/ BeginsTwice(data \o chunk)
<1>1. data \o chunk \in Seq(Byte) /\ new \in Seq(Byte) /\ old \o new \in Seq(Byte)
  <2>1. data \o chunk \in Seq(Byte)
      OBVIOUS
  <2>2. new \in Seq(Byte)
      BY <2>1
  <2> QED BY <2>1, <2>2
<1>2. Accumulate(old, new) \in Seq(Byte)
    BY <1>1 DEF Accumulate
<1>3. CASE BeginsTwice(data)
    BY <1>2, <1>3, BeginsTwiceStays
<1>4. CASE old = data /\ new = data \o chunk
    BY <1>2, <1>4, BeginsWithItself DEF Accumulate
<1>5. CASE old = data /\ new = chunk
  <2>1. CASE IsPrefix(data, chunk) /\ data # <<>>
      BY <1>2, <2>1, RepeatedData
  <2>2. CASE data = <<>>
    <3>1. data \o chunk = chunk
        BY <2>2
    <3> QED BY <1>2, <1>5, <3>1, <2>2, BeginsWithItself DEF Accumulate
  <2>3. CASE ~IsPrefix(data, chunk)
      BY <1>2, <1>5, <2>3 DEF Accumulate
  <2> QED BY <2>1, <2>2, <2>3
<1> QED BY <1>3, <1>4, <1>5

\* Errors of one socket add to its packet, and are handled together.
LEMMA ErrorIsRaised ==
    ASSUME ComboInv, NEW c \in Connection, NEW content \in {"nothing", "whole", "rest"},
           RaiseError(c, content)
    PROVE  /\ error' \in [Connection -> {"none", "queued", "answering", "announced"}]
           /\ packet' \in [Connection -> Seq(Byte)] /\ arrived' \in [Connection -> Seq(Byte)]
           /\ packet'[c] = arrived'[c] \/ BeginsTwice(arrived'[c])
           /\ error'[c] = (IF error[c] = "none" THEN "queued" ELSE error[c])
           /\ \A d \in Connection \ {c} :
                  error'[d] = error[d] /\ packet'[d] = packet[d] /\ arrived'[d] = arrived[d]
<1>1. /\ error \in [Connection -> {"none", "queued", "answering", "announced"}]
      /\ packet \in [Connection -> Seq(Byte)] /\ arrived \in [Connection -> Seq(Byte)]
      /\ packet[c] = arrived[c] \/ BeginsTwice(arrived[c])
    BY DEF ComboInv, ComboTypeOK, ConnectionOK, ErrorOK
<1>2. /\ error' \in [Connection -> {"none", "queued", "answering", "announced"}]
      /\ error'[c] = (IF error[c] = "none" THEN "queued" ELSE error[c])
      /\ \A d \in Connection \ {c} : error'[d] = error[d]
    BY <1>1 DEF RaiseError
<1>3. CASE UNCHANGED <<packet, arrived>>
    BY <1>1, <1>2, <1>3
<1>4. ASSUME NEW chunk \in Chunk, NEW all, all = arrived[c] \o chunk,
             NEW new, new = all \/ new = chunk,
             arrived' = [arrived EXCEPT ![c] = all],
             packet' = [packet EXCEPT ![c] = Accumulate(packet[c], new)]
      PROVE  /\ packet' \in [Connection -> Seq(Byte)] /\ arrived' \in [Connection -> Seq(Byte)]
             /\ packet'[c] = arrived'[c] \/ BeginsTwice(arrived'[c])
             /\ \A d \in Connection \ {c} : packet'[d] = packet[d] /\ arrived'[d] = arrived[d]
  <2>1. /\ chunk \in Seq(Byte) /\ arrived[c] \in Seq(Byte) /\ packet[c] \in Seq(Byte)
        /\ all \in Seq(Byte)
      BY <1>1, <1>4, ChunkAssumption
  <2>2. /\ Accumulate(packet[c], new) \in Seq(Byte)
        /\ Accumulate(packet[c], new) = all \/ BeginsTwice(all)
      BY <1>1, <1>4, <2>1, AccumulateAll
  <2> QED BY <1>1, <1>4, <2>1, <2>2, Zenon
<1>5. CASE \E chunk \in Chunk :
               LET all == arrived[c] \o chunk
                   new == IF content = "whole" THEN all ELSE chunk
               IN  /\ Len(all) <= MaxBytes
                   /\ arrived' = [arrived EXCEPT ![c] = all]
                   /\ packet' = [packet EXCEPT ![c] = Accumulate(packet[c], new)]
  <2>1. PICK chunk \in Chunk :
            LET all == arrived[c] \o chunk
                new == IF content = "whole" THEN all ELSE chunk
            IN  /\ arrived' = [arrived EXCEPT ![c] = all]
                /\ packet' = [packet EXCEPT ![c] = Accumulate(packet[c], new)]
      BY <1>5, Zenon
  <2>2. PICK all, new :
            /\ all = arrived[c] \o chunk /\ (new = all \/ new = chunk)
            /\ arrived' = [arrived EXCEPT ![c] = all]
            /\ packet' = [packet EXCEPT ![c] = Accumulate(packet[c], new)]
    <3> WITNESS arrived[c] \o chunk, IF content = "whole" THEN arrived[c] \o chunk ELSE chunk
    <3> QED BY <2>1, Zenon
  <2> QED BY <1>2, <1>4, <2>2, Zenon
<1> QED BY <1>3, <1>5 DEF RaiseError

\* An error where HTTP/1 is read, or of bytes that nobody knows, is queued.
LEMMA InvalidHttp1Keeps ==
    ASSUME ComboInv, NEW c \in Connection, InvalidHttp1(c)
    PROVE  ComboInv'
<1>1. PICK content \in {"nothing", "whole", "rest"} : RaiseError(c, content)
    BY DEF InvalidHttp1
<1>2. /\ UNCHANGED <<authMethods, stage, tunnel, tagged, used, hop, kind, encrypted, trusted,
                     watched, left, upstream, heard>>
      /\ stage[c] = "http1" /\ error[c] # "announced"
    BY DEF InvalidHttp1, socksVars, tlsVars
<1>3. /\ error' \in [Connection -> {"none", "queued", "answering", "announced"}]
      /\ packet' \in [Connection -> Seq(Byte)] /\ arrived' \in [Connection -> Seq(Byte)]
      /\ packet'[c] = arrived'[c] \/ BeginsTwice(arrived'[c])
      /\ error'[c] = (IF error[c] = "none" THEN "queued" ELSE error[c])
      /\ \A d \in Connection \ {c} :
             error'[d] = error[d] /\ packet'[d] = packet[d] /\ arrived'[d] = arrived[d]
    BY <1>1, ErrorIsRaised
<1>4. ComboTypeOK'
  <2>1. error' \in Errors /\ packet' \in Packets /\ arrived' \in Packets
      BY <1>3 DEF Errors, Packets
  <2> QED BY <1>2, <2>1, ComboTypes, NextComboTypes DEF ComboInv
<1>5. \A d \in Connection \ {c} : Same(d)
    BY <1>2, <1>3 DEF Same
<1>6. ConnectionOK(c) /\ upstream[c].state = "none" /\ heard[c] = <<>>
    BY <1>2, NothingSaid DEF ComboInv
<1>7. HopOK(c)' /\ SocksOK(c)' /\ TrustOK(c)'
    BY <1>2, <1>6 DEF ConnectionOK, HopOK, SocksOK, TrustOK, Accepted, Readable
<1>8. ErrorOK(c)'
    BY <1>2, <1>3, <1>6 DEF ErrorOK
<1>9. HeardOK(c)'
    BY <1>2, <1>6 DEF HeardOK
<1> QED BY <1>2, <1>4, <1>5, <1>7, <1>8, <1>9, OneConnection DEF ConnectionOK

\* What is known of TLS stays, and it is not watched any more after data.
TrustStays(c) ==
    /\ trusted' \in [Connection -> BOOLEAN] /\ watched' \in [Connection -> BOOLEAN]
    /\ UNCHANGED <<kind, encrypted>>
    /\ ~watched'[c] /\ (kind[c] = "tls" => trusted'[c])
    /\ \A d \in Connection \ {c} : trusted'[d] = trusted[d] /\ watched'[d] = watched[d]

\* A socket is passed through, or reset, before anything was said of it.
LEMMA PassThroughKeeps ==
    ASSUME ComboInv, NEW c \in Connection, stage[c] \in {"sniff", "hello"},
           NEW type \in {"raw", "tls"}, PassThrough(c, type), TrustStays(c),
           type = "tls" => stage[c] = "hello",
           UNCHANGED <<authMethods, tunnel, tagged, used, hop, error, packet, arrived>>
    PROVE  ComboInv'
<1>1. /\ ConnectionOK(c) /\ upstream[c].state = "none" /\ ~upstream[c].tls
      /\ error[c] = "none" /\ heard[c] = <<>>
    BY NothingSaid DEF ComboInv
<1>2. \A to \in {"gone", "through"} : Moves(c, to) =>
          /\ stage' \in [Connection -> Stage] /\ stage'[c] = to
          /\ \A d \in Connection \ {c} : stage'[d] = stage[d]
  <2>1. stage \in [Connection -> Stage] /\ {"gone", "through"} \subseteq Stage
      BY DEF ComboInv, ComboTypeOK, Stage, Settled
  <2> QED BY <2>1 DEF Moves
<1>3. SocksOK(c)
    BY <1>1 DEF ConnectionOK
<1>4. SocksOK(c)' /\ TrustOK(c)'
  <2>1. stage'[c] \in {"gone", "through"}
      BY <1>2 DEF PassThrough
  <2>2. SocksOK(c)'
      BY <1>3, <2>1 DEF SocksOK, SocksStage, Settled, Stuck, Accepted, Readable
  <2>3. TrustOK(c)'
      BY DEF TrustStays, TrustOK
  <2> QED BY <2>2, <2>3
<1>5. CASE /\ Moves(c, "gone") /\ left' = [left EXCEPT ![c] = TRUE]
           /\ UNCHANGED <<upstream, heard>>
  <2>1. /\ left' \in [Connection -> BOOLEAN] /\ left'[c]
        /\ \A d \in Connection \ {c} : left'[d] = left[d]
      BY <1>5 DEF ComboInv, ComboTypeOK
  <2>2. ComboTypeOK'
    <3>1. stage' \in Stages
        BY <1>2, <1>5 DEF Stages
    <3>2. left' \in Flags
        BY <2>1 DEF Flags
    <3>3. trusted' \in Flags /\ watched' \in Flags
        BY DEF Flags, TrustStays
    <3> QED BY <1>5, <3>1, <3>2, <3>3, ComboTypes, NextComboTypes DEF ComboInv, TrustStays
  <2>3. \A d \in Connection \ {c} : Same(d)
      BY <1>2, <1>5, <2>1 DEF Same, TrustStays
  <2>4. HopOK(c)'
      BY <1>1, <1>2, <1>5 DEF ConnectionOK, HopOK, SocksStage, TrustStays
  <2>5. stage'[c] = "gone"
      BY <1>2, <1>5
  <2> QED BY <1>1, <1>4, <1>5, <2>1, <2>2, <2>3, <2>4, <2>5, QuietStep
<1>6. CASE /\ ~left[c] /\ UNCHANGED left /\ Moves(c, "through")
           /\ upstream' = [upstream EXCEPT ![c] =
                  [state |-> "connecting", tls |-> type = "raw" /\ encrypted[c]]]
           /\ Tell(c, "opened")
  <2> DEFINE made == [state |-> "connecting", tls |-> type = "raw" /\ encrypted[c]]
             UpstreamType ==
                 [state : {"none", "connecting", "connected", "destroyed"}, tls : BOOLEAN]
  <2>1. (type = "raw" /\ encrypted[c]) \in BOOLEAN
      BY Zenon DEF ComboInv, ComboTypeOK
  <2>2. /\ made \in UpstreamType /\ made.state = "connecting"
        /\ made.tls <=> type = "raw" /\ encrypted[c]
      BY <2>1
  <2>3. upstream \in [Connection -> UpstreamType] /\ upstream' = [upstream EXCEPT ![c] = made]
      BY <1>6 DEF ComboInv, ComboTypeOK
  <2> HIDE DEF made, UpstreamType
  <2>4. /\ upstream' \in [Connection -> UpstreamType] /\ upstream'[c] = made
        /\ \A d \in Connection \ {c} : upstream'[d] = upstream[d]
      BY <2>2, <2>3, Zenon
  <2> USE DEF UpstreamType
  <2>5. /\ heard' \in [Connection -> Seq({"tls-client-error", "client-error", "opened", "closed"})]
        /\ heard'[c] = Opened
        /\ \A d \in Connection \ {c} : heard'[d] = heard[d]
      BY <1>1, <1>6, TellHears DEF Opened
  <2>6. ComboTypeOK'
    <3>1. stage' \in Stages
        BY <1>2, <1>6 DEF Stages
    <3>2. trusted' \in Flags /\ watched' \in Flags
        BY DEF Flags, TrustStays
    <3>3. upstream' \in Upstreams
        BY <2>4 DEF Upstreams
    <3>4. heard' \in Hearings
        BY <2>5 DEF Hearings
    <3> QED BY <1>6, <3>1, <3>2, <3>3, <3>4, ComboTypes, NextComboTypes DEF ComboInv, TrustStays
  <2>7. \A d \in Connection \ {c} : Same(d)
      BY <1>2, <1>6, <2>4, <2>5 DEF Same, TrustStays
  <2>8. HopOK(c)'
      BY <1>1, <1>2, <1>6, <2>2, <2>4 DEF ConnectionOK, HopOK, SocksStage, TrustStays
  <2>9. ErrorOK(c)'
      BY <1>1, <1>2, <1>6 DEF ConnectionOK, ErrorOK
  <2>10. HeardOK(c)'
      BY <1>2, <1>6, <2>2, <2>4, <2>5 DEF HeardOK
  <2> QED BY <1>4, <2>6, <2>7, <2>8, <2>9, <2>10, OneConnection DEF ConnectionOK
<1> QED BY <1>5, <1>6 DEF PassThrough

LEMMA SniffUnknownKeeps ==
    ASSUME ComboInv, NEW c \in Connection, SniffUnknown(c)
    PROVE  ComboInv'
<1>1. /\ UNCHANGED <<authMethods, tunnel, tagged, used, hop>>
      /\ stage[c] = "sniff" /\ ~left[c] /\ SeeData(c)
    BY DEF SniffUnknown
<1>2. TrustStays(c)
    BY <1>1, SeeDataTrusts DEF TrustStays
<1>3. /\ ConnectionOK(c) /\ upstream[c].state = "none" /\ ~upstream[c].tls
      /\ error[c] = "none" /\ heard[c] = <<>>
    BY <1>1, NothingSaid DEF ComboInv
<1>4. \A to \in {"gone", "unknown"} : Moves(c, to) =>
          /\ stage' \in [Connection -> Stage] /\ stage'[c] = to
          /\ \A d \in Connection \ {c} : stage'[d] = stage[d]
  <2>1. stage \in [Connection -> Stage] /\ {"gone", "unknown"} \subseteq Stage
      BY DEF ComboInv, ComboTypeOK, Stage, Settled
  <2> QED BY <2>1 DEF Moves
<1>5. TrustOK(c)'
    BY <1>2 DEF TrustStays, TrustOK
<1>6. SocksOK(c) => (stage'[c] \in {"gone", "unknown"} => SocksOK(c)')
    BY <1>1 DEF SocksOK, SocksStage, Settled, Stuck, Accepted, Readable
<1>7. CASE PassThrough(c, "raw") /\ UNCHANGED errorVars
    BY <1>1, <1>2, <1>7, PassThroughKeeps DEF errorVars
<1>8. CASE /\ Moves(c, "gone") /\ left' = [left EXCEPT ![c] = TRUE]
           /\ UNCHANGED <<errorVars, upstream, heard>>
  <2>1. /\ left' \in [Connection -> BOOLEAN] /\ left'[c]
        /\ \A d \in Connection \ {c} : left'[d] = left[d]
      BY <1>8 DEF ComboInv, ComboTypeOK
  <2>2. UNCHANGED <<error, packet, arrived, upstream, heard>>
      BY <1>8 DEF errorVars
  <2>3. stage' \in [Connection -> Stage] /\ stage'[c] = "gone"
        /\ \A d \in Connection \ {c} : stage'[d] = stage[d]
      BY <1>4, <1>8
  <2>4. ComboTypeOK'
    <3>1. stage' \in Stages
        BY <2>3 DEF Stages
    <3>2. left' \in Flags
        BY <2>1 DEF Flags
    <3>3. trusted' \in Flags /\ watched' \in Flags
        BY <1>2 DEF Flags, TrustStays
    <3> QED BY <1>1, <1>2, <2>2, <3>1, <3>2, <3>3, ComboTypes, NextComboTypes DEF ComboInv, TrustStays
  <2>5. \A d \in Connection \ {c} : Same(d)
      BY <1>1, <1>2, <2>1, <2>2, <2>3 DEF Same, TrustStays
  <2>6. HopOK(c)'
      BY <1>1, <1>2, <1>3, <2>2, <2>3 DEF ConnectionOK, HopOK, SocksStage, TrustStays
  <2>7. SocksOK(c)'
      BY <1>3, <1>6, <2>3 DEF ConnectionOK
  <2> QED BY <1>1, <1>3, <1>5, <2>1, <2>2, <2>3, <2>4, <2>5, <2>6, <2>7, QuietStep
<1>9. ASSUME Moves(c, "unknown"), NEW content \in {"nothing", "whole"}, RaiseError(c, content),
             UNCHANGED <<left, upstream, heard>>
      PROVE  ComboInv'
  <2>1. stage' \in [Connection -> Stage] /\ stage'[c] = "unknown"
        /\ \A d \in Connection \ {c} : stage'[d] = stage[d]
      BY <1>4, <1>9
  <2>2. /\ error' \in [Connection -> {"none", "queued", "answering", "announced"}]
        /\ packet' \in [Connection -> Seq(Byte)] /\ arrived' \in [Connection -> Seq(Byte)]
        /\ packet'[c] = arrived'[c] \/ BeginsTwice(arrived'[c])
        /\ error'[c] = (IF error[c] = "none" THEN "queued" ELSE error[c])
        /\ \A d \in Connection \ {c} :
               error'[d] = error[d] /\ packet'[d] = packet[d] /\ arrived'[d] = arrived[d]
      BY <1>9, ErrorIsRaised
  <2>3. ComboTypeOK'
    <3>1. stage' \in Stages
        BY <2>1 DEF Stages
    <3>2. error' \in Errors /\ packet' \in Packets /\ arrived' \in Packets
        BY <2>2 DEF Errors, Packets
    <3>3. trusted' \in Flags /\ watched' \in Flags
        BY <1>2 DEF Flags, TrustStays
    <3> QED BY <1>1, <1>2, <1>9, <3>1, <3>2, <3>3, ComboTypes, NextComboTypes DEF ComboInv, TrustStays
  <2>4. \A d \in Connection \ {c} : Same(d)
      BY <1>1, <1>2, <1>9, <2>1, <2>2 DEF Same, TrustStays
  <2>5. HopOK(c)'
      BY <1>1, <1>2, <1>3, <1>9, <2>1 DEF ConnectionOK, HopOK, SocksStage, TrustStays
  <2>6. SocksOK(c)'
      BY <1>3, <1>6, <2>1 DEF ConnectionOK
  <2>7. ErrorOK(c)'
      BY <1>3, <2>1, <2>2 DEF ErrorOK
  <2>8. HeardOK(c)'
      BY <1>3, <1>9, <2>1 DEF HeardOK
  <2> QED BY <1>1, <1>5, <2>3, <2>4, <2>5, <2>6, <2>7, <2>8, OneConnection DEF ConnectionOK
<1>10. tunnel[c].port \in {"any", "missing", "garbled"}
    BY DEF ComboInv, ComboTypeOK, Tunnel
<1>11. CASE tunnel[c].port = "any"
    BY <1>7, <1>11 DEF SniffUnknown
<1>12. CASE tunnel[c].port = "garbled"
    BY <1>8, <1>12 DEF SniffUnknown
<1>13. CASE tunnel[c].port = "missing"
    BY <1>9, <1>13 DEF SniffUnknown
<1> QED BY <1>10, <1>11, <1>12, <1>13

LEMMA ReadHelloKeeps ==
    ASSUME ComboInv, NEW c \in Connection, ReadHello(c)
    PROVE  ComboInv'
<1>1. /\ UNCHANGED <<authMethods, tunnel, tagged, used, hop, tlsVars, errorVars>>
      /\ stage[c] = "hello" /\ error[c] = "none" /\ heard[c] = <<>> /\ ~watched[c]
      /\ kind[c] = "tls" => trusted[c]
    BY NothingSaid DEF ReadHello
<1>2. CASE Moves(c, "handshake") /\ UNCHANGED <<left, upstream, heard>>
    BY <1>1, <1>2, StageMoves
<1>3. CASE PassThrough(c, "tls")
  <2>1. UNCHANGED <<kind, encrypted, trusted, watched, error, packet, arrived>>
      BY <1>1 DEF tlsVars, errorVars
  <2>2. TrustStays(c)
      BY <1>1, <2>1 DEF TrustStays, ComboInv, ComboTypeOK
  <2> QED BY <1>1, <1>3, <2>1, <2>2, PassThroughKeeps
<1> QED BY <1>2, <1>3 DEF ReadHello

LEMMA TlsClientErrorKeeps ==
    ASSUME ComboInv, NEW c \in Connection, TlsClientError(c)
    PROVE  ComboInv'
<1>1. /\ UNCHANGED <<authMethods, tunnel, tagged, used, hop, kind, encrypted, trusted, watched,
                     error, packet, arrived, upstream>>
      /\ stage[c] = "handshake"
    BY DEF TlsClientError, tlsVars, errorVars
<1>2. /\ ConnectionOK(c) /\ upstream[c].state = "none" /\ ~upstream[c].tls
      /\ error[c] = "none" /\ heard[c] = <<>> /\ ~watched[c]
    BY <1>1, NothingSaid DEF ComboInv
<1>3. stage \in [Connection -> Stage] /\ "gone" \in Stage
    BY DEF ComboInv, ComboTypeOK, Stage, Settled
<1>4. /\ stage' \in [Connection -> Stage] /\ stage'[c] = "gone"
      /\ \A d \in Connection \ {c} : stage'[d] = stage[d]
    BY <1>3 DEF TlsClientError, Moves
<1>5. /\ left' \in [Connection -> BOOLEAN] /\ left'[c]
      /\ \A d \in Connection \ {c} : left'[d] = left[d]
    BY DEF TlsClientError, ComboInv, ComboTypeOK
<1>6. /\ heard' \in [Connection -> Seq({"tls-client-error", "client-error", "opened", "closed"})]
      /\ heard'[c] = TlsFailed
      /\ \A d \in Connection \ {c} : heard'[d] = heard[d]
    BY <1>2, TellHears DEF TlsClientError, TlsFailed
<1>7. ComboTypeOK'
  <2>1. stage' \in Stages
      BY <1>4 DEF Stages
  <2>2. left' \in Flags
      BY <1>5 DEF Flags
  <2>3. heard' \in Hearings
      BY <1>6 DEF Hearings
  <2> QED BY <1>1, <2>1, <2>2, <2>3, ComboTypes, NextComboTypes DEF ComboInv
<1>8. \A d \in Connection \ {c} : Same(d)
    BY <1>1, <1>4, <1>5, <1>6 DEF Same
<1>9. HopOK(c)'
    BY <1>1, <1>2, <1>4 DEF ConnectionOK, HopOK, SocksStage
<1>10. SocksOK(c)'
    BY <1>4 DEF SocksOK, SocksStage, Settled
<1>11. TrustOK(c)' /\ HeardOK(c)'
    BY <1>1, <1>2, <1>4, <1>6 DEF TrustOK, HeardOK
<1>12. ErrorOK(c)'
    BY <1>1, <1>2, <1>4, <1>5 DEF ConnectionOK, ErrorOK
<1> QED BY <1>1, <1>7, <1>8, <1>9, <1>10, <1>11, <1>12, OneConnection DEF ConnectionOK

-----------------------------------------------------------------------------
(* Client errors are announced once, unless TLS was never set up.          *)

LEMMA AnnouncedClientError ==
    ASSUME ComboInv, NEW c \in Connection, AnnounceClientError(c)
    PROVE  /\ heard' \in [Connection -> Seq({"tls-client-error", "client-error", "opened", "closed"})]
           /\ kind[c] = "tls" /\ ~trusted[c] => heard'[c] = heard[c]
           /\ kind[c] # "tls" \/ trusted[c] => heard'[c] = Append(heard[c], "client-error")
           /\ \A d \in Connection \ {c} : heard'[d] = heard[d]
<1>1. CASE kind[c] = "tls" /\ ~trusted[c]
    BY <1>1 DEF AnnounceClientError, ComboInv, ComboTypeOK
<1>2. CASE ~(kind[c] = "tls" /\ ~trusted[c])
    BY <1>2, TellHears DEF AnnounceClientError
<1> QED BY <1>1, <1>2

\* An error that is being handled: nothing was said but that TLS failed.
LEMMA HandledQuietly ==
    ASSUME ComboInv, NEW c \in Connection, error[c] \in {"queued", "answering"}
    PROVE  /\ upstream[c].state = "none" /\ ~upstream[c].tls /\ ~watched[c]
           /\ stage[c] \in {"http1", "unknown", "gone"}
           /\ \/ heard[c] = <<>>
              \/ heard[c] = TlsFailed /\ kind[c] = "tls" /\ ~trusted[c] /\ stage[c] = "gone"
<1>1. ConnectionOK(c)
    BY DEF ComboInv
<1>2. stage[c] \in {"http1", "unknown", "gone"}
    BY <1>1 DEF ConnectionOK, ErrorOK
<1>3. /\ upstream[c].state = "none"
      /\ \/ heard[c] = <<>>
         \/ heard[c] = TlsFailed /\ kind[c] = "tls" /\ ~trusted[c] /\ stage[c] = "gone"
    BY <1>1, <1>2 DEF ConnectionOK, HeardOK
<1>4. ~upstream[c].tls
    BY <1>1, <1>3 DEF ConnectionOK, HopOK, ComboInv, ComboTypeOK
<1>5. ~watched[c]
    BY <1>1, <1>2 DEF ConnectionOK, TrustOK
<1> QED BY <1>2, <1>3, <1>4, <1>5

LEMMA FinishKeeps ==
    ASSUME ComboInv, NEW c \in Connection, error[c] \in {"queued", "answering"}, Finish(c)
    PROVE  ComboInv'
<1>1. UNCHANGED <<authMethods, tunnel, tagged, used, hop, kind, encrypted, trusted, watched,
                  packet, arrived, upstream>>
    BY DEF Finish, tlsVars
<1>2. /\ upstream[c].state = "none" /\ ~upstream[c].tls /\ ~watched[c]
      /\ heard[c] = <<>> \/ (heard[c] = TlsFailed /\ kind[c] = "tls" /\ ~trusted[c])
    BY HandledQuietly
<1>3. stage \in [Connection -> Stage] /\ "gone" \in Stage
    BY DEF ComboInv, ComboTypeOK, Stage, Settled
<1>4. /\ stage' \in [Connection -> Stage] /\ stage'[c] = "gone"
      /\ \A d \in Connection \ {c} : stage'[d] = stage[d]
    BY <1>3 DEF Finish, Moves
<1>5. /\ left' \in [Connection -> BOOLEAN] /\ left'[c]
      /\ error' \in [Connection -> {"none", "queued", "answering", "announced"}]
      /\ error'[c] = "announced"
      /\ \A d \in Connection \ {c} : left'[d] = left[d] /\ error'[d] = error[d]
    BY DEF Finish, ComboInv, ComboTypeOK
<1>6. /\ heard' \in [Connection -> Seq({"tls-client-error", "client-error", "opened", "closed"})]
      /\ kind[c] = "tls" /\ ~trusted[c] => heard'[c] = heard[c]
      /\ kind[c] # "tls" \/ trusted[c] => heard'[c] = Append(heard[c], "client-error")
      /\ \A d \in Connection \ {c} : heard'[d] = heard[d]
    BY AnnouncedClientError DEF Finish
<1>7. ComboTypeOK'
  <2>1. stage' \in Stages
      BY <1>4 DEF Stages
  <2>2. left' \in Flags /\ error' \in Errors
      BY <1>5 DEF Flags, Errors
  <2>3. heard' \in Hearings
      BY <1>6 DEF Hearings
  <2> QED BY <1>1, <2>1, <2>2, <2>3, ComboTypes, NextComboTypes DEF ComboInv
<1>8. \A d \in Connection \ {c} : Same(d)
    BY <1>1, <1>4, <1>5, <1>6 DEF Same
<1>9. ConnectionOK(c)
    BY DEF ComboInv
<1>10. HopOK(c)'
    BY <1>1, <1>2, <1>4, <1>9 DEF ConnectionOK, HopOK, SocksStage
<1>11. SocksOK(c)'
    BY <1>4 DEF SocksOK, SocksStage, Settled
<1>12. ErrorOK(c)'
    BY <1>1, <1>4, <1>5, <1>9 DEF ConnectionOK, ErrorOK
<1>13. CASE kind[c] = "tls" /\ ~trusted[c]
  <2>1. TrustOK(c)' /\ HeardOK(c)'
      BY <1>1, <1>2, <1>4, <1>5, <1>6, <1>9, <1>13 DEF ConnectionOK, TrustOK, HeardOK
  <2> QED BY <1>1, <1>7, <1>8, <1>10, <1>11, <1>12, <2>1, OneConnection DEF ConnectionOK
<1>14. CASE ~(kind[c] = "tls" /\ ~trusted[c])
  <2>1. heard'[c] = ClientFailed
    <3>1. heard[c] = <<>> /\ heard'[c] = Append(heard[c], "client-error")
        BY <1>2, <1>6, <1>14
    <3> QED BY <3>1 DEF ClientFailed
  <2>2. TrustOK(c)' /\ HeardOK(c)'
      BY <1>1, <1>2, <1>5, <1>14, <2>1 DEF TrustOK, HeardOK
  <2> QED BY <1>1, <1>7, <1>8, <1>10, <1>11, <1>12, <2>2, OneConnection DEF ConnectionOK
<1> QED BY <1>13, <1>14

LEMMA AnswerErrorKeeps ==
    ASSUME ComboInv, NEW c \in Connection, AnswerError(c) \/ ErrorAnswered(c)
    PROVE  ComboInv'
<1>1. error[c] \in {"queued", "answering"}
    BY DEF AnswerError, ErrorAnswered
<1>2. CASE Finish(c)
    BY <1>1, <1>2, FinishKeeps
<1>3. CASE /\ error[c] = "queued" /\ error' = [error EXCEPT ![c] = "answering"]
           /\ UNCHANGED <<socksVars, tlsVars, left, packet, arrived, upstream, heard>>
  <2>1. UNCHANGED <<authMethods, stage, tunnel, tagged, used, hop, kind, encrypted, trusted,
                    watched, left, packet, arrived, upstream, heard>>
      BY <1>3 DEF socksVars, tlsVars
  <2>2. /\ error' \in [Connection -> {"none", "queued", "answering", "announced"}]
        /\ error'[c] = "answering" /\ \A d \in Connection \ {c} : error'[d] = error[d]
      BY <1>3 DEF ComboInv, ComboTypeOK
  <2>3. ComboTypeOK'
    <3>1. error' \in Errors
        BY <2>2 DEF Errors
    <3> QED BY <2>1, <3>1, ComboTypes, NextComboTypes DEF ComboInv
  <2>4. \A d \in Connection \ {c} : Same(d)
      BY <2>1, <2>2 DEF Same
  <2>5. ConnectionOK(c)
      BY DEF ComboInv
  <2>6. HopOK(c)' /\ SocksOK(c)' /\ TrustOK(c)'
    <3>1. HopOK(c)'
        BY <2>1, <2>5 DEF ConnectionOK, HopOK
    <3>2. SocksOK(c)'
        BY <2>1, <2>5 DEF ConnectionOK, SocksOK, Accepted, Readable
    <3>3. TrustOK(c)'
        BY <2>1, <2>5 DEF ConnectionOK, TrustOK
    <3> QED BY <3>1, <3>2, <3>3
  <2>7. ErrorOK(c)'
      BY <1>3, <2>1, <2>2, <2>5 DEF ConnectionOK, ErrorOK
  <2>8. HeardOK(c)'
      BY <1>3, <2>1, <2>2, HandledQuietly DEF HeardOK
  <2> QED BY <2>1, <2>3, <2>4, <2>6, <2>7, <2>8, OneConnection DEF ConnectionOK
<1> QED BY <1>2, <1>3 DEF AnswerError, ErrorAnswered

LEMMA InvalidHttp2Keeps ==
    ASSUME ComboInv, NEW c \in Connection, InvalidHttp2(c)
    PROVE  ComboInv'
<1>1. /\ UNCHANGED <<authMethods, stage, tunnel, tagged, used, hop, kind, encrypted, trusted,
                     watched, left, packet, arrived, upstream>>
      /\ stage[c] = "http2" /\ error[c] = "none"
    BY DEF InvalidHttp2, socksVars, tlsVars
<1>2. /\ error' \in [Connection -> {"none", "queued", "answering", "announced"}]
      /\ error'[c] = "announced" /\ \A d \in Connection \ {c} : error'[d] = error[d]
    BY DEF InvalidHttp2, ComboInv, ComboTypeOK
<1>3. ConnectionOK(c) /\ upstream[c].state = "none" /\ heard[c] = <<>>
    BY <1>1, NothingSaid DEF ComboInv
<1>4. /\ heard' \in [Connection -> Seq({"tls-client-error", "client-error", "opened", "closed"})]
      /\ heard'[c] = <<>> \/ heard'[c] = ClientFailed
      /\ \A d \in Connection \ {c} : heard'[d] = heard[d]
  <2>1. CASE Tell(c, "client-error")
      BY <1>3, <2>1, TellHears DEF ClientFailed
  <2>2. CASE AnnounceClientError(c)
    <3>1. heard'[c] = <<>> \/ heard'[c] = Append(<<>>, "client-error")
        BY <1>3, <2>2, AnnouncedClientError
    <3>2. heard'[c] = <<>> \/ heard'[c] = ClientFailed
        BY <3>1 DEF ClientFailed
    <3> QED BY <2>2, <3>2, AnnouncedClientError
  <2> QED BY <2>1, <2>2 DEF InvalidHttp2
<1>5. ComboTypeOK'
  <2>1. error' \in Errors
      BY <1>2 DEF Errors
  <2>2. heard' \in Hearings
      BY <1>4 DEF Hearings
  <2> QED BY <1>1, <2>1, <2>2, ComboTypes, NextComboTypes DEF ComboInv
<1>6. \A d \in Connection \ {c} : Same(d)
    BY <1>1, <1>2, <1>4 DEF Same
<1>7. HopOK(c)' /\ SocksOK(c)'
    BY <1>1, <1>3 DEF ConnectionOK, HopOK, SocksOK, Accepted, Readable
<1>8. TrustOK(c)'
    BY <1>1, <1>3 DEF ConnectionOK, TrustOK, TlsFailed, BothFailed
<1>9. ErrorOK(c)'
    BY <1>1, <1>2, <1>3 DEF ConnectionOK, ErrorOK
<1>10. HeardOK(c)'
    BY <1>1, <1>2, <1>3, <1>4 DEF HeardOK
<1> QED BY <1>1, <1>5, <1>6, <1>7, <1>8, <1>9, <1>10, OneConnection DEF ConnectionOK

-----------------------------------------------------------------------------
(* The upstream side, and the end of a connection.                         *)

LEMMA AppendToOne ==
    ASSUME NEW a, NEW b
    PROVE  Append(<<a>>, b) = <<a, b>>
<1> DEFINE s == Append(<<a>>, b)
           S == {a, b}
<1>1. <<a>> \in Seq(S)
    OBVIOUS
<1>2. s \in Seq(S) /\ Len(s) = 2 /\ s[1] = a /\ s[2] = b
    BY <1>1
<1> HIDE DEF s, S
<1>3. s = <<s[1], s[2]>>
    BY <1>2
<1> QED BY <1>2, <1>3 DEF s

LEMMA UpstreamKeeps ==
    ASSUME ComboInv, NEW c \in Connection, UpstreamConnects(c) \/ UpstreamEnds(c)
    PROVE  ComboInv'
<1> DEFINE UpstreamType ==
               [state : {"none", "connecting", "connected", "destroyed"}, tls : BOOLEAN]
<1>1. UNCHANGED <<authMethods, stage, tunnel, tagged, used, hop, kind, encrypted, trusted,
                  watched, left, error, packet, arrived, heard>>
    BY DEF UpstreamConnects, UpstreamEnds, socksVars, tlsVars, errorVars
<1>2. PICK to \in {"connected", "destroyed"} : upstream' = [upstream EXCEPT ![c].state = to]
    BY DEF UpstreamConnects, UpstreamEnds
<1>3. upstream \in [Connection -> UpstreamType]
    BY DEF ComboInv, ComboTypeOK
<1>4. /\ upstream' \in [Connection -> UpstreamType]
      /\ upstream'[c].state = to /\ upstream'[c].tls = upstream[c].tls
      /\ \A d \in Connection \ {c} : upstream'[d] = upstream[d]
    BY <1>2, <1>3
<1>5. ComboTypeOK'
  <2>1. upstream' \in Upstreams
      BY <1>4 DEF Upstreams
  <2> QED BY <1>1, <2>1, ComboTypes, NextComboTypes DEF ComboInv
<1>6. \A d \in Connection \ {c} : Same(d)
    BY <1>1, <1>4 DEF Same
<1>7. ConnectionOK(c) /\ upstream[c].state \in {"connecting", "connected"}
    BY DEF ComboInv, UpstreamConnects, UpstreamEnds
<1>8. heard[c] = Opened /\ stage[c] = "through" /\ ~left[c]
    BY <1>7 DEF ConnectionOK, HeardOK
<1>9. HopOK(c)'
    BY <1>1, <1>4, <1>7 DEF ConnectionOK, HopOK
<1>10. SocksOK(c)' /\ TrustOK(c)' /\ ErrorOK(c)'
  <2>1. SocksOK(c)'
      BY <1>1, <1>7 DEF ConnectionOK, SocksOK, Accepted, Readable
  <2>2. TrustOK(c)' /\ ErrorOK(c)'
      BY <1>1, <1>7 DEF ConnectionOK, TrustOK, ErrorOK
  <2> QED BY <2>1, <2>2
<1>11. HeardOK(c)'
    BY <1>1, <1>4, <1>8 DEF HeardOK
<1> QED BY <1>1, <1>5, <1>6, <1>9, <1>10, <1>11, OneConnection DEF ConnectionOK

LEMMA EndPassthroughKeeps ==
    ASSUME ComboInv, NEW c \in Connection, EndPassthrough(c)
    PROVE  ComboInv'
<1> DEFINE UpstreamType ==
               [state : {"none", "connecting", "connected", "destroyed"}, tls : BOOLEAN]
<1>1. /\ UNCHANGED <<authMethods, tunnel, tagged, used, hop, kind, encrypted, trusted, watched,
                     error, packet, arrived>>
      /\ stage[c] = "through"
    BY DEF EndPassthrough, tlsVars, errorVars
<1>2. /\ ConnectionOK(c) /\ error[c] \in {"none", "queued", "answering", "announced"}
      /\ upstream \in [Connection -> UpstreamType]
    BY DEF ComboInv, ComboTypeOK
<1>3. /\ upstream[c].state # "none" /\ heard[c] = Opened /\ error[c] = "none" /\ ~watched[c]
  <2>1. error[c] = "none"
      BY <1>1, <1>2 DEF ConnectionOK, ErrorOK
  <2>2. upstream[c].state # "none" /\ heard[c] = Opened
      BY <1>1, <1>2, <2>1 DEF ConnectionOK, HeardOK
  <2>3. ~watched[c]
      BY <1>1, <1>2 DEF ConnectionOK, TrustOK
  <2> QED BY <2>1, <2>2, <2>3
<1>4. stage \in [Connection -> Stage] /\ "gone" \in Stage
    BY DEF ComboInv, ComboTypeOK, Stage, Settled
<1>5. /\ stage' \in [Connection -> Stage] /\ stage'[c] = "gone"
      /\ \A d \in Connection \ {c} : stage'[d] = stage[d]
    BY <1>4 DEF EndPassthrough, CloseBoth, Moves
<1>6. /\ left' \in [Connection -> BOOLEAN] /\ left'[c]
      /\ \A d \in Connection \ {c} : left'[d] = left[d]
    BY DEF EndPassthrough, CloseBoth, ComboInv, ComboTypeOK
<1>7. upstream' = [upstream EXCEPT ![c].state = "destroyed"]
    BY DEF EndPassthrough, CloseBoth
<1>8. /\ upstream' \in [Connection -> UpstreamType]
      /\ upstream'[c].state = "destroyed" /\ upstream'[c].tls = upstream[c].tls
      /\ \A d \in Connection \ {c} : upstream'[d] = upstream[d]
    BY <1>2, <1>7
<1>9. /\ heard' \in [Connection -> Seq({"tls-client-error", "client-error", "opened", "closed"})]
      /\ heard'[c] = Append(heard[c], "closed")
      /\ \A d \in Connection \ {c} : heard'[d] = heard[d]
    BY TellHears DEF EndPassthrough, CloseBoth
<1>10. heard'[c] = OpenedClosed
  <2>1. Append(Opened, "closed") = OpenedClosed
      BY AppendToOne, Zenon DEF Opened, OpenedClosed
  <2> QED BY <1>3, <1>9, <2>1
<1>11. ComboTypeOK'
  <2>1. stage' \in Stages
      BY <1>5 DEF Stages
  <2>2. left' \in Flags
      BY <1>6 DEF Flags
  <2>3. upstream' \in Upstreams
      BY <1>8 DEF Upstreams
  <2>4. heard' \in Hearings
      BY <1>9 DEF Hearings
  <2> QED BY <1>1, <2>1, <2>2, <2>3, <2>4, ComboTypes, NextComboTypes DEF ComboInv
<1>12. \A d \in Connection \ {c} : Same(d)
    BY <1>1, <1>5, <1>6, <1>8, <1>9 DEF Same
<1>13. HopOK(c)'
    BY <1>1, <1>2, <1>3, <1>5, <1>8 DEF ConnectionOK, HopOK, SocksStage
<1>14. SocksOK(c)'
    BY <1>5 DEF SocksOK, SocksStage, Settled
<1>15. TrustOK(c)'
    BY <1>1, <1>2, <1>3 DEF ConnectionOK, TrustOK, Opened, TlsFailed, BothFailed
<1>16. ErrorOK(c)'
    BY <1>1, <1>2, <1>3, <1>5, <1>6 DEF ConnectionOK, ErrorOK
<1>17. HeardOK(c)'
    BY <1>1, <1>3, <1>5, <1>8, <1>10 DEF HeardOK
<1> QED BY <1>1, <1>11, <1>12, <1>13, <1>14, <1>15, <1>16, <1>17, OneConnection DEF ConnectionOK

\* What a client that leaves is reported as.
LEMMA LeavingIsHeard ==
    ASSUME ComboInv, NEW c \in Connection, Leave(c)
    PROVE  /\ heard' \in [Connection -> Seq({"tls-client-error", "client-error", "opened", "closed"})]
           /\ \A d \in Connection \ {c} : heard'[d] = heard[d]
           /\ heard[c] = <<>> \/ (heard[c] = ClientFailed /\ error[c] = "announced")
           /\ Dropped(c) => heard'[c] = IF heard[c] = <<>> THEN TlsFailed ELSE BothFailed
           /\ ~Dropped(c) => heard'[c] = heard[c]
<1>1. /\ stage[c] \notin {"new", "through"} /\ ~left[c] /\ ConnectionOK(c)
      /\ heard \in [Connection -> Seq({"tls-client-error", "client-error", "opened", "closed"})]
    BY DEF Leave, ComboInv, ComboTypeOK
<1>2. stage[c] # "gone"
    BY <1>1 DEF ConnectionOK, ErrorOK
<1>3. heard[c] = <<>> \/ (heard[c] = ClientFailed /\ error[c] = "announced")
    BY <1>1, <1>2 DEF ConnectionOK, HeardOK
<1>4. CASE Dropped(c)
  <2>1. Tell(c, "tls-client-error")
      BY <1>4 DEF Leave
  <2>2. /\ heard' \in [Connection -> Seq({"tls-client-error", "client-error", "opened", "closed"})]
        /\ heard'[c] = Append(heard[c], "tls-client-error")
        /\ \A d \in Connection \ {c} : heard'[d] = heard[d]
      BY <2>1, TellHears
  <2>3. /\ Append(<<>>, "tls-client-error") = TlsFailed
        /\ ClientFailed # <<>>
      BY DEF TlsFailed, ClientFailed
  <2>4. Append(ClientFailed, "tls-client-error") = BothFailed
      BY AppendToOne, Zenon DEF ClientFailed, BothFailed
  <2> QED BY <1>3, <1>4, <2>2, <2>3, <2>4
<1>5. CASE ~Dropped(c)
    BY <1>1, <1>3, <1>5 DEF Leave
<1> QED BY <1>4, <1>5

LEMMA LeaveKeeps ==
    ASSUME ComboInv, NEW c \in Connection, Leave(c)
    PROVE  ComboInv'
<1>1. /\ UNCHANGED <<authMethods, tunnel, tagged, used, hop, kind, encrypted, trusted, upstream>>
      /\ stage[c] \notin {"new", "through"} /\ ~left[c]
    BY DEF Leave
<1>2. ConnectionOK(c) /\ stage[c] # "gone"
    BY <1>1 DEF ComboInv, ConnectionOK, ErrorOK
<1>3. /\ upstream[c].state = "none" /\ ~upstream[c].tls
      /\ error[c] # "announced" => heard[c] = <<>>
    BY <1>1, <1>2, NothingSaid
<1>4. PICK to \in Stage :
          /\ Moves(c, to)
          /\ to = "gone" \/ (to = stage[c] /\ stage[c] \in {"hello", "handshake", "connect"})
  <2>1. stage \in [Connection -> Stage] /\ "gone" \in Stage
      BY DEF ComboInv, ComboTypeOK, Stage, Settled
  <2>2. CASE stage[c] \in Outlives
    <3>1. Moves(c, stage[c])
        BY <2>1, <2>2 DEF Leave, LeaveStage, Moves
    <3> QED BY <2>1, <2>2, <3>1 DEF Outlives
  <2>3. CASE stage[c] \notin Outlives
      BY <2>1, <2>3 DEF Leave, LeaveStage
  <2> QED BY <2>2, <2>3
<1>5. /\ stage' \in [Connection -> Stage] /\ stage'[c] = to
      /\ \A d \in Connection \ {c} : stage'[d] = stage[d]
    BY <1>4 DEF Moves, ComboInv, ComboTypeOK, Stage
<1>6. /\ left' \in [Connection -> BOOLEAN] /\ left'[c]
      /\ watched' \in [Connection -> BOOLEAN] /\ ~watched'[c]
      /\ \A d \in Connection \ {c} : left'[d] = left[d] /\ watched'[d] = watched[d]
    BY DEF Leave, ComboInv, ComboTypeOK
<1>7. /\ error' \in [Connection -> {"none", "queued", "answering", "announced"}]
      /\ packet' \in [Connection -> Seq(Byte)] /\ arrived' \in [Connection -> Seq(Byte)]
      /\ packet'[c] = arrived'[c] \/ BeginsTwice(arrived'[c])
      /\ error'[c] = error[c] \/ (error'[c] = "queued" /\ stage[c] \in {"sniff", "http1"})
      /\ \A d \in Connection \ {c} :
             error'[d] = error[d] /\ packet'[d] = packet[d] /\ arrived'[d] = arrived[d]
  <2>1. CASE UNCHANGED errorVars
      BY <1>2, <2>1 DEF errorVars, ConnectionOK, ErrorOK, ComboInv, ComboTypeOK
  <2>2. CASE stage[c] \in {"sniff", "http1"} /\ RaiseError(c, "nothing")
    <3>1. /\ error' \in [Connection -> {"none", "queued", "answering", "announced"}]
          /\ packet' \in [Connection -> Seq(Byte)] /\ arrived' \in [Connection -> Seq(Byte)]
          /\ packet'[c] = arrived'[c] \/ BeginsTwice(arrived'[c])
          /\ error'[c] = (IF error[c] = "none" THEN "queued" ELSE error[c])
          /\ \A d \in Connection \ {c} :
                 error'[d] = error[d] /\ packet'[d] = packet[d] /\ arrived'[d] = arrived[d]
        BY <2>2, ErrorIsRaised
    <3> QED BY <2>2, <3>1
  <2> QED BY <2>1, <2>2 DEF Leave
<1>8. /\ heard' \in [Connection -> Seq({"tls-client-error", "client-error", "opened", "closed"})]
      /\ \A d \in Connection \ {c} : heard'[d] = heard[d]
      /\ heard[c] = <<>> \/ (heard[c] = ClientFailed /\ error[c] = "announced")
      /\ Dropped(c) => heard'[c] = IF heard[c] = <<>> THEN TlsFailed ELSE BothFailed
      /\ ~Dropped(c) => heard'[c] = heard[c]
    BY LeavingIsHeard
<1>9. ComboTypeOK'
  <2>1. stage' \in Stages
      BY <1>5 DEF Stages
  <2>2. left' \in Flags /\ watched' \in Flags
      BY <1>6 DEF Flags
  <2>3. error' \in Errors /\ packet' \in Packets /\ arrived' \in Packets
      BY <1>7 DEF Errors, Packets
  <2>4. heard' \in Hearings
      BY <1>8 DEF Hearings
  <2> QED BY <1>1, <2>1, <2>2, <2>3, <2>4, ComboTypes, NextComboTypes DEF ComboInv
<1>10. \A d \in Connection \ {c} : Same(d)
    BY <1>1, <1>5, <1>6, <1>7, <1>8 DEF Same
<1>11. HopOK(c)'
    BY <1>1, <1>2, <1>3, <1>4, <1>5 DEF ConnectionOK, HopOK, SocksStage
<1>12. SocksOK(c)'
    BY <1>1, <1>2, <1>4, <1>5 DEF ConnectionOK, SocksOK, SocksStage, Settled, Stuck, Accepted, Readable
<1>13. ErrorOK(c)'
    BY <1>2, <1>4, <1>5, <1>6, <1>7 DEF ConnectionOK, ErrorOK
<1>14. TlsFailed # <<>> /\ BothFailed # <<>> /\ ClientFailed # <<>> /\ ClientFailed # TlsFailed
       /\ BothFailed # ClientFailed
    BY DEF TlsFailed, BothFailed, ClientFailed
<1>15. CASE Dropped(c)
  <2>1. kind[c] = "tls" /\ ~trusted[c] /\ stage[c] \in {"sniff", "http2"}
      BY <1>2, <1>15 DEF Dropped, ConnectionOK, TrustOK
  <2>2. stage'[c] = "gone"
      BY <1>4, <1>5, <2>1
  <2>3. error[c] = "announced" => error'[c] = "announced"
    <3>1. error[c] = "announced" => stage[c] \notin {"sniff", "http1"}
        BY <1>2 DEF ConnectionOK, ErrorOK
    <3> QED BY <1>7, <3>1
  <2>4. TrustOK(c)'
      BY <1>6, <1>8, <1>15 DEF TrustOK
  <2>5. HeardOK(c)'
    <3>1. CASE heard'[c] = TlsFailed
        BY <1>1, <1>3, <2>1, <2>2, <3>1 DEF HeardOK
    <3>2. CASE heard'[c] = BothFailed /\ error[c] = "announced"
        BY <1>1, <1>3, <2>2, <2>3, <3>2 DEF HeardOK
    <3> QED BY <1>8, <1>15, <3>1, <3>2
  <2> QED BY <1>1, <1>9, <1>10, <1>11, <1>12, <1>13, <2>4, <2>5, OneConnection DEF ConnectionOK
<1>16. CASE ~Dropped(c)
  <2>1. heard'[c] = heard[c] /\ stage'[c] # "through"
      BY <1>1, <1>4, <1>5, <1>8, <1>16
  <2>2. error[c] = "announced" => error'[c] = "announced"
    <3>1. error[c] = "announced" => stage[c] \notin {"sniff", "http1"}
        BY <1>2 DEF ConnectionOK, ErrorOK
    <3> QED BY <1>7, <3>1
  <2>3. ~(kind[c] = "tls" /\ ~trusted[c])
    <3>1. heard[c] # TlsFailed /\ heard[c] # BothFailed
        BY <1>8, <1>14
    <3> QED BY <1>2, <1>16, <3>1 DEF Dropped, ConnectionOK, TrustOK
  <2>4. TrustOK(c)'
      BY <1>1, <1>6, <2>3 DEF TrustOK
  <2>5. HeardOK(c)'
      BY <1>1, <1>3, <1>8, <2>1, <2>2 DEF HeardOK
  <2> QED BY <1>1, <1>9, <1>10, <1>11, <1>12, <1>13, <2>4, <2>5, OneConnection DEF ConnectionOK
<1> QED BY <1>15, <1>16

-----------------------------------------------------------------------------
(* Servers and connections together.                                       *)

IInv == LifecycleInv /\ ComboInv

LEMMA NextIInv == IInv /\ [Next]_vars => IInv'
<1> SUFFICES ASSUME IInv, [Next]_vars
             PROVE  IInv'
    OBVIOUS
<1>1. UNCHANGED lifecycleVars => LifecycleInv'
  <2>1. UNCHANGED lifecycleVars => LifecycleTypeOK'
      BY DEF IInv, LifecycleInv, LifecycleTypeOK, lifecycleVars
  <2>2. UNCHANGED lifecycleVars => LifecycleOK'
      BY DEF IInv, LifecycleInv, LifecycleOK, LogsOK, PickedOK, FixedOK, BlamesOthers,
             ListeningOK, Listens, lifecycleVars
  <2> QED BY <2>1, <2>2 DEF LifecycleInv
<1>2. UNCHANGED comboVars => ComboInv'
  <2> SUFFICES ASSUME UNCHANGED comboVars
               PROVE  ComboInv'
      OBVIOUS
  <2>1. UNCHANGED <<authMethods, stage, tunnel, tagged, used, hop, kind, encrypted, trusted,
                    watched, left, error, packet, arrived, upstream, heard>>
      BY DEF comboVars, socksVars, tlsVars, errorVars
  <2>2. ComboTypeOK'
      BY <2>1, ComboTypes, NextComboTypes DEF ComboInv, IInv
  <2>3. \A d \in Connection : ConnectionOK(d)'
      BY <2>1, SameConnection DEF IInv, ComboInv, Same
  <2> QED BY <2>1, <2>2, <2>3 DEF IInv, ComboInv, AuthOK
<1>3. CASE LifecycleStep /\ UNCHANGED comboVars
  <2>1. ASSUME NEW s \in Server, NEW p \in Port, Start(s, TRUE, {p})
        PROVE  LifecycleInv'
      BY <2>1, StartKeeps DEF IInv
  <2>2. ASSUME NEW s \in Server, Start(s, FALSE, PortRange)
        PROVE  LifecycleInv'
      BY <2>2, StartKeeps, PortsAssumption DEF IInv
  <2>3. ASSUME NEW s \in Server,
               \/ Created(s) \/ ListenAtOnce(s)
               \/ Pick(s) \/ NothingToPick(s) \/ ListenOnPick(s)
        PROVE  LifecycleInv'
      BY <2>3, CreatedKeeps, ListenAtOnceKeeps, PickKeeps, NothingToPickKeeps, ListenOnPickKeeps
      DEF IInv
  <2>4. ASSUME NEW p \in Port, ForeignTakes(p) \/ ForeignLeaves(p)
        PROVE  LifecycleInv'
      BY <2>4, ForeignKeeps DEF IInv
  <2>5. LifecycleInv'
      BY <1>3, <2>1, <2>2, <2>3, <2>4 DEF LifecycleStep
  <2> QED BY <1>2, <1>3, <2>5 DEF IInv
<1>4. ASSUME NEW s \in Server, Stop(s) \/ Finishes(s), UNCHANGED comboVars
      PROVE  IInv'
    BY <1>2, <1>4, StopKeeps DEF IInv
<1>5. ASSUME NEW c \in Connection, ConnectToSelf(c) \/ ConnectionStep(c) \/ ClosingStep(c),
             UNCHANGED lifecycleVars
      PROVE  IInv'
  <2> SUFFICES ComboInv'
      BY <1>1, <1>5 DEF IInv
  <2>1. ComboInv
      BY DEF IInv
  <2>2. CASE ConnectToSelf(c)
      BY <2>1, <2>2, ConnectKeeps DEF ConnectToSelf
  <2>3. CASE Sniff(c) \/ SniffUnknown(c) \/ Handshake(c) \/ ReadHello(c)
      BY <2>1, <2>3, SniffKeeps, SniffUnknownKeeps, HandshakeKeeps, ReadHelloKeeps
  <2>4. CASE Secure(c) \/ TlsClientError(c) \/ TrustInTime(c) \/ RemoteSettings(c)
      BY <2>1, <2>4, SecureKeeps, TlsClientErrorKeeps, TrustKeeps
  <2>5. CASE H1Connect(c) \/ H1Connected(c) \/ H2Connect(c)
      BY <2>1, <2>5, H1ConnectKeeps, H1ConnectedKeeps, H2ConnectKeeps
  <2>6. CASE InvalidHttp1(c) \/ AnswerError(c) \/ ErrorAnswered(c) \/ InvalidHttp2(c)
      BY <2>1, <2>6, InvalidHttp1Keeps, AnswerErrorKeeps, InvalidHttp2Keeps
  <2>7. CASE UpstreamConnects(c) \/ UpstreamEnds(c)
      BY <2>1, <2>7, UpstreamKeeps
  <2>8. CASE Leave(c) \/ EndPassthrough(c)
      BY <2>1, <2>8, LeaveKeeps, EndPassthroughKeeps
  <2> QED BY <1>5, <2>2, <2>3, <2>4, <2>5, <2>6, <2>7, <2>8 DEF ConnectionStep, ClosingStep
<1>6. CASE UNCHANGED vars
    BY <1>1, <1>2, <1>6 DEF vars, IInv
<1> QED BY <1>3, <1>4, <1>5, <1>6 DEF Next

\* The invariant of servers and connections.
THEOREM ServerInvariant == Spec => []IInv
<1>1. Init => IInv
    BY InitLifecycle, InitCombo DEF Init, IInv
<1> QED BY <1>1, NextIInv, PTL DEF Spec

\* Type correctness, with at most one key log open for each try at a port.
THEOREM ServerTypeOK == Spec => []TypeOK
<1>1. IInv => TypeOK
    BY DEF IInv, LifecycleInv, ComboInv, TypeOK
<1> QED BY <1>1, ServerInvariant, PTL

\* Only Pick finds a port, and only ListenOnPick listens on one that was found.
LEMMA RangeKept ==
    ASSUME IInv, [Next]_vars
    PROVE  RangeLeftForCause \/ UNCHANGED lifecycleVars
<1> USE DEF RangeLeftForCause, Finds, ListensOnFound
<1>1. CASE UNCHANGED lifecycleVars
    BY <1>1
<1>2. ASSUME NEW s \in Server, Pick(s)
      PROVE  RangeLeftForCause
  <2>1. \A t \in Server : t # s => starting'[t] = starting[t]
      BY <1>2 DEF Pick, Goes, IInv, LifecycleInv, LifecycleTypeOK
  <2>2. bound'[s] \in asked[s] \/ asked[s] \subseteq InUse \/ blamed[s] # <<>>
      BY <1>2 DEF Pick, Allowed, IInv, LifecycleInv, LifecycleTypeOK
  <2>3. starting[s] = "waiting"
      BY <1>2 DEF Pick
  <2> QED BY <2>1, <2>2, <2>3
<1>3. ASSUME NEW s \in Server, ListenOnPick(s)
      PROVE  RangeLeftForCause
  <2>1. \A t \in Server : t # s => starting'[t] = starting[t]
      BY <1>3 DEF ListenOnPick, Listen, Collide, Goes, IInv, LifecycleInv, LifecycleTypeOK
  <2>2. starting[s] = "picked"
      BY <1>3 DEF ListenOnPick
  <2>3. starting'[s] = "resolved" => bound'[s] = bound[s]
      BY <1>3 DEF ListenOnPick, Listen, Collide, Goes, IInv, LifecycleInv, LifecycleTypeOK
  <2> QED BY <2>1, <2>2, <2>3
<1>4. ASSUME NEW s \in Server,
             \/ \E p \in Port : Start(s, TRUE, {p})
             \/ Start(s, FALSE, PortRange)
             \/ Created(s) \/ ListenAtOnce(s) \/ NothingToPick(s)
      PROVE  RangeLeftForCause
  <2>1. \A t \in Server : t # s => starting'[t] = starting[t]
      BY <1>4 DEF Start, Created, ListenAtOnce, Listen, Collide, NothingToPick, Goes,
         IInv, LifecycleInv, LifecycleTypeOK
  <2>2. starting[s] # "picked" /\ starting'[s] # "picked"
      BY <1>4 DEF Start, Created, ListenAtOnce, Listen, Collide, NothingToPick, Goes,
         IInv, LifecycleInv, LifecycleTypeOK
  <2> QED BY <2>1, <2>2
<1>5. ASSUME NEW p \in Port, ForeignTakes(p) \/ ForeignLeaves(p)
      PROVE  RangeLeftForCause
    BY <1>5 DEF ForeignTakes, ForeignLeaves
<1>6. ASSUME NEW s \in Server, Stop(s) \/ Finishes(s)
      PROVE  RangeLeftForCause
    BY <1>6 DEF Stop, Finishes, Closed, Flushed
<1> QED
  <2>1. CASE LifecycleStep
      BY <1>2, <1>3, <1>4, <1>5, <2>1 DEF LifecycleStep
  <2> QED BY <1>1, <1>6, <2>1 DEF Next, vars

(***************************************************************************)
(* Any number of servers that start at once do not take ports from each    *)
(* other; a server that listens does so on a port of its own, which is the *)
(* number that it was asked for; and a range that it was asked for is only *)
(* left if nothing in it is free, or after a collision.                    *)
(***************************************************************************)
THEOREM ServerPortsAsAsked == Spec => PortsAsAsked
<1>1. IInv => SearchesDoNotClash
    BY DEF IInv, LifecycleInv, LifecycleTypeOK, LifecycleOK, BlamesOthers, SearchesDoNotClash
<1>2. IInv => ListensWhereAsked
    BY DEF IInv, LifecycleInv, LifecycleOK, ListeningOK, FixedOK, Listens, ListensWhereAsked
<1>3. IInv /\ [Next]_vars => [RangeLeftForCause]_lifecycleVars
    BY RangeKept
<1> QED BY <1>1, <1>2, <1>3, ServerInvariant, PTL DEF PortsAsAsked, Spec

(***************************************************************************)
(* Whoever comes out of a SOCKS tunnel has authenticated as the server     *)
(* asks, whatever tunnels and TLS it went through before.                  *)
(***************************************************************************)
THEOREM ServerSocksAuthenticated == Spec => []SocksAuthenticated
<1>1. IInv => SocksAuthenticated
    BY DEF IInv, ComboInv, ConnectionOK, SocksOK, Accepted, Readable, SocksAuthenticated, HandedOn,
           SocksStage, Settled, Stuck
<1> QED BY <1>1, ServerInvariant, PTL

(***************************************************************************)
(* The symbols of a socket are those of the innermost hop, for any number  *)
(* of layers.                                                              *)
(***************************************************************************)
THEOREM ServerLastHopIsTold == Spec => []LastHopIsTold
<1>1. IInv => LastHopIsTold
  <2> SUFFICES ASSUME IInv, NEW c \in Connection
               PROVE  /\ tunnel[c] = hop[c].tunnel
                      /\ hop[c].by # "socks" => encrypted[c] = (hop[c].by = "tls")
                      /\ stage[c] = "through" /\ hop[c].by # "socks" =>
                             upstream[c].tls = (hop[c].by = "tls")
      BY DEF LastHopIsTold
  <2>1. HopOK(c) /\ HeardOK(c) /\ ErrorOK(c) /\ encrypted[c] \in BOOLEAN /\ upstream[c].tls \in BOOLEAN
      BY DEF IInv, ComboInv, ComboTypeOK, ConnectionOK
  <2>2. stage[c] = "through" => upstream[c].state # "none"
      BY <2>1 DEF HeardOK, ErrorOK
  <2> QED BY <2>1, <2>2 DEF HopOK
<1> QED BY <1>1, ServerInvariant, PTL

(***************************************************************************)
(* What is passed through is opened and closed once, on both sides.        *)
(***************************************************************************)
THEOREM ServerPassthroughPaired == Spec => []PassthroughPaired
<1>1. IInv => PassthroughPaired
  <2> SUFFICES ASSUME IInv, NEW c \in Connection
               PROVE  /\ Told(c, "opened") /\ left[c] =>
                             heard[c] = <<"opened", "closed">> /\ upstream[c].state = "destroyed"
                      /\ upstream[c].state # "none" => Told(c, "opened")
      BY DEF PassthroughPaired
  <2>1. HeardOK(c)
      BY DEF IInv, ComboInv, ConnectionOK
  <2>2. /\ heard[c] \in {<<>>, TlsFailed, ClientFailed, BothFailed} => ~Told(c, "opened")
        /\ heard[c] \in {Opened, OpenedClosed} => Told(c, "opened")
      BY DEF Told, TlsFailed, ClientFailed, BothFailed, Opened, OpenedClosed
  <2> QED BY <2>1, <2>2 DEF HeardOK, OpenedClosed
<1> QED BY <1>1, ServerInvariant, PTL

(***************************************************************************)
(* A broken TLS setup is always told, and no failure is told twice; the    *)
(* packet of a client error is whole, however many errors it came with.    *)
(***************************************************************************)
THEOREM ServerFailuresWhole == Spec => []FailuresWhole
<1>1. IInv => FailuresToldOnce
  <2> SUFFICES ASSUME IInv, NEW c \in Connection
               PROVE  /\ (left[c] /\ kind[c] = "tls" /\ ~trusted[c]) => Told(c, "tls-client-error")
                      /\ \A i, j \in DOMAIN heard[c] :
                             (i < j /\ heard[c][i] \in {"tls-client-error", "client-error"})
                                 => heard[c][j] = "tls-client-error" /\ heard[c][i] = "client-error"
      BY DEF FailuresToldOnce
  <2>1. HeardOK(c) /\ TrustOK(c)
      BY DEF IInv, ComboInv, ConnectionOK
  <2>2. heard[c] \in {<<>>, TlsFailed, ClientFailed, BothFailed, Opened, OpenedClosed}
      BY <2>1 DEF HeardOK
  <2>3. heard[c] \in {TlsFailed, BothFailed} => Told(c, "tls-client-error")
      BY DEF Told, TlsFailed, BothFailed
  <2>4. \A i, j \in DOMAIN heard[c] :
            (i < j /\ heard[c][i] \in {"tls-client-error", "client-error"})
                => heard[c][j] = "tls-client-error" /\ heard[c][i] = "client-error"
      BY <2>2 DEF TlsFailed, ClientFailed, BothFailed, Opened, OpenedClosed
  <2> QED BY <2>1, <2>3, <2>4 DEF TrustOK
<1>2. IInv => PacketIsWhole
    BY DEF IInv, ComboInv, ConnectionOK, ErrorOK, PacketIsWhole
<1> QED BY <1>1, <1>2, ServerInvariant, PTL DEF FailuresWhole

=============================================================================
