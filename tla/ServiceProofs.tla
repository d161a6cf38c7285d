---------------------------- MODULE ServiceProofs ----------------------------
(***************************************************************************)
(* What the services promise of whatever is asked of them, for any number of*)
(* nodes, agents, callers, tasks and memories.                             *)
(***************************************************************************)
EXTENDS ClusterManager, CoordinationProtocol, DistributedCoordinator, LongTermMemory,
        AgentServices, MultiAgentCoordinator, ContainerLemmas

(***************************************************************************)
(* Cluster: migrations settle                                              *)
(***************************************************************************)
Records == [status : {"PENDING", "IN_PROGRESS", "COMPLETED", "FAILED"},
            state  : States \cup {"none"}]

MigrationsTypeOK ==
  /\ DOMAIN migrations \subseteq Agents
  /\ \A a \in DOMAIN migrations : migrations[a] \in Records
  /\ calling \in [Callers -> {Idle} \cup [at : {"checked"}, agent : Agents]
                             \cup [at : {"received"}, agent : Agents, state : States]]

\* A receive that nothing overlapped has its agent's record to itself
AloneInProgress ==
  \A a \in Agents, c \in Callers :
    c \in Receiving(a) =>
      /\ a \in DOMAIN migrations
      /\ a \notin overlapped =>
           /\ Receiving(a) = {c}
           /\ migrations[a] = [status |-> "IN_PROGRESS", state |-> calling[c].state]

MigrationsInv == MigrationsTypeOK /\ AloneInProgress /\ MigrationsSettle

\* Whoever receives alone, the record says so and holds the state received
LEMMA AloneIs ==
  ASSUME AloneInProgress, NEW a \in Agents, NEW c \in Receiving(a), a \notin overlapped
  PROVE  /\ a \in DOMAIN migrations /\ Receiving(a) = {c}
         /\ migrations[a].status = "IN_PROGRESS" /\ migrations[a].state = calling[c].state
<1>1. c \in Callers
  BY DEF Receiving
<1>2. /\ a \in DOMAIN migrations /\ Receiving(a) = {c}
      /\ migrations[a] = [status |-> "IN_PROGRESS", state |-> calling[c].state]
  BY <1>1 DEF AloneInProgress
<1> QED BY <1>2

\* Nothing is migrating at first
LEMMA MigrationsStart == ClusterInit => MigrationsInv
  BY DEF ClusterInit, MigrationsInv, MigrationsTypeOK, AloneInProgress, MigrationsSettle,
         NoKeys, Idle, Receiving

\* A step that only changes nodes leaves the records and the calls alone
LEMMA MigrationsFrame ==
  ASSUME MigrationsInv, UNCHANGED <<migrations, calling, overlapped>>
  PROVE  MigrationsInv'
  BY DEF MigrationsInv, MigrationsTypeOK, AloneInProgress, MigrationsSettle, Receiving

\* Having found both nodes responsive, a call receives nothing yet
LEMMA CheckKeeps ==
  ASSUME MigrationsInv, NEW c \in Callers, NEW n, NEW m, NEW a \in Agents,
         CheckNodes(c, n, m, a)
  PROVE  MigrationsInv'
<1>1. /\ calling' = [calling EXCEPT ![c] = [at |-> "checked", agent |-> a]]
      /\ calling[c] = Idle /\ UNCHANGED <<migrations, overlapped>>
  BY DEF CheckNodes
<1>2. MigrationsTypeOK'
  BY <1>1 DEF MigrationsInv, MigrationsTypeOK
<1>3. \A b : Receiving(b)' = Receiving(b)
  BY <1>1 DEF MigrationsInv, MigrationsTypeOK, Receiving, Idle
<1>4. \A d \in Callers, b \in Agents : d \in Receiving(b) => calling'[d] = calling[d]
  BY <1>1 DEF MigrationsInv, MigrationsTypeOK, Receiving, Idle
<1>5. AloneInProgress'
  BY <1>1, <1>3, <1>4 DEF MigrationsInv, AloneInProgress
<1>6. MigrationsSettle'
  BY <1>1, <1>3 DEF MigrationsInv, MigrationsSettle
<1> QED BY <1>2, <1>5, <1>6 DEF MigrationsInv

\* A record is only replaced by a new migration when it is not open: while nothing
\* overlaps, when nobody is receiving it
LEMMA RecordKeeps ==
  ASSUME MigrationsInv, NEW c \in Callers, RecordMigration(c)
  PROVE  MigrationsInv'
<1> DEFINE fresh == [status |-> "PENDING", state |-> "none"]
<1>0. PICK a \in Agents : a = calling[c].agent
  BY DEF RecordMigration, MigrationsInv, MigrationsTypeOK, Idle
<1>1. /\ calling[c].at = "checked"
      /\ calling' = [calling EXCEPT ![c] = Idle]
  BY DEF RecordMigration
<1>2. \A b \in Agents : Receiving(b)' = Receiving(b)
  BY <1>1 DEF MigrationsInv, MigrationsTypeOK, Receiving, Idle
<1>3. \A d \in Callers, b \in Agents : d \in Receiving(b) => calling'[d] = calling[d]
  BY <1>1 DEF MigrationsInv, MigrationsTypeOK, Receiving, Idle
<1>4. calling' \in [Callers -> {Idle} \cup [at : {"checked"}, agent : Agents]
                               \cup [at : {"received"}, agent : Agents, state : States]]
  BY <1>1 DEF MigrationsInv, MigrationsTypeOK
<1>5. CASE ~MayInitiate(a)
  <2>1. UNCHANGED <<migrations, overlapped>>
    BY <1>0, <1>5 DEF RecordMigration
  <2>2. MigrationsTypeOK' /\ AloneInProgress'
    BY <1>2, <1>3, <1>4, <2>1 DEF MigrationsInv, MigrationsTypeOK, AloneInProgress
  <2>3. \A b \in DOMAIN migrations : b \in Agents
    BY DEF MigrationsInv, MigrationsTypeOK
  <2>4. MigrationsSettle'
    BY <1>2, <2>1, <2>3 DEF MigrationsInv, MigrationsSettle
  <2> QED BY <2>2, <2>4 DEF MigrationsInv
<1>6. CASE MayInitiate(a)
  <2>1. /\ migrations' = With(migrations, a, fresh)
        /\ overlapped' = IF Receiving(a) = {} THEN overlapped \ {a} ELSE overlapped
    BY <1>0, <1>6 DEF RecordMigration
  <2>2. /\ DOMAIN migrations' = DOMAIN migrations \cup {a} /\ migrations'[a] = fresh
        /\ \A b \in DOMAIN migrations : b # a => migrations'[b] = migrations[b]
    BY <2>1 DEF With
  <2>3. fresh \in Records
    BY DEF Records
  <2>4. MigrationsTypeOK'
    BY <1>1, <1>4, <2>2, <2>3 DEF MigrationsInv, MigrationsTypeOK
  <2>5. Receiving(a) # {} => a \in overlapped
    <3>1. ASSUME NEW d \in Receiving(a), a \notin overlapped PROVE FALSE
      <4>1. a \in DOMAIN migrations /\ migrations[a].status = "IN_PROGRESS"
        BY <3>1, AloneIs DEF MigrationsInv
      <4> QED BY <1>6, <4>1 DEF MayInitiate, Open
    <3> QED BY <3>1
  <2>6. ASSUME NEW b \in Agents, NEW d \in Callers, (d \in Receiving(b))'
        PROVE  /\ b \in DOMAIN migrations'
               /\ b \notin overlapped' =>
                    /\ Receiving(b)' = {d}
                    /\ migrations'[b] = [status |-> "IN_PROGRESS", state |-> calling'[d].state]
    <3>1. d \in Receiving(b)
      BY <1>2, <2>6
    <3>2. b \in DOMAIN migrations'
      BY <2>2, <3>1 DEF MigrationsInv, AloneInProgress
    <3>3. b = a => b \in overlapped'
      BY <2>1, <2>5, <3>1
    <3>4. b # a => (b \in overlapped' <=> b \in overlapped)
      BY <2>1
    <3>5. b # a /\ b \in DOMAIN migrations => migrations'[b] = migrations[b]
      BY <2>2
    <3> QED BY <1>2, <1>3, <3>1, <3>2, <3>3, <3>4, <3>5 DEF MigrationsInv, AloneInProgress
  <2>7. AloneInProgress'
    BY <2>6 DEF AloneInProgress
  <2>8. ASSUME NEW b \in DOMAIN migrations'
        PROVE  /\ migrations'[b].status = "IN_PROGRESS" => Receiving(b)' # {}
               /\ migrations'[b].status = "COMPLETED" /\ b \notin overlapped'
                    => migrations'[b].state = "good"
    <3>1. CASE b = a
      BY <2>2, <3>1
    <3>2. CASE b # a
      BY <1>2, <2>1, <2>2, <3>2 DEF MigrationsInv, MigrationsTypeOK, MigrationsSettle
    <3> QED BY <3>1, <3>2
  <2> QED BY <2>4, <2>7, <2>8 DEF MigrationsInv, MigrationsSettle
<1> QED BY <1>5, <1>6

\* A receive has the record to itself unless another one is at work
LEMMA StartKeeps ==
  ASSUME MigrationsInv, NEW c \in Callers, NEW a \in Agents, NEW s \in States,
         StartReceive(c, a, s)
  PROVE  MigrationsInv'
<1> DEFINE marked == [status |-> "IN_PROGRESS", state |-> s]
<1>1. /\ calling[c] = Idle
      /\ calling' = [calling EXCEPT ![c] = [at |-> "received", agent |-> a, state |-> s]]
      /\ migrations' = With(migrations, a, marked)
      /\ overlapped' = IF Receiving(a) = {} THEN overlapped \ {a} ELSE overlapped \cup {a}
  BY DEF StartReceive
<1>2. /\ DOMAIN migrations' = DOMAIN migrations \cup {a} /\ migrations'[a] = marked
      /\ \A b \in DOMAIN migrations : b # a => migrations'[b] = migrations[b]
  BY <1>1 DEF With
<1>3. marked \in Records
  BY DEF Records
<1>4. MigrationsTypeOK'
  BY <1>1, <1>2, <1>3 DEF MigrationsInv, MigrationsTypeOK
<1>5. Receiving(a)' = Receiving(a) \cup {c}
  BY <1>1 DEF MigrationsInv, MigrationsTypeOK, Receiving, Idle
<1>6. \A b \in Agents : b # a => Receiving(b)' = Receiving(b)
  BY <1>1 DEF MigrationsInv, MigrationsTypeOK, Receiving, Idle
<1>7. \A d \in Callers : d # c => calling'[d] = calling[d]
  BY <1>1 DEF MigrationsInv, MigrationsTypeOK
<1>8. calling'[c].state = s /\ \A b \in Agents : c \notin Receiving(b)
  BY <1>1 DEF MigrationsInv, MigrationsTypeOK, Receiving, Idle
<1>9. ASSUME NEW b \in Agents, NEW d \in Callers, (d \in Receiving(b))'
      PROVE  /\ b \in DOMAIN migrations'
             /\ b \notin overlapped' =>
                  /\ Receiving(b)' = {d}
                  /\ migrations'[b] = [status |-> "IN_PROGRESS", state |-> calling'[d].state]
  <2>1. CASE b = a
    <3>1. b \notin overlapped' => Receiving(a) = {}
      BY <1>1, <2>1
    <3> QED BY <1>2, <1>5, <1>8, <1>9, <2>1, <3>1
  <2>2. CASE b # a
    <3>1. d \in Receiving(b) /\ d # c
      BY <1>6, <1>8, <1>9, <2>2
    <3>2. b \in DOMAIN migrations /\ (b \in overlapped' <=> b \in overlapped)
      BY <1>1, <2>2, <3>1 DEF MigrationsInv, AloneInProgress
    <3> QED BY <1>2, <1>6, <1>7, <2>2, <3>1, <3>2 DEF MigrationsInv, AloneInProgress
  <2> QED BY <2>1, <2>2
<1>10. AloneInProgress'
  BY <1>9 DEF AloneInProgress
<1>11. ASSUME NEW b \in DOMAIN migrations'
       PROVE  /\ migrations'[b].status = "IN_PROGRESS" => Receiving(b)' # {}
              /\ migrations'[b].status = "COMPLETED" /\ b \notin overlapped'
                   => migrations'[b].state = "good"
  <2>1. CASE b = a
    BY <1>2, <1>5, <2>1
  <2>2. CASE b # a
    BY <1>1, <1>2, <1>6, <2>2 DEF MigrationsInv, MigrationsTypeOK, MigrationsSettle
  <2> QED BY <2>1, <2>2
<1> QED BY <1>4, <1>10, <1>11 DEF MigrationsInv, MigrationsSettle

\* The verdict is of the state the record holds, when nothing overlapped
LEMMA FinishKeeps ==
  ASSUME MigrationsInv, NEW c \in Callers, FinishReceive(c)
  PROVE  MigrationsInv'
<1>0. PICK a \in Agents, s \in States : a = calling[c].agent /\ s = calling[c].state
  BY DEF FinishReceive, MigrationsInv, MigrationsTypeOK, Idle
<1> DEFINE done == [status |-> Verdict(s), state |-> migrations[a].state]
<1>1. /\ calling[c].at = "received"
      /\ calling' = [calling EXCEPT ![c] = Idle] /\ UNCHANGED overlapped
      /\ c \in Receiving(a)
  BY <1>0 DEF FinishReceive, Receiving
<1>2. a \in DOMAIN migrations /\ migrations[a] \in Records
  BY <1>1 DEF MigrationsInv, AloneInProgress, MigrationsTypeOK
<1>3. [migrations[a] EXCEPT !.status = Verdict(s)] = done
  BY <1>2 DEF Records
<1>4. migrations' = [migrations EXCEPT ![a] = [@ EXCEPT !.status = Verdict(s)]]
  BY <1>0 DEF FinishReceive
<1>5. /\ DOMAIN migrations' = DOMAIN migrations /\ migrations'[a] = done
      /\ \A b \in DOMAIN migrations : b # a => migrations'[b] = migrations[b]
  BY <1>2, <1>3, <1>4
<1>6. done \in Records /\ (done.status = "COMPLETED" => s = "good") /\ done.status # "IN_PROGRESS"
  BY <1>1, <1>2 DEF Records, Verdict, States
<1>7. MigrationsTypeOK'
  BY <1>1, <1>5, <1>6 DEF MigrationsInv, MigrationsTypeOK
<1>8. /\ Receiving(a)' = Receiving(a) \ {c}
      /\ \A b \in Agents : b # a => Receiving(b)' = Receiving(b)
      /\ \A d \in Callers : d # c => calling'[d] = calling[d]
  BY <1>0, <1>1 DEF MigrationsInv, MigrationsTypeOK, Receiving, Idle
<1>9. a \notin overlapped => Receiving(a) = {c} /\ migrations[a].state = s
  BY <1>0, <1>1, AloneIs DEF MigrationsInv
<1>10. ASSUME NEW b \in Agents, NEW d \in Callers, (d \in Receiving(b))'
       PROVE  /\ b \in DOMAIN migrations'
              /\ b \notin overlapped' =>
                   /\ Receiving(b)' = {d}
                   /\ migrations'[b] = [status |-> "IN_PROGRESS", state |-> calling'[d].state]
  <2>1. CASE b = a
    <3>1. d \in Receiving(a) \ {c}
      BY <1>8, <1>10, <2>1
    <3>2. a \in overlapped
      BY <1>9, <3>1
    <3> QED BY <1>1, <1>2, <1>5, <2>1, <3>2
  <2>2. CASE b # a
    <3>1. d \in Receiving(b) /\ d # c
      BY <1>1, <1>8, <1>10, <2>2 DEF Receiving
    <3> QED BY <1>1, <1>5, <1>8, <2>2, <3>1 DEF MigrationsInv, AloneInProgress
  <2> QED BY <2>1, <2>2
<1>11. AloneInProgress'
  BY <1>10 DEF AloneInProgress
<1>12. ASSUME NEW b \in DOMAIN migrations'
       PROVE  /\ migrations'[b].status = "IN_PROGRESS" => Receiving(b)' # {}
              /\ migrations'[b].status = "COMPLETED" /\ b \notin overlapped'
                   => migrations'[b].state = "good"
  <2>1. CASE b = a
    BY <1>1, <1>5, <1>6, <1>9, <2>1
  <2>2. CASE b # a
    BY <1>1, <1>5, <1>8, <2>2 DEF MigrationsInv, MigrationsTypeOK, MigrationsSettle
  <2> QED BY <2>1, <2>2
<1> QED BY <1>7, <1>11, <1>12 DEF MigrationsInv, MigrationsSettle

\* Every step keeps the invariant
LEMMA MigrationsStep == ASSUME MigrationsInv, [ClusterNext]_clusterVars PROVE MigrationsInv'
<1>1. CASE NodeStep
  <2>1. UNCHANGED <<migrations, calling, overlapped>>
    BY <1>1 DEF NodeStep, AddNode, RemoveNodes, UpdateNodeHealth, HeartbeatAges, PerformHealthCheck
  <2> QED BY <2>1, MigrationsFrame
<1>2. ASSUME NEW c \in Callers, CallStep(c) PROVE MigrationsInv'
  <2>1. CASE \E n, m \in ClusterNodes, a \in Agents : CheckNodes(c, n, m, a)
    BY <2>1, CheckKeeps
  <2>2. CASE RecordMigration(c)
    BY <2>2, RecordKeeps
  <2>3. CASE \E a \in Agents, s \in States : StartReceive(c, a, s)
    BY <2>3, StartKeeps
  <2>4. CASE FinishReceive(c)
    BY <2>4, FinishKeeps
  <2> QED BY <1>2, <2>1, <2>2, <2>3, <2>4 DEF CallStep
<1>3. CASE UNCHANGED clusterVars
  BY <1>3, MigrationsFrame DEF clusterVars
<1> QED BY <1>1, <1>2, <1>3 DEF ClusterNext

\* No receive leaves a record in progress, and a completed migration holds a complete
\* state unless receives overlapped (ClusterManager::receiveMigration, initiateMigration)
THEOREM MigrationsAlwaysSettle == ClusterSpec => []MigrationsSettle
<1>1. MigrationsInv /\ [ClusterNext]_clusterVars => MigrationsInv'
  BY MigrationsStep
<1>2. MigrationsInv => MigrationsSettle
  BY DEF MigrationsInv
<1> QED BY <1>1, <1>2, MigrationsStart, PTL DEF ClusterSpec

-----------------------------------------------------------------------------
(***************************************************************************)
(* Placement: tasks are spread by one, whatever loads they reach           *)
(***************************************************************************)
LoadsTypeOK ==
  /\ DOMAIN load \subseteq Workers
  /\ \A n \in DOMAIN load : load[n] \in Nat
  /\ joined \in [Workers -> [Workers -> Nat]]

LoadsInv == LoadsTypeOK /\ SpreadByOne

\* A node that joins has no load, and the others are compared with what they have now
LEMMA RegisterSpreads ==
  ASSUME LoadsInv, NEW n \in Workers, RegisterNode(n)
  PROVE  LoadsInv'
<1>1. /\ n \notin DOMAIN load /\ load' = With(load, n, 0)
      /\ joined' = [m \in Workers |-> [k \in Workers |->
                      IF m = n THEN LoadOf(k) ELSE IF k = n THEN 0 ELSE joined[m][k]]]
  BY DEF RegisterNode
<1>2. /\ DOMAIN load' = DOMAIN load \cup {n}
      /\ \A m \in DOMAIN load' : load'[m] = IF m = n THEN 0 ELSE load[m]
  BY <1>1 DEF With
<1>3. \A k \in Workers : LoadOf(k) \in Nat
  BY DEF LoadOf, LoadsInv, LoadsTypeOK
<1>4. LoadsTypeOK'
  BY <1>1, <1>2, <1>3 DEF LoadsInv, LoadsTypeOK
<1>5. ASSUME NEW k \in DOMAIN load', NEW m \in DOMAIN load'
      PROVE  load'[k] <= load'[m] + 1 \/ load'[k] <= joined'[m][k]
  <2>1. k \in Workers /\ m \in Workers /\ load'[m] \in Nat
    BY <1>4 DEF LoadsTypeOK
  <2>2. CASE k = n
    BY <1>2, <2>1, <2>2
  <2>3. CASE k # n /\ m = n
    <3>1. joined'[m][k] = load[k] /\ load'[k] = load[k] /\ load[k] \in Nat
      BY <1>1, <1>2, <2>1, <2>3 DEF LoadOf, LoadsInv, LoadsTypeOK
    <3> QED BY <3>1
  <2>4. CASE k # n /\ m # n
    <3>1. joined'[m][k] = joined[m][k] /\ load'[k] = load[k] /\ load'[m] = load[m]
      BY <1>1, <1>2, <2>1, <2>4
    <3> QED BY <1>2, <2>4, <3>1 DEF LoadsInv, SpreadByOne
  <2> QED BY <2>2, <2>3, <2>4
<1> QED BY <1>4, <1>5 DEF LoadsInv, SpreadByOne

\* Those who stay are as spread as they were
LEMMA UnregisterSpreads ==
  ASSUME LoadsInv, NEW N, load' = Without(load, N), UNCHANGED joined
  PROVE  LoadsInv'
<1>1. /\ DOMAIN load' = DOMAIN load \ N
      /\ \A m \in DOMAIN load' : load'[m] = load[m]
  BY DEF Without
<1> QED BY <1>1 DEF LoadsInv, LoadsTypeOK, SpreadByOne

\* The node that gets a task had no more than any other
LEMMA PickSpreads ==
  ASSUME LoadsInv, NEW s \in Submitters, NEW n \in Workers, PickNode(s, n)
  PROVE  LoadsInv'
<1>1. /\ n \in DOMAIN load /\ load' = With(load, n, load[n] + 1) /\ UNCHANGED joined
      /\ \A m \in DOMAIN load : load[n] <= load[m]
  BY DEF PickNode, IsChoice
<1>2. /\ DOMAIN load' = DOMAIN load
      /\ \A m \in DOMAIN load : load'[m] = IF m = n THEN load[n] + 1 ELSE load[m]
  BY <1>1 DEF With
<1>3. LoadsTypeOK'
  BY <1>1, <1>2 DEF LoadsInv, LoadsTypeOK
<1>4. ASSUME NEW k \in DOMAIN load, NEW m \in DOMAIN load
      PROVE  load'[k] <= load'[m] + 1 \/ load'[k] <= joined[m][k]
  <2>1. load[k] \in Nat /\ load[m] \in Nat /\ joined[m][k] \in Nat /\ load[n] \in Nat
    BY <1>1 DEF LoadsInv, LoadsTypeOK
  <2>2. load[n] <= load[m]
    BY <1>1
  <2>3. load[k] <= load[m] + 1 \/ load[k] <= joined[m][k]
    BY DEF LoadsInv, SpreadByOne
  <2> QED BY <1>2, <2>1, <2>2, <2>3
<1> QED BY <1>1, <1>2, <1>3, <1>4 DEF LoadsInv, SpreadByOne

\* Every step keeps the spread
LEMMA LoadsStep == ASSUME LoadsInv, [DistributedNext]_distributedVars PROVE LoadsInv'
<1> USE DEF DistributedNext, MembershipStep, SubmissionStep
<1>1. CASE \E n \in Workers : RegisterNode(n)
  BY <1>1, RegisterSpreads
<1>2. CASE \E n \in Workers : UnregisterNode(n)
  BY <1>2, UnregisterSpreads DEF UnregisterNode
<1>3. CASE Halt
  <2>1. load' = Without(load, DOMAIN load) /\ UNCHANGED joined
    BY <1>3 DEF Halt, NoKeys, Without
  <2> QED BY <2>1, UnregisterSpreads
<1>4. CASE \E s \in Submitters, n \in Workers : PickNode(s, n)
  BY <1>4, PickSpreads
<1>5. CASE UNCHANGED <<load, joined>>
  BY <1>5 DEF LoadsInv, LoadsTypeOK, SpreadByOne
<1>6. ForgetTasks \/ (\E s \in Submitters, t \in PlacedIds : PlaceTask(s, t)) \/ UNCHANGED distributedVars
        => UNCHANGED <<load, joined>>
  BY DEF ForgetTasks, PlaceTask, distributedVars
<1> QED BY <1>1, <1>2, <1>3, <1>4, <1>5, <1>6

\* A node has at most one task more than another, or no more than it had when the
\* other joined (DistributedCoordinator::submitTask, which selects under the lock)
THEOREM TasksSpreadByOne == DistributedSpec => []SpreadByOne
<1>1. DistributedInit => LoadsInv
  BY DEF DistributedInit, LoadsInv, LoadsTypeOK, SpreadByOne, NoKeys
<1>2. LoadsInv /\ [DistributedNext]_distributedVars => LoadsInv'
  BY LoadsStep
<1>3. LoadsInv => SpreadByOne
  BY DEF LoadsInv
<1> QED BY <1>1, <1>2, <1>3, PTL DEF DistributedSpec

-----------------------------------------------------------------------------
(***************************************************************************)
(* Long-term memory: the two parts of MemoriesAreKept and the type of      *)
(* _keyword_index are inductive                                            *)
(***************************************************************************)
KeywordsOK == keywordIndex \in [Nodes -> Nat]
LongInv == KeywordsOK /\ RecordsAreFound /\ NothingIsLost

\* A record is found by everything it holds (LongTermMemory::addToIndices)
IsFound(h, r) ==
  /\ <<r.importance, h>> \in importances /\ <<r.created, h>> \in createdAt
  /\ \A c \in r.contexts : <<c, h>> \in contextIndex
  /\ h \in Nodes => keywordIndex[h] > 0

\* All that the indexes name is known
IndexesKnown == \A e \in importances \cup createdAt \cup contextIndex : e[2] \in known

\* RecordsAreFound by its parts
LEMMA FoundParts == RecordsAreFound <=> (\A h \in DOMAIN memoryRecords : IsFound(h, memoryRecords[h])) /\ IndexesKnown
  BY DEF RecordsAreFound, IsFound, IndexesKnown

\* The same in the next state
LEMMA FoundPartsNext ==
  RecordsAreFound' <=> (\A h \in DOMAIN memoryRecords' : IsFound(h, memoryRecords[h])') /\ IndexesKnown'
  BY DEF RecordsAreFound, IsFound, IndexesKnown

\* addToIndices leaves every record found, the new one too (store, loadHandle)
LEMMA AddedIsFound ==
  ASSUME NEW h, NEW r, KeywordsOK, RecordsAreFound, AddToIndices(h, r),
         memoryRecords' = With(memoryRecords, h, r), known' = known \cup {h}
  PROVE  RecordsAreFound' /\ KeywordsOK'
<1>1. KeywordsOK' /\ \A n \in Nodes : keywordIndex'[n] >= keywordIndex[n] /\ (n = h => keywordIndex'[n] > 0)
  BY DEF AddToIndices, KeywordsOK
<1>2. ASSUME NEW g \in DOMAIN memoryRecords' PROVE IsFound(g, memoryRecords[g])'
  <2>1. CASE g = h
    <3>1. memoryRecords'[g] = r
      BY <2>1 DEF With
    <3>2. /\ <<r.importance, g>> \in importances' /\ <<r.created, g>> \in createdAt'
          /\ \A c \in r.contexts : <<c, g>> \in contextIndex'
      BY <2>1 DEF AddToIndices
    <3> QED BY <1>1, <2>1, <3>1, <3>2 DEF IsFound
  <2>2. CASE g # h
    <3>1. g \in DOMAIN memoryRecords /\ memoryRecords'[g] = memoryRecords[g]
      BY <2>2 DEF With
    <3>2. IsFound(g, memoryRecords[g])
      BY <3>1, FoundParts
    <3>3. importances \subseteq importances' /\ createdAt \subseteq createdAt' /\ contextIndex \subseteq contextIndex'
      BY DEF AddToIndices
    <3>4. g \in Nodes => keywordIndex'[g] > 0
      BY <1>1, <3>2 DEF IsFound, KeywordsOK
    <3> QED BY <3>1, <3>2, <3>3, <3>4 DEF IsFound
  <2> QED BY <2>1, <2>2
<1>3. IndexesKnown'
  <2>1. IndexesKnown
    BY FoundParts
  <2>2. \A e \in r.contexts \X {h} : e[2] = h
    OBVIOUS
  <2>3. <<r.importance, h>>[2] = h /\ <<r.created, h>>[2] = h
    OBVIOUS
  <2> QED BY <2>1, <2>2, <2>3 DEF IndexesKnown, AddToIndices
<1> QED BY <1>1, <1>2, <1>3, FoundPartsNext

\* Indexes that stay and records that stay or go leave what remains found (performMemoryConsolidation)
LEMMA FewerAreFound ==
  ASSUME NEW S, RecordsAreFound, memoryRecords' = Without(memoryRecords, S), UNCHANGED <<indexes, known>>
  PROVE  RecordsAreFound'
  BY DEF RecordsAreFound, Without, indexes

\* A record whose importance is listed anew, or that only was accessed, is found as before
\* (updateImportance, retrieve)
LEMMA ChangedIsFound ==
  ASSUME NEW h \in DOMAIN memoryRecords, NEW i, NEW n, RecordsAreFound,
         LET r == memoryRecords[h]
         IN /\ memoryRecords' = With(memoryRecords, h, Record(i, r.contexts, r.created, n))
            /\ importances' = Relisted(h, r.importance, i),
         UNCHANGED <<createdAt, contextIndex, keywordIndex, known>>
  PROVE  RecordsAreFound'
<1> DEFINE r == memoryRecords[h]
           s == Record(i, r.contexts, r.created, n)
<1>1. s.importance = i /\ s.contexts = r.contexts /\ s.created = r.created
  BY DEF Record
<1>2. ASSUME NEW g \in DOMAIN memoryRecords' PROVE IsFound(g, memoryRecords[g])'
  <2>1. CASE g = h
    <3>1. memoryRecords'[g] = s
      BY <2>1 DEF With
    <3>2. IsFound(g, r)
      BY <2>1, FoundParts
    <3>3. <<i, g>> \in importances'
      BY <2>1 DEF Relisted
    <3> QED BY <1>1, <3>1, <3>2, <3>3 DEF IsFound
  <2>2. CASE g # h
    <3>1. g \in DOMAIN memoryRecords /\ memoryRecords'[g] = memoryRecords[g]
      BY <2>2 DEF With
    <3>2. IsFound(g, memoryRecords[g])
      BY <3>1, FoundParts
    <3>3. <<memoryRecords[g].importance, g>> # <<r.importance, h>>
      BY <2>2
    <3>4. <<memoryRecords[g].importance, g>> \in importances'
      BY <3>2, <3>3 DEF IsFound, Relisted
    <3> QED BY <3>1, <3>2, <3>4 DEF IsFound
  <2> QED BY <2>1, <2>2
<1>3. IndexesKnown'
  <2>1. IndexesKnown /\ IsFound(h, r)
    BY FoundParts
  <2>2. h \in known /\ <<i, h>>[2] = h
    <3>1. <<r.importance, h>>[2] = h
      OBVIOUS
    <3> QED BY <2>1, <3>1 DEF IsFound, IndexesKnown
  <2> QED BY <2>1, <2>2 DEF IndexesKnown, Relisted
<1> QED BY <1>2, <1>3, FoundPartsNext

\* What was removed is in no index but that of names (remove)
LEMMA RemovedIsGone ==
  ASSUME NEW h, NEW d \in BOOLEAN, KeywordsOK, RecordsAreFound, RemoveMemory(h, d)
  PROVE  RecordsAreFound' /\ KeywordsOK'
<1>1. KeywordsOK' /\ \A n \in Nodes : n # h => keywordIndex'[n] = keywordIndex[n]
  BY DEF RemoveMemory, RemoveFromIndices, WithoutName, KeywordsOK
<1>2. ASSUME NEW g \in DOMAIN memoryRecords' PROVE IsFound(g, memoryRecords[g])'
  <2>1. g # h /\ g \in DOMAIN memoryRecords /\ memoryRecords'[g] = memoryRecords[g]
    BY DEF RemoveMemory, Without
  <2>2. IsFound(g, memoryRecords[g])
    BY <2>1, FoundParts
  <2>3. \A x : <<x, g>>[2] = g
    OBVIOUS
  <2> QED BY <1>1, <2>1, <2>2, <2>3 DEF IsFound, RemoveMemory, RemoveFromIndices, WithoutHandle
<1>3. IndexesKnown'
  <2>1. IndexesKnown
    BY FoundParts
  <2> QED BY <2>1 DEF IndexesKnown, RemoveMemory, RemoveFromIndices, WithoutHandle
<1> QED BY <1>1, <1>2, <1>3, FoundPartsNext
\* The memory starts empty (initializeMemoryStructures)
LEMMA StartsKept == LongInit => LongInv
  BY DEF LongInit, LongInv, KeywordsOK, RecordsAreFound, NothingIsLost, NoKeys

\* store
LEMMA StoreKeeps ==
  ASSUME NEW h, NEW i, NEW c, NEW d \in BOOLEAN, LongInv, working, Store(h, i, c, d)
  PROVE  LongInv'
<1>1. PICK r : /\ memoryRecords' = With(memoryRecords, h, r) /\ AddToIndices(h, r)
               /\ known' = known \cup {h}
  BY DEF Store
<1>2. RecordsAreFound' /\ KeywordsOK'
  BY <1>1, AddedIsFound DEF LongInv
<1>3. NothingIsLost'
  BY DEF LongInv, NothingIsLost, Store
<1> QED BY <1>2, <1>3 DEF LongInv

\* retrieve of a record
LEMMA AccessKeeps ==
  ASSUME NEW h, LongInv, Access(h)
  PROVE  LongInv'
<1> DEFINE r == memoryRecords[h]
<1>1. PICK n : memoryRecords' = With(memoryRecords, h, Record(r.importance, r.contexts, r.created, n))
  BY DEF Access
<1>2. h \in DOMAIN memoryRecords /\ <<r.importance, h>> \in importances
  BY DEF Access, LongInv, RecordsAreFound
<1>3. importances' = Relisted(h, r.importance, r.importance)
  BY <1>2 DEF Access, Relisted, indexes
<1>4. RecordsAreFound'
  BY <1>1, <1>2, <1>3, ChangedIsFound DEF LongInv, Access, indexes, ghosts
<1>5. NothingIsLost' /\ KeywordsOK'
  BY DEF LongInv, NothingIsLost, KeywordsOK, Access, indexes, disk, ghosts
<1> QED BY <1>4, <1>5 DEF LongInv

\* loadHandle
LEMMA LoadKeeps ==
  ASSUME NEW h, LongInv, LoadHandle(h)
  PROVE  LongInv'
<1>1. RecordsAreFound' /\ KeywordsOK'
  BY AddedIsFound DEF LongInv, LoadHandle
<1>2. NothingIsLost'
  BY DEF LongInv, NothingIsLost, LoadHandle, disk
<1> QED BY <1>1, <1>2 DEF LongInv

\* remove
LEMMA RemoveKeeps ==
  ASSUME NEW h, NEW d \in BOOLEAN, LongInv, RemoveMemory(h, d)
  PROVE  LongInv'
<1>1. RecordsAreFound' /\ KeywordsOK'
  BY RemovedIsGone DEF LongInv
<1>2. NothingIsLost'
  BY DEF LongInv, NothingIsLost, RemoveMemory
<1> QED BY <1>1, <1>2 DEF LongInv

\* updateImportance
LEMMA UpdateKeeps ==
  ASSUME NEW h, NEW i, LongInv, UpdateRecordImportance(h, i)
  PROVE  LongInv'
<1>1. RecordsAreFound'
  BY ChangedIsFound DEF LongInv, UpdateRecordImportance, ghosts
<1>2. NothingIsLost' /\ KeywordsOK'
  BY DEF LongInv, NothingIsLost, KeywordsOK, UpdateRecordImportance, disk, ghosts
<1> QED BY <1>1, <1>2 DEF LongInv

\* performMemoryConsolidation: what it drops though of importance was written first
LEMMA ConsolidateKeeps ==
  ASSUME LongInv, Consolidate
  PROVE  LongInv'
<1>1. RecordsAreFound'
  BY FewerAreFound DEF LongInv, Consolidate
<1>2. NothingIsLost'
  <2>1. ASSUME NEW h \in Candidates, memoryRecords[h].importance \in {Moderate, High}
        PROVE  h \in WrittenFirst(Candidates)
    BY <2>1 DEF WrittenFirst, Moderate, High
  <2> QED BY <2>1 DEF LongInv, NothingIsLost, Consolidate, Persisted
<1>3. KeywordsOK'
  BY DEF LongInv, KeywordsOK, Consolidate, indexes
<1> QED BY <1>1, <1>2, <1>3 DEF LongInv

\* flushToPersistence and shutdown
LEMMA FlushKeeps ==
  ASSUME LongInv, working, FlushToPersistence \/ ShutMemory
  PROVE  LongInv'
<1>1. RecordsAreFound' /\ KeywordsOK'
  BY DEF LongInv, RecordsAreFound, KeywordsOK, FlushToPersistence, ShutMemory, indexes, ghosts
<1>2. NothingIsLost'
  BY DEF LongInv, NothingIsLost, FlushToPersistence, ShutMemory, Flush, Persisted, ghosts
<1> QED BY <1>1, <1>2 DEF LongInv

\* A new process, or initialize after shutdown
LEMMA RestartKeeps ==
  ASSUME LongInv, Restart
  PROVE  LongInv'
  BY DEF LongInv, Restart, KeywordsOK, RecordsAreFound, NothingIsLost, NoKeys

\* Nothing that is looked at changes
LEMMA QuietKeeps ==
  ASSUME LongInv, UNCHANGED <<memoryRecords, indexes, disk, hasStorage, working, ghosts>>
  PROVE  LongInv'
  BY DEF LongInv, KeywordsOK, RecordsAreFound, NothingIsLost, indexes, disk, ghosts

\* Every operation keeps the invariant
LEMMA LongStepKeeps == LongInv /\ [LongNext]_longVars => LongInv'
<1> SUFFICES ASSUME LongInv, [LongNext]_longVars PROVE LongInv'
  OBVIOUS
<1>1. CASE working /\ RecordStep
  BY <1>1, StoreKeeps, AccessKeeps, LoadKeeps, RemoveKeeps, UpdateKeeps DEF RecordStep
<1>2. CASE working /\ Consolidate
  BY <1>2, ConsolidateKeeps
<1>3. CASE working /\ (FlushToPersistence \/ ShutMemory)
  BY <1>3, FlushKeeps
<1>4. CASE Restart
  BY <1>4, RestartKeeps
<1>5. CASE HoursPass
  BY <1>5, QuietKeeps DEF HoursPass
<1>6. CASE UNCHANGED longVars
  BY <1>6, QuietKeeps DEF longVars
<1> QED BY <1>1, <1>2, <1>3, <1>4, <1>5, <1>6 DEF LongNext

\* Memories stay found and written, whatever is stored, removed, consolidated, flushed,
\* lost in a crash or loaded again (LongTermMemory, where there is a storage)
THEOREM LongMemoriesAreKept == LongSpec => []MemoriesAreKept
<1>1. LongInit => LongInv
  BY StartsKept
<1>2. LongInv /\ [LongNext]_longVars => LongInv'
  BY LongStepKeeps
<1>3. LongInv => MemoriesAreKept
  BY DEF LongInv, MemoriesAreKept
<1> QED BY <1>1, <1>2, <1>3, PTL DEF LongSpec

-----------------------------------------------------------------------------
(***************************************************************************)
(* Coordination protocol: what the callback was told is current, for any   *)
(* numbers of nodes, peers and threads and any thresholds.                 *)
(***************************************************************************)
PeerStates == {"ACTIVE", "SUSPECTED", "DEAD"}

\* A report is all that its thread has yet to do
Shaped(n, t) ==
  \/ todo[n][t] = <<>>
  \/ \E x : todo[n][t] = <<x>>
  \/ \E x, y : x.do # "report" /\ y.do # "report" /\ todo[n][t] = <<x, y>>

NodeShape(n) ==
  /\ DOMAIN todo[n] = Threads
  /\ \A t \in Threads : Shaped(n, t) /\ DOMAIN Changes(n, t) \subseteq Peers
  /\ DOMAIN peers[n] \subseteq Peers

\* A peer that did not change while its last change was to be reported is about to be
\* reported as it is, by one thread, or was
NodeCurrent(n) ==
  \A p \in DOMAIN peers[n] \ mixed[n] :
    /\ \A t \in Threads : p \in DOMAIN Changes(n, t) =>
         /\ Changes(n, t)[p] = peers[n][p].state
         /\ \A u \in Threads : p \in DOMAIN Changes(n, u) => t = u
    /\ p \in DOMAIN heard[n] \ Reporting(n) => heard[n][p] = peers[n][p].state

\* Nobody is told when nobody listens, and the node itself is always active
NodeQuiet(n) ==
  /\ ~listening[n] => Reporting(n) = {} /\ DOMAIN heard[n] = {}
  /\ n \in DOMAIN peers[n] => peers[n][n].state = "ACTIVE"
  /\ n \notin DOMAIN heard[n] /\ n \notin Reporting(n)

ReportDomains ==
  /\ DOMAIN peers = ProtocolNodes /\ DOMAIN todo = ProtocolNodes
  /\ DOMAIN heard = ProtocolNodes /\ DOMAIN mixed = ProtocolNodes
  /\ listening \in [ProtocolNodes -> BOOLEAN]
NodeInv(n) == NodeShape(n) /\ NodeCurrent(n) /\ NodeQuiet(n)
ReportsInv == ReportDomains /\ \A n \in ProtocolNodes : NodeInv(n)

\* A set of peers has a least one
LEMMA LeastIsOne ==
  ASSUME NEW S, S \subseteq Peers, S # {}
  PROVE  Least(S) \in S
<1>1. S \subseteq Nat
  BY ProtocolAssumption
<1>2. PICK R : /\ IsWellFoundedOn(R, Nat)
               /\ \A p, q \in Nat : q < p => <<q, p>> \in R
  <2>1. \A p, q \in Nat : q < p => <<q, p>> \in OpToRel(<, Nat)
    BY DEF OpToRel
  <2> QED BY <2>1, NatLessThanWellFounded
<1>3. \E p \in S : \A q \in S : ~ (<<q, p>> \in R)
  BY <1>1, <1>2, WFMin
<1>4. \E p \in S : \A q \in S : ~ (q < p)
  BY <1>1, <1>2, <1>3, Zenon
<1>5. \E p \in S : \A q \in S : p <= q
  BY <1>1, <1>4
<1> QED BY <1>5 DEF Least

\* What one node does leaves the others as they were
LEMMA OtherNodes ==
  ASSUME ReportsInv, NEW n \in ProtocolNodes, ReportDomains',
         \A m \in ProtocolNodes \ {n} :
           /\ peers'[m] = peers[m] /\ todo'[m] = todo[m] /\ heard'[m] = heard[m]
           /\ mixed'[m] = mixed[m] /\ listening'[m] = listening[m],
         NodeInv(n)'
  PROVE  ReportsInv'
<1>1. ASSUME NEW m \in ProtocolNodes \ {n} PROVE NodeInv(m)'
  <2>1. \A t : Changes(m, t)' = Changes(m, t)
    BY <1>1 DEF Changes, Free
  <2>2. Reporting(m)' = Reporting(m)
    BY <2>1 DEF Reporting
  <2>3. NodeInv(m)
    BY <1>1 DEF ReportsInv
  <2>4. NodeShape(m)'
    BY <1>1, <2>1, <2>3 DEF NodeInv, NodeShape, Shaped
  <2>5. NodeCurrent(m)'
    BY <1>1, <2>1, <2>2, <2>3 DEF NodeInv, NodeCurrent
  <2>6. NodeQuiet(m)'
    BY <1>1, <2>2, <2>3 DEF NodeInv, NodeQuiet
  <2> QED BY <2>4, <2>5, <2>6 DEF NodeInv
<1> QED BY <1>1 DEF ReportsInv

\* A thread's work changes with what it has yet to do
LEMMA ChangesThen ==
  ASSUME ReportsInv, NEW n \in ProtocolNodes, NEW t \in Threads, NEW steps,
         Then(n, t, steps)
  PROVE  /\ DOMAIN todo' = ProtocolNodes /\ DOMAIN todo'[n] = Threads
         /\ \A m \in ProtocolNodes \ {n} : todo'[m] = todo[m]
         /\ todo'[n][t] = steps
         /\ \A u \in Threads \ {t} : todo'[n][u] = todo[n][u] /\ Changes(n, u)' = Changes(n, u)
         /\ Changes(n, t)' = IF steps = <<>> \/ Head(steps).do # "report" THEN NoKeys
                             ELSE Head(steps).of
  BY DEF Then, ReportsInv, ReportDomains, NodeInv, NodeShape, Changes, Free

\* Nothing is to be reported by a thread that has nothing to do
LEMMA NothingToTell == DOMAIN NoKeys = {} /\ \A n, t : Free(n, t) => Changes(n, t) = NoKeys
  BY DEF NoKeys, Changes

\* A step that reports nothing, changes no peer and has nothing of a report to do
LEMMA BookKeeps ==
  ASSUME ReportsInv, NEW n \in ProtocolNodes, NEW t \in Threads, NEW steps,
         Then(n, t, steps), DOMAIN Changes(n, t) = {},
         steps = <<>> \/ Head(steps).do # "report",
         Shaped(n, t)', UNCHANGED <<listening, mixed, heard>>,
         DOMAIN peers' = ProtocolNodes,
         \A m \in ProtocolNodes \ {n} : peers'[m] = peers[m],
         peers'[n] = peers[n] \/ DOMAIN peers'[n] = {}
  PROVE  ReportsInv'
<1>1. /\ DOMAIN todo' = ProtocolNodes /\ DOMAIN todo'[n] = Threads
      /\ \A m \in ProtocolNodes \ {n} : todo'[m] = todo[m]
      /\ \A u \in Threads \ {t} : todo'[n][u] = todo[n][u] /\ Changes(n, u)' = Changes(n, u)
      /\ DOMAIN Changes(n, t)' = {}
  BY ChangesThen, NothingToTell
<1>2. ReportDomains'
  BY <1>1 DEF ReportsInv, ReportDomains
<1>3. NodeInv(n)
  BY DEF ReportsInv
<1>4. Reporting(n)' = Reporting(n)
  BY <1>1 DEF Reporting
<1>5. NodeShape(n)'
  BY <1>1, <1>3 DEF NodeInv, NodeShape, Shaped
<1>6. NodeCurrent(n)'
  BY <1>1, <1>3, <1>4 DEF NodeInv, NodeCurrent
<1>7. NodeQuiet(n)'
  BY <1>3, <1>4 DEF NodeInv, NodeQuiet
<1>8. NodeInv(n)'
  BY <1>5, <1>6, <1>7 DEF NodeInv
<1>9. \A m \in ProtocolNodes \ {n} :
        /\ peers'[m] = peers[m] /\ todo'[m] = todo[m] /\ heard'[m] = heard[m]
        /\ mixed'[m] = mixed[m] /\ listening'[m] = listening[m]
  BY <1>1
<1> QED BY <1>2, <1>8, <1>9, OtherNodes

\* Peers that change are about to be reported as they are, or as mixed up
LEMMA ChangeKeeps ==
  ASSUME ReportsInv, NEW n \in ProtocolNodes, NEW t \in Threads, NEW changes,
         ReportChanges(n, t, changes), Free(n, t), DOMAIN peers' = ProtocolNodes,
         \A m \in ProtocolNodes \ {n} : peers'[m] = peers[m],
         DOMAIN peers'[n] = DOMAIN peers[n],
         DOMAIN changes \subseteq DOMAIN peers[n] \ {n},
         \A p \in DOMAIN changes : changes[p] = peers'[n][p].state,
         \A p \in DOMAIN peers[n] \ DOMAIN changes : peers'[n][p].state = peers[n][p].state
  PROVE  ReportsInv'
<1> DEFINE steps == IF listening[n] THEN Reports(changes) ELSE <<>>
<1>0. Then(n, t, steps) /\ UNCHANGED <<listening, heard>>
      /\ mixed' = [mixed EXCEPT ![n] = (@ \ DOMAIN changes) \cup (DOMAIN changes \cap Reporting(n))]
  BY DEF ReportChanges
<1>1. /\ DOMAIN todo' = ProtocolNodes /\ DOMAIN todo'[n] = Threads
      /\ \A m \in ProtocolNodes \ {n} : todo'[m] = todo[m]
      /\ todo'[n][t] = steps
      /\ \A u \in Threads \ {t} : todo'[n][u] = todo[n][u] /\ Changes(n, u)' = Changes(n, u)
      /\ Changes(n, t)' = IF steps = <<>> \/ Head(steps).do # "report" THEN NoKeys
                          ELSE Head(steps).of
  BY <1>0, ChangesThen
<1>2. /\ listening[n] => DOMAIN Changes(n, t)' = DOMAIN changes
      /\ listening[n] /\ DOMAIN changes # {} => Changes(n, t)' = changes
      /\ ~listening[n] => DOMAIN Changes(n, t)' = {}
      /\ Shaped(n, t)'
  <2>1. CASE listening[n] /\ DOMAIN changes # {}
    <3>1. todo'[n][t] = <<[do |-> "report", of |-> changes]>>
      BY <1>1, <2>1 DEF Reports
    <3>2. Changes(n, t)' = changes
      BY <3>1 DEF Changes, Free
    <3> QED BY <2>1, <3>1, <3>2 DEF Shaped
  <2>2. CASE ~ (listening[n] /\ DOMAIN changes # {})
    <3>1. todo'[n][t] = <<>>
      BY <1>1, <2>2 DEF Reports
    <3>2. DOMAIN Changes(n, t)' = {}
      BY <3>1 DEF Changes, Free, NoKeys
    <3> QED BY <2>2, <3>1, <3>2 DEF Shaped
  <2> QED BY <2>1, <2>2
<1>3. DOMAIN Changes(n, t) = {}
  BY NothingToTell
<1>4. NodeInv(n)
  BY DEF ReportsInv
<1>5. /\ mixed'[n] = (mixed[n] \ DOMAIN changes) \cup (DOMAIN changes \cap Reporting(n))
      /\ DOMAIN mixed' = ProtocolNodes
      /\ \A m \in ProtocolNodes \ {n} : mixed'[m] = mixed[m]
  BY <1>0 DEF ReportsInv, ReportDomains
<1>6. ReportDomains'
  BY <1>0, <1>1, <1>5 DEF ReportsInv, ReportDomains
<1>7. NodeShape(n)'
  BY <1>1, <1>2, <1>4 DEF NodeInv, NodeShape, Shaped
<1>8. Reporting(n)' = IF listening[n] THEN Reporting(n) \cup DOMAIN changes ELSE Reporting(n)
  BY <1>1, <1>2, <1>3 DEF Reporting
<1>9. NodeQuiet(n)'
  BY <1>0, <1>4, <1>8 DEF NodeInv, NodeQuiet
<1>10. ASSUME NEW p \in DOMAIN peers'[n] \ mixed'[n]
       PROVE  /\ \A u \in Threads : p \in DOMAIN Changes(n, u)' =>
                   /\ Changes(n, u)'[p] = peers'[n][p].state
                   /\ \A w \in Threads : p \in DOMAIN Changes(n, w)' => u = w
              /\ p \in DOMAIN heard'[n] \ Reporting(n)' => heard'[n][p] = peers'[n][p].state
  <2>1. CASE p \in DOMAIN changes
    <3>1. p \notin Reporting(n)
      BY <1>5, <1>10, <2>1
    <3>2. \A u \in Threads : p \notin DOMAIN Changes(n, u)
      BY <3>1 DEF Reporting
    <3>3. listening[n] => Changes(n, t)' = changes /\ p \in Reporting(n)'
      BY <1>2, <1>8, <2>1
    <3>4. ~listening[n] => p \notin DOMAIN heard'[n] /\ p \notin DOMAIN Changes(n, t)'
      BY <1>0, <1>2, <1>4 DEF NodeInv, NodeQuiet
    <3> QED BY <1>1, <2>1, <3>2, <3>3, <3>4
  <2>2. CASE p \notin DOMAIN changes
    <3>1. p \in DOMAIN peers[n] \ mixed[n] /\ peers'[n][p].state = peers[n][p].state
      BY <1>5, <1>10, <2>2
    <3>2. p \notin DOMAIN Changes(n, t)' /\ p \notin DOMAIN Changes(n, t)
      BY <1>2, <1>3, <2>2
    <3>3. p \in Reporting(n)' <=> p \in Reporting(n)
      BY <1>8, <2>2
    <3> QED BY <1>0, <1>1, <1>4, <3>1, <3>2, <3>3 DEF NodeInv, NodeCurrent
  <2> QED BY <2>1, <2>2
<1>11. NodeCurrent(n)'
  BY <1>10 DEF NodeCurrent
<1>12. NodeInv(n)'
  BY <1>7, <1>9, <1>11 DEF NodeInv
<1>13. \A m \in ProtocolNodes \ {n} :
        /\ peers'[m] = peers[m] /\ todo'[m] = todo[m] /\ heard'[m] = heard[m]
        /\ mixed'[m] = mixed[m] /\ listening'[m] = listening[m]
  BY <1>0, <1>1, <1>5
<1> QED BY <1>6, <1>12, <1>13, OtherNodes

-----------------------------------------------------------------------------
\* What is not about peers, reports or the callback
LEMMA ReportFrame ==
  ASSUME ReportsInv, UNCHANGED <<peers, todo, heard, mixed, listening>>
  PROVE  ReportsInv'
<1>1. \A n, t : Changes(n, t)' = Changes(n, t)
  BY DEF Changes, Free
<1>2. \A n : Reporting(n)' = Reporting(n)
  BY <1>1 DEF Reporting
<1>3. ASSUME NEW n \in ProtocolNodes PROVE NodeInv(n)'
  <2>1. NodeInv(n)
    BY DEF ReportsInv
  <2>2. NodeShape(n)'
    BY <1>1, <2>1 DEF NodeInv, NodeShape, Shaped
  <2>3. NodeCurrent(n)'
    BY <1>1, <1>2, <2>1 DEF NodeInv, NodeCurrent
  <2>4. NodeQuiet(n)'
    BY <1>2, <2>1 DEF NodeInv, NodeQuiet
  <2> QED BY <2>2, <2>3, <2>4 DEF NodeInv
<1> QED BY <1>3 DEF ReportsInv, ReportDomains

\* A step of node n that leaves what its threads have to do
LEMMA QuietStep ==
  ASSUME ReportsInv, NEW n \in ProtocolNodes, UNCHANGED todo, ReportDomains',
         \A m \in ProtocolNodes \ {n} :
           /\ peers'[m] = peers[m] /\ heard'[m] = heard[m]
           /\ mixed'[m] = mixed[m] /\ listening'[m] = listening[m],
         DOMAIN peers'[n] \subseteq Peers,
         NodeCurrent(n)', NodeQuiet(n)'
  PROVE  ReportsInv'
<1>1. \A t : Changes(n, t)' = Changes(n, t)
  BY DEF Changes, Free
<1>2. NodeShape(n)'
  BY <1>1 DEF ReportsInv, NodeInv, NodeShape, Shaped
<1>3. NodeInv(n)'
  BY <1>2 DEF NodeInv
<1>4. \A m \in ProtocolNodes \ {n} :
        /\ peers'[m] = peers[m] /\ todo'[m] = todo[m] /\ heard'[m] = heard[m]
        /\ mixed'[m] = mixed[m] /\ listening'[m] = listening[m]
  OBVIOUS
<1> QED BY <1>3, <1>4, OtherNodes

\* initialize: the node itself is nobody's report
LEMMA InitializeKeeps ==
  ASSUME ReportsInv, NEW n \in ProtocolNodes, Initialize(n)
  PROVE  ReportsInv'
<1>1. /\ peers' = [peers EXCEPT ![n] = With(@, n, Fresh)]
      /\ UNCHANGED <<todo, listening, heard, mixed>>
  BY DEF Initialize, reported
<1>2. /\ DOMAIN peers'[n] = DOMAIN peers[n] \cup {n} /\ peers'[n][n].state = "ACTIVE"
      /\ \A p \in DOMAIN peers[n] \ {n} : peers'[n][p] = peers[n][p]
      /\ DOMAIN peers' = ProtocolNodes
      /\ \A m \in ProtocolNodes \ {n} : peers'[m] = peers[m]
  BY <1>1 DEF ReportsInv, ReportDomains, With, Fresh
<1>3. \A t : Changes(n, t)' = Changes(n, t)
  BY <1>1 DEF Changes, Free
<1>4. Reporting(n)' = Reporting(n)
  BY <1>3 DEF Reporting
<1>5. NodeInv(n)
  BY DEF ReportsInv
<1>6. n \notin DOMAIN heard[n] /\ \A t \in Threads : n \notin DOMAIN Changes(n, t)
  BY <1>5 DEF NodeInv, NodeQuiet, Reporting
<1>7. NodeCurrent(n)'
  BY <1>1, <1>2, <1>3, <1>4, <1>5, <1>6 DEF NodeInv, NodeCurrent
<1>8. NodeQuiet(n)'
  BY <1>1, <1>2, <1>4, <1>5 DEF NodeInv, NodeQuiet
<1>9. DOMAIN peers'[n] \subseteq Peers
  BY <1>2, <1>5, ProtocolAssumption DEF NodeInv, NodeShape
<1>10. ReportDomains'
  BY <1>1, <1>2 DEF ReportsInv, ReportDomains
<1> QED BY <1>1, <1>2, <1>7, <1>8, <1>9, <1>10, QuietStep

\* registerPeer: nothing was told of the peer, or it is mixed up with who had its id
LEMMA RegisterKeeps ==
  ASSUME ReportsInv, NEW n \in ProtocolNodes, NEW p \in Peers, RegisterPeer(n, p)
  PROVE  ReportsInv'
<1>1. /\ p \notin DOMAIN peers[n]
      /\ peers' = [peers EXCEPT ![n] = With(@, p, Fresh)]
      /\ heard' = [heard EXCEPT ![n] = Without(@, {p})]
      /\ mixed' = [mixed EXCEPT ![n] = IF p \in Reporting(n) THEN @ \cup {p} ELSE @ \ {p}]
      /\ UNCHANGED <<todo, listening>>
  BY DEF RegisterPeer
<1>2. /\ DOMAIN peers'[n] = DOMAIN peers[n] \cup {p} /\ peers'[n][p].state = "ACTIVE"
      /\ \A q \in DOMAIN peers[n] : peers'[n][q] = peers[n][q]
      /\ DOMAIN peers' = ProtocolNodes
      /\ \A m \in ProtocolNodes \ {n} : peers'[m] = peers[m]
  BY <1>1 DEF ReportsInv, ReportDomains, With, Fresh
<1>3. /\ DOMAIN heard'[n] = DOMAIN heard[n] \ {p}
      /\ \A q \in DOMAIN heard'[n] : heard'[n][q] = heard[n][q]
      /\ DOMAIN heard' = ProtocolNodes
      /\ \A m \in ProtocolNodes \ {n} : heard'[m] = heard[m]
  BY <1>1 DEF ReportsInv, ReportDomains, Without
<1>4. /\ \A q : q # p => (q \in mixed'[n] <=> q \in mixed[n])
      /\ p \in mixed'[n] <=> p \in Reporting(n)
      /\ DOMAIN mixed' = ProtocolNodes
      /\ \A m \in ProtocolNodes \ {n} : mixed'[m] = mixed[m]
  BY <1>1 DEF ReportsInv, ReportDomains
<1>5. \A t : Changes(n, t)' = Changes(n, t)
  BY <1>1 DEF Changes, Free
<1>6. Reporting(n)' = Reporting(n)
  BY <1>5 DEF Reporting
<1>7. NodeInv(n)
  BY DEF ReportsInv
<1>8. ASSUME NEW q \in DOMAIN peers'[n] \ mixed'[n]
      PROVE  /\ \A t \in Threads : q \in DOMAIN Changes(n, t) =>
                  /\ Changes(n, t)[q] = peers'[n][q].state
                  /\ \A u \in Threads : q \in DOMAIN Changes(n, u) => t = u
             /\ q \in DOMAIN heard'[n] \ Reporting(n) => heard'[n][q] = peers'[n][q].state
  <2>1. CASE q = p
    <3>1. p \notin Reporting(n)
      BY <1>4, <1>8, <2>1
    <3>2. \A t \in Threads : p \notin DOMAIN Changes(n, t)
      BY <3>1 DEF Reporting
    <3> QED BY <1>3, <2>1, <3>2
  <2>2. CASE q # p
    <3>1. q \in DOMAIN peers[n] \ mixed[n] /\ peers'[n][q] = peers[n][q]
      BY <1>2, <1>4, <1>8, <2>2
    <3> QED BY <1>3, <1>7, <3>1 DEF NodeInv, NodeCurrent
  <2> QED BY <2>1, <2>2
<1>9. NodeCurrent(n)'
  BY <1>5, <1>6, <1>8 DEF NodeCurrent
<1>10. NodeQuiet(n)'
  BY <1>1, <1>2, <1>3, <1>6, <1>7 DEF NodeInv, NodeQuiet
<1>11. DOMAIN peers'[n] \subseteq Peers
  BY <1>2, <1>7 DEF NodeInv, NodeShape
<1>12. ReportDomains'
  BY <1>1, <1>2, <1>3, <1>4 DEF ReportsInv, ReportDomains
<1> QED BY <1>1, <1>2, <1>3, <1>4, <1>9, <1>10, <1>11, <1>12, QuietStep

\* deregisterPeer: of who has left nothing is promised
LEMMA DeregisterKeeps ==
  ASSUME ReportsInv, NEW n \in ProtocolNodes, NEW p, DeregisterPeer(n, p)
  PROVE  ReportsInv'
<1>1. /\ peers' = [peers EXCEPT ![n] = Without(@, {p})]
      /\ UNCHANGED <<todo, listening, heard, mixed>>
  BY DEF DeregisterPeer, reported
<1>2. /\ DOMAIN peers'[n] = DOMAIN peers[n] \ {p}
      /\ \A q \in DOMAIN peers'[n] : peers'[n][q] = peers[n][q]
      /\ DOMAIN peers' = ProtocolNodes
      /\ \A m \in ProtocolNodes \ {n} : peers'[m] = peers[m]
  BY <1>1 DEF ReportsInv, ReportDomains, Without
<1>3. \A t : Changes(n, t)' = Changes(n, t)
  BY <1>1 DEF Changes, Free
<1>4. Reporting(n)' = Reporting(n)
  BY <1>3 DEF Reporting
<1>5. NodeInv(n)
  BY DEF ReportsInv
<1>6. NodeCurrent(n)'
  <2>1. ASSUME NEW q \in DOMAIN peers'[n] \ mixed'[n]
        PROVE  /\ \A t \in Threads : q \in DOMAIN Changes(n, t) =>
                    /\ Changes(n, t)[q] = peers'[n][q].state
                    /\ \A u \in Threads : q \in DOMAIN Changes(n, u) => t = u
               /\ q \in DOMAIN heard'[n] \ Reporting(n) => heard'[n][q] = peers'[n][q].state
    <3>1. q \in DOMAIN peers[n] \ mixed[n] /\ peers'[n][q] = peers[n][q]
      BY <1>1, <1>2, <2>1
    <3> QED BY <1>1, <1>5, <3>1 DEF NodeInv, NodeCurrent
  <2> QED BY <1>3, <1>4, <2>1 DEF NodeCurrent
<1>7. NodeQuiet(n)'
  BY <1>1, <1>2, <1>4, <1>5 DEF NodeInv, NodeQuiet
<1>8. DOMAIN peers'[n] \subseteq Peers
  BY <1>2, <1>5 DEF NodeInv, NodeShape
<1>9. ReportDomains'
  BY <1>1, <1>2 DEF ReportsInv, ReportDomains
<1> QED BY <1>1, <1>2, <1>6, <1>7, <1>8, <1>9, QuietStep

\* setLivenessCallback: a new callback was told nothing yet
LEMMA CallbackKeeps ==
  ASSUME ReportsInv, NEW n \in ProtocolNodes, NEW set \in BOOLEAN,
         SetLivenessCallback(n, set)
  PROVE  ReportsInv'
<1>1. /\ Reporting(n) = {} /\ listening' = [listening EXCEPT ![n] = set]
      /\ heard' = [heard EXCEPT ![n] = NoKeys] /\ UNCHANGED <<peers, todo, mixed>>
  BY DEF SetLivenessCallback
<1>2. /\ DOMAIN heard'[n] = {} /\ DOMAIN heard' = ProtocolNodes
      /\ \A m \in ProtocolNodes \ {n} : heard'[m] = heard[m] /\ listening'[m] = listening[m]
      /\ listening' \in [ProtocolNodes -> BOOLEAN]
  BY <1>1 DEF ReportsInv, ReportDomains, NoKeys
<1>3. \A t : Changes(n, t)' = Changes(n, t)
  BY <1>1 DEF Changes, Free
<1>4. Reporting(n)' = Reporting(n)
  BY <1>3 DEF Reporting
<1>5. NodeInv(n)
  BY DEF ReportsInv
<1>6. NodeCurrent(n)'
  BY <1>1, <1>2, <1>3, <1>4, <1>5 DEF NodeInv, NodeCurrent
<1>7. NodeQuiet(n)'
  BY <1>1, <1>2, <1>4, <1>5 DEF NodeInv, NodeQuiet
<1>8. DOMAIN peers'[n] \subseteq Peers
  BY <1>1, <1>5 DEF NodeInv, NodeShape
<1>9. ReportDomains'
  BY <1>1, <1>2 DEF ReportsInv, ReportDomains
<1> QED BY <1>1, <1>2, <1>6, <1>7, <1>8, <1>9, QuietStep

\* recordHeartbeat
LEMMA HeartbeatKeeps ==
  ASSUME ReportsInv, NEW n \in ProtocolNodes, NEW t \in Threads, NEW p,
         RecordHeartbeat(n, t, p)
  PROVE  ReportsInv'
<1> DEFINE changed == {p} \ Active(n)
           changes == [q \in changed |-> "ACTIVE"]
<1>1. /\ Free(n, t) /\ p \in DOMAIN peers[n]
      /\ peers' = [peers EXCEPT ![n] = With(@, p, Fresh)]
      /\ ReportChanges(n, t, changes)
  BY DEF RecordHeartbeat
<1>2. /\ DOMAIN peers'[n] = DOMAIN peers[n] /\ peers'[n][p].state = "ACTIVE"
      /\ \A q \in DOMAIN peers[n] \ {p} : peers'[n][q] = peers[n][q]
      /\ DOMAIN peers' = ProtocolNodes
      /\ \A m \in ProtocolNodes \ {n} : peers'[m] = peers[m]
  BY <1>1 DEF ReportsInv, ReportDomains, With, Fresh
<1>3. /\ p \in changed <=> peers[n][p].state # "ACTIVE"
      /\ changed \subseteq {p}
  BY <1>1 DEF Active
<1>4. n \notin changed
  BY <1>1, <1>3 DEF ReportsInv, NodeInv, NodeQuiet
<1>5. \A q \in DOMAIN peers[n] \ changed : peers'[n][q].state = peers[n][q].state
  BY <1>2, <1>3
<1>6. \A q \in changed : changes[q] = peers'[n][q].state
  BY <1>2, <1>3
<1>7. DOMAIN changes = changed /\ changed \subseteq DOMAIN peers[n] \ {n}
  BY <1>1, <1>3, <1>4
<1> HIDE DEF changes, changed
<1> QED BY <1>1, <1>2, <1>5, <1>6, <1>7, ChangeKeeps

\* tickHeartbeat
LEMMA TickKeeps ==
  ASSUME ReportsInv, NEW n \in ProtocolNodes, NEW t \in Threads, TickHeartbeat(n, t)
  PROVE  ReportsInv'
<1> DEFINE changed == {p \in DOMAIN peers[n] : peers'[n][p].state # peers[n][p].state}
           changes == [p \in changed |-> peers'[n][p].state]
<1>1. /\ Free(n, t) /\ ReportChanges(n, t, changes)
      /\ peers' = [peers EXCEPT ![n] =
                     [p \in DOMAIN @ |-> IF p = n THEN @[p] ELSE Escalated(@[p])]]
  BY DEF TickHeartbeat
<1>2. /\ DOMAIN peers'[n] = DOMAIN peers[n]
      /\ n \in DOMAIN peers[n] => peers'[n][n] = peers[n][n]
      /\ DOMAIN peers' = ProtocolNodes
      /\ \A m \in ProtocolNodes \ {n} : peers'[m] = peers[m]
  BY <1>1 DEF ReportsInv, ReportDomains
<1>3. n \notin changed /\ changed \subseteq DOMAIN peers[n]
  BY <1>2
<1>4. \A q \in DOMAIN peers[n] \ changed : peers'[n][q].state = peers[n][q].state
  OBVIOUS
<1>5. DOMAIN changes = changed /\ \A q \in changed : changes[q] = peers'[n][q].state
  OBVIOUS
<1> HIDE DEF changes, changed
<1> QED BY <1>1, <1>2, <1>3, <1>4, <1>5, ChangeKeeps

-----------------------------------------------------------------------------
\* The callback is told of the least peer of those that changed (tickHeartbeat,
\* recordHeartbeat, after the lock)
LEMMA ReportKeeps ==
  ASSUME ReportsInv, NEW n \in ProtocolNodes, NEW t \in Threads, Report(n, t)
  PROVE  ReportsInv'
<1> DEFINE told == Changes(n, t)
           left == Without(told, {Least(DOMAIN told)})
<1>0. PICK p : p = Least(DOMAIN told)
  OBVIOUS
<1>1. /\ DOMAIN told # {} /\ Then(n, t, Reports(left))
      /\ heard' = [heard EXCEPT ![n] = With(@, p, told[p])]
      /\ UNCHANGED <<peers, listening, mixed>>
  BY <1>0 DEF Report
<1>2. NodeInv(n)
  BY DEF ReportsInv
<1>3. p \in DOMAIN told
  <2>1. DOMAIN told \subseteq Peers
    BY <1>2 DEF NodeInv, NodeShape
  <2> QED BY <1>0, <1>1, <2>1, LeastIsOne
<1>4. DOMAIN left = DOMAIN told \ {p} /\ \A q \in DOMAIN left : left[q] = told[q]
  BY <1>0 DEF Without
<1>5. /\ DOMAIN todo' = ProtocolNodes /\ DOMAIN todo'[n] = Threads
      /\ \A m \in ProtocolNodes \ {n} : todo'[m] = todo[m]
      /\ todo'[n][t] = Reports(left)
      /\ \A u \in Threads \ {t} : todo'[n][u] = todo[n][u] /\ Changes(n, u)' = Changes(n, u)
  BY <1>1, ChangesThen
<1>6. /\ DOMAIN Changes(n, t)' = DOMAIN told \ {p}
      /\ \A q \in DOMAIN told \ {p} : Changes(n, t)'[q] = told[q]
      /\ Shaped(n, t)'
  <2>1. CASE DOMAIN left = {}
    <3>1. todo'[n][t] = <<>>
      BY <1>5, <2>1 DEF Reports
    <3>2. DOMAIN Changes(n, t)' = {}
      BY <3>1 DEF Changes, Free, NoKeys
    <3> QED BY <1>4, <2>1, <3>1, <3>2 DEF Shaped
  <2>2. CASE DOMAIN left # {}
    <3>1. todo'[n][t] = <<[do |-> "report", of |-> left]>>
      BY <1>5, <2>2 DEF Reports
    <3>2. Changes(n, t)' = left
      BY <3>1 DEF Changes, Free
    <3> QED BY <1>4, <3>1, <3>2 DEF Shaped
  <2> QED BY <2>1, <2>2
<1>7. /\ DOMAIN heard'[n] = DOMAIN heard[n] \cup {p} /\ heard'[n][p] = told[p]
      /\ \A q \in DOMAIN heard[n] \ {p} : heard'[n][q] = heard[n][q]
      /\ DOMAIN heard' = ProtocolNodes
      /\ \A m \in ProtocolNodes \ {n} : heard'[m] = heard[m]
  BY <1>1 DEF ReportsInv, ReportDomains, With
<1>8. p \in Reporting(n) /\ Reporting(n)' \subseteq Reporting(n)
      /\ \A q \in Reporting(n) \ {p} : q \in Reporting(n)'
  BY <1>3, <1>5, <1>6 DEF Reporting
<1> HIDE DEF told, left
<1>9. ASSUME NEW q \in DOMAIN peers'[n] \ mixed'[n]
      PROVE  /\ \A u \in Threads : q \in DOMAIN Changes(n, u)' =>
                  /\ Changes(n, u)'[q] = peers'[n][q].state
                  /\ \A w \in Threads : q \in DOMAIN Changes(n, w)' => u = w
             /\ q \in DOMAIN heard'[n] \ Reporting(n)' => heard'[n][q] = peers'[n][q].state
  <2>1. q \in DOMAIN peers[n] \ mixed[n] /\ peers'[n][q] = peers[n][q]
    BY <1>1, <1>9
  <2>2. \A u \in Threads : q \in DOMAIN Changes(n, u)' =>
          q \in DOMAIN Changes(n, u) /\ Changes(n, u)'[q] = Changes(n, u)[q]
    BY <1>5, <1>6 DEF told
  <2>3. \A u \in Threads : q \in DOMAIN Changes(n, u) =>
          /\ Changes(n, u)[q] = peers[n][q].state
          /\ \A w \in Threads : q \in DOMAIN Changes(n, w) => u = w
    BY <1>2, <2>1 DEF NodeInv, NodeCurrent
  <2>4. \A u \in Threads : q \in DOMAIN Changes(n, u)' =>
          /\ Changes(n, u)'[q] = peers'[n][q].state
          /\ \A w \in Threads : q \in DOMAIN Changes(n, w)' => u = w
    BY <2>1, <2>2, <2>3
  <2>5. CASE q = p
    <3>1. told[p] = peers[n][q].state
      BY <1>3, <2>3, <2>5 DEF told
    <3> QED BY <1>7, <2>1, <2>4, <2>5, <3>1
  <2>6. CASE q # p
    <3>1. q \in DOMAIN heard'[n] \ Reporting(n)' =>
            q \in DOMAIN heard[n] \ Reporting(n) /\ heard'[n][q] = heard[n][q]
      BY <1>7, <1>8, <2>6
    <3>2. q \in DOMAIN heard[n] \ Reporting(n) => heard[n][q] = peers[n][q].state
      BY <1>2, <2>1 DEF NodeInv, NodeCurrent
    <3> QED BY <2>1, <2>4, <3>1, <3>2
  <2> QED BY <2>5, <2>6
<1>10. NodeCurrent(n)'
  BY <1>9 DEF NodeCurrent
<1>11. NodeQuiet(n)'
  BY <1>1, <1>2, <1>7, <1>8 DEF NodeInv, NodeQuiet
<1>12. NodeShape(n)'
  BY <1>1, <1>2, <1>5, <1>6 DEF NodeInv, NodeShape, Shaped, told
<1>13. NodeInv(n)'
  BY <1>10, <1>11, <1>12 DEF NodeInv
<1>14. ReportDomains'
  BY <1>1, <1>5, <1>7 DEF ReportsInv, ReportDomains
<1>15. \A m \in ProtocolNodes \ {n} :
        /\ peers'[m] = peers[m] /\ todo'[m] = todo[m] /\ heard'[m] = heard[m]
        /\ mixed'[m] = mixed[m] /\ listening'[m] = listening[m]
  BY <1>1, <1>5, <1>7
<1> QED BY <1>13, <1>14, <1>15, OtherNodes

\* What a thread has to do other than to report
Chore(steps) == steps = <<>> \/ Head(steps).do # "report"
Chores(n, t, steps) ==
  /\ Then(n, t, steps) /\ DOMAIN Changes(n, t) = {} /\ Chore(steps)
  /\ \/ steps = <<>> \/ \E x : steps = <<x>>
     \/ \E x, y : x.do # "report" /\ y.do # "report" /\ steps = <<x, y>>
  /\ UNCHANGED <<listening, mixed, heard>>

LEMMA ChoreKeeps ==
  ASSUME ReportsInv, NEW n \in ProtocolNodes, NEW t \in Threads, NEW steps,
         Chores(n, t, steps), UNCHANGED peers
  PROVE  ReportsInv'
<1>1. todo'[n][t] = steps
  BY ChangesThen DEF Chores
<1>2. Shaped(n, t)'
  BY <1>1 DEF Chores, Shaped
<1> QED BY <1>2, BookKeeps DEF Chores, Chore, ReportsInv, ReportDomains

\* shutdown: nothing is promised of peers that are gone
LEMMA ShutdownKeeps ==
  ASSUME ReportsInv, NEW n \in ProtocolNodes, NEW t \in Threads, Shutdown(n, t)
  PROVE  ReportsInv'
<1>1. DOMAIN Changes(n, t) = {}
  BY NothingToTell DEF Shutdown
<1>x. PICK x : x = [do |-> "clear offers"]
  OBVIOUS
<1>y. PICK y : y = [do |-> "clear ballots"]
  OBVIOUS
<1>2. /\ x = [do |-> "clear offers"] /\ y = [do |-> "clear ballots"]
      /\ x.do # "report" /\ y.do # "report"
  BY <1>x, <1>y
<1> DEFINE steps == <<x, y>>
<1>3. Then(n, t, steps) /\ UNCHANGED <<listening, mixed, heard>>
  BY <1>2 DEF Shutdown, reported
<1>4. Head(steps).do # "report"
  <2>1. Head(steps) = x
    OBVIOUS
  <2> QED BY <1>2, <2>1
<1>5. Shaped(n, t)'
  <2>1. todo'[n][t] = steps
    BY <1>3, ChangesThen
  <2> QED BY <1>2, <2>1 DEF Shaped
<1>6. /\ DOMAIN peers' = ProtocolNodes /\ DOMAIN peers'[n] = {}
      /\ \A m \in ProtocolNodes \ {n} : peers'[m] = peers[m]
  BY DEF Shutdown, ReportsInv, ReportDomains, NoKeys
<1> QED BY <1>1, <1>3, <1>4, <1>5, <1>6, BookKeeps

\* A thread with something else to do has nothing to report
LEMMA NoReport ==
  ASSUME NEW n, NEW t, ~Free(n, t), Head(todo[n][t]).do # "report"
  PROVE  DOMAIN Changes(n, t) = {}
  BY DEF Changes, NoKeys

\* The other maps are cleared one after the other
LEMMA ClearKeeps ==
  ASSUME ReportsInv, NEW n \in ProtocolNodes, NEW t \in Threads, ClearNext(n, t)
  PROVE  ReportsInv'
<1>1. /\ ~Free(n, t) /\ Head(todo[n][t]).do \in {"clear offers", "clear ballots"}
      /\ Then(n, t, Tail(todo[n][t])) /\ UNCHANGED <<peers, listening, mixed, heard>>
  BY DEF ClearNext, reported
<1>2. DOMAIN Changes(n, t) = {}
  BY <1>1, NoReport
<1>3. Shaped(n, t)
  BY DEF ReportsInv, NodeInv, NodeShape
<1>4. PICK steps : steps = Tail(todo[n][t])
  OBVIOUS
<1>5. steps = <<>> \/ \E y : y.do # "report" /\ steps = <<y>>
  <2>1. CASE \E x : todo[n][t] = <<x>>
    BY <1>4, <2>1
  <2>2. CASE \E x, y : x.do # "report" /\ y.do # "report" /\ todo[n][t] = <<x, y>>
    BY <1>4, <2>2
  <2> QED BY <1>1, <1>3, <2>1, <2>2 DEF Shaped, Free
<1>6. Chore(steps)
  BY <1>5 DEF Chore
<1>7. Chores(n, t, steps)
  BY <1>1, <1>2, <1>4, <1>5, <1>6 DEF Chores
<1> QED BY <1>1, <1>7, ChoreKeeps

\* An election or an offer is begun
LEMMA BeginKeeps ==
  ASSUME ReportsInv, NEW n \in ProtocolNodes, NEW t \in Threads, Free(n, t),
         NEW x, Then(n, t, <<x>>), x.do # "report",
         UNCHANGED <<peers, listening, mixed, heard>>
  PROVE  ReportsInv'
<1>1. DOMAIN Changes(n, t) = {}
  BY NothingToTell
<1>2. PICK steps : steps = <<x>>
  OBVIOUS
<1>3. Chore(steps)
  BY <1>2 DEF Chore
<1>4. Chores(n, t, steps)
  BY <1>1, <1>2, <1>3 DEF Chores
<1> QED BY <1>4, ChoreKeeps

\* It is ended
LEMMA EndKeeps ==
  ASSUME ReportsInv, NEW n \in ProtocolNodes, NEW t \in Threads, ~Free(n, t),
         Head(todo[n][t]).do # "report", Then(n, t, <<>>),
         UNCHANGED <<peers, listening, mixed, heard>>
  PROVE  ReportsInv'
<1>1. DOMAIN Changes(n, t) = {}
  BY NoReport
<1>2. Chores(n, t, <<>>)
  BY <1>1 DEF Chores, Chore
<1> QED BY <1>2, ChoreKeeps

LEMMA PeerStepKeeps ==
  ASSUME ReportsInv, NEW n \in ProtocolNodes, PeerStep(n, Peers)
  PROVE  ReportsInv'
<1>1. CASE Initialize(n)
  BY <1>1, InitializeKeeps
<1>2. CASE \E p \in Peers : RegisterPeer(n, p)
  BY <1>2, RegisterKeeps
<1>3. CASE \E p \in Peers : DeregisterPeer(n, p)
  BY <1>3, DeregisterKeeps
<1>4. CASE \E set \in BOOLEAN : SetLivenessCallback(n, set)
  BY <1>4, CallbackKeeps
<1>5. CASE \E t \in Threads : Shutdown(n, t)
  BY <1>5, ShutdownKeeps
<1>6. CASE \E t \in Threads : ClearNext(n, t)
  BY <1>6, ClearKeeps
<1>7. CASE \E t \in Threads, p \in Peers : RecordHeartbeat(n, t, p)
  BY <1>7, HeartbeatKeeps
<1>8. CASE \E t \in Threads : TickHeartbeat(n, t)
  BY <1>8, TickKeeps
<1>9. CASE \E t \in Threads : Report(n, t)
  BY <1>9, ReportKeeps
<1> QED BY <1>1, <1>2, <1>3, <1>4, <1>5, <1>6, <1>7, <1>8, <1>9 DEF PeerStep

LEMMA BookStepKeeps ==
  ASSUME ReportsInv, NEW n \in ProtocolNodes, BookStep(n, Peers)
  PROVE  ReportsInv'
<1>1. ASSUME NEW t \in Threads, ElectLeader(n, t) PROVE ReportsInv'
  <2>1. PICK x : x = [do |-> "lead", peer |-> Winner(n)]
    OBVIOUS
  <2>2. x.do # "report" /\ Then(n, t, <<x>>) /\ Free(n, t)
        /\ UNCHANGED <<peers, listening, mixed, heard>>
    BY <1>1, <2>1 DEF ElectLeader, reported
  <2> QED BY <2>2, BeginKeeps
<1>2. ASSUME NEW t \in Threads, NEW p, InitiateHandoff(n, t, p) PROVE ReportsInv'
  <2>1. PICK x : x = [do |-> "offer", peer |-> IF p = 0 THEN Least(Active(n) \ {n}) ELSE p]
    OBVIOUS
  <2>2. x.do # "report" /\ Then(n, t, <<x>>) /\ Free(n, t)
        /\ UNCHANGED <<peers, listening, mixed, heard>>
    BY <1>2, <2>1 DEF InitiateHandoff, reported
  <2> QED BY <2>2, BeginKeeps
<1>3. ASSUME NEW t \in Threads, StoreLeader(n, t) PROVE ReportsInv'
  BY <1>3, EndKeeps DEF StoreLeader, reported
<1>4. ASSUME NEW t \in Threads, NEW r, RecordOffer(n, t, r) PROVE ReportsInv'
  BY <1>4, EndKeeps DEF RecordOffer, reported
<1>5. CASE UNCHANGED <<peers, todo, heard, mixed, listening>>
  BY <1>5, ReportFrame
<1>6. (\E p \in Peers : SetLeader(n, p)) \/ (\E r \in OfferIds : AcceptHandoff(n, r))
        \/ (\E b \in BallotIds : CreateBallot(n, b))
        \/ (\E b \in BallotIds, p \in Peers, v \in BOOLEAN : CastBallot(n, b, p, v))
      => UNCHANGED <<peers, todo, heard, mixed, listening>>
  BY DEF SetLeader, AcceptHandoff, CreateBallot, CastBallot, reported
<1> QED BY <1>1, <1>2, <1>3, <1>4, <1>5, <1>6 DEF BookStep

\* What a callback was last told of a peer is its state, unless the peer changed while a
\* change of it was still to be reported (CoordinationProtocol::recordHeartbeat,
\* tickHeartbeat, which report after they have released the lock)
THEOREM ReportsStayCurrent == ProtocolSpec => []ReportsAreCurrent
<1>1. ProtocolInit => ReportsInv
  <2> SUFFICES ASSUME ProtocolInit, NEW n \in ProtocolNodes PROVE NodeInv(n)
    BY DEF ProtocolInit, ReportsInv, ReportDomains
  <2>1. \A t \in Threads : todo[n][t] = <<>> /\ DOMAIN Changes(n, t) = {}
    BY NothingToTell DEF ProtocolInit, Free
  <2>2. Reporting(n) = {} /\ DOMAIN peers[n] = {} /\ DOMAIN heard[n] = {}
        /\ DOMAIN todo[n] = Threads
    BY <2>1 DEF Reporting, ProtocolInit, NoKeys
  <2> QED BY <2>1, <2>2 DEF NodeInv, NodeShape, NodeCurrent, NodeQuiet, Shaped
<1>2. ReportsInv /\ [ProtocolNext]_protocolVars => ReportsInv'
  <2> SUFFICES ASSUME ReportsInv, [ProtocolNext]_protocolVars PROVE ReportsInv'
    OBVIOUS
  <2>1. CASE ProtocolNext
    BY <2>1, PeerStepKeeps, BookStepKeeps DEF ProtocolNext
  <2>2. CASE UNCHANGED protocolVars
    BY <2>2, ReportFrame DEF protocolVars, reported
  <2> QED BY <2>1, <2>2
<1>3. ReportsInv => ReportsAreCurrent
  BY DEF ReportsInv, NodeInv, NodeCurrent, ReportsAreCurrent
<1> QED BY <1>1, <1>2, <1>3, PTL DEF ProtocolSpec

(***************************************************************************)
(* Agents: what is counted is there                                        *)
(***************************************************************************)
ActiveTypes == IsFiniteSet(DOMAIN registered) /\ agentCounts \in [total : Int, active : Int]

SharesTypes ==
  /\ DOMAIN available \subseteq {"resource"} /\ DOMAIN stock = DOMAIN available
  /\ \A t \in DOMAIN available : available[t] \in Int /\ stock[t] \in {<<>>} \cup {<<k>> : k \in Nat}
  /\ IsFiniteSet(DOMAIN grants) /\ \A r \in DOMAIN grants : grants[r] \in Nat

CoordinatorInv == ActiveTypes /\ HealthIsReal /\ SharesTypes /\ GrantsBalance

LEMMA GrantedIsSum == Granted = SumOf(grants, DOMAIN grants) /\ Granted' = SumOf(grants', DOMAIN grants')
<1>1. Granted = SumOf(grants, DOMAIN grants)
  BY DEF Granted, SumOf
<1>2. Granted' = SumOf(grants', DOMAIN grants')
  BY DEF Granted, SumOf, MapThenSumSet, MapThenFoldSet
<1> QED BY <1>1, <1>2

LEMMA CoordinatorStarts == CoordinatorInit => CoordinatorInv
<1> SUFFICES ASSUME CoordinatorInit PROVE CoordinatorInv
  OBVIOUS
<1>1. DOMAIN NoKeys = {}
  BY DEF NoKeys
<1>2. ActiveTypes /\ SharesTypes /\ GrantsBalance
  BY <1>1, FS_EmptySet DEF CoordinatorInit, ActiveTypes, SharesTypes, GrantsBalance
<1>3. HealthIsReal
  <2>1. ActiveAgents = {}
    BY <1>1 DEF CoordinatorInit, ActiveAgents
  <2> QED BY <2>1, FS_EmptySet DEF CoordinatorInit, HealthIsReal
<1> QED BY <1>2, <1>3 DEF CoordinatorInv

\* Agents come, go and change their status; the counter of the active ones stays below
LEMMA AgentsKeep ==
  ASSUME ActiveTypes, HealthIsReal, NEW a \in AgentIds,
         RegisterAgent(a) \/ UnregisterAgent(a) \/ \E s \in AgentStatuses : UpdateAgentStatus(a, s)
  PROVE  ActiveTypes' /\ HealthIsReal'
<1> DEFINE c == agentCounts.active
           A == ActiveAgents
<1>1. c \in Int /\ IsFiniteSet(A) /\ Cardinality(A) \in Nat /\ agentCounts.total \in Int
  BY FS_Subset, FS_CardinalityType DEF ActiveTypes, ActiveAgents
<1>2. everShut' = everShut /\ (~everShut => c <= Cardinality(A))
  BY DEF HealthIsReal, RegisterAgent, UnregisterAgent, UpdateAgentStatus, lifecycle
<1>3. /\ Cardinality(A \cup {a}) = IF a \in A THEN Cardinality(A) ELSE Cardinality(A) + 1
      /\ Cardinality(A \ {a}) = IF a \in A THEN Cardinality(A) - 1 ELSE Cardinality(A)
      /\ a \in A => Cardinality(A) >= 1
  <2> HIDE DEF A
  <2>1. /\ Cardinality(A \cup {a}) = IF a \in A THEN Cardinality(A) ELSE Cardinality(A) + 1
        /\ Cardinality(A \ {a}) = IF a \in A THEN Cardinality(A) - 1 ELSE Cardinality(A)
    BY <1>1, FS_AddElement, FS_RemoveElement
  <2>2. Cardinality(A \ {a}) \in Nat
    BY <1>1, FS_RemoveElement, FS_CardinalityType
  <2> QED BY <1>1, <2>1, <2>2
<1>4. CASE RegisterAgent(a)
  <2>1. ActiveAgents' = A \cup {a} /\ a \notin A /\ DOMAIN registered' = DOMAIN registered \cup {a}
    BY <1>4 DEF RegisterAgent, With, ActiveAgents
  <2>2. agentCounts' = [total |-> agentCounts.total + 1, active |-> c + 1]
    BY <1>4 DEF RegisterAgent
  <2>3. ActiveTypes'
    BY <1>1, <2>1, <2>2, FS_AddElement DEF ActiveTypes
  <2> HIDE DEF A, c
  <2> QED BY <1>1, <1>2, <1>3, <2>1, <2>2, <2>3 DEF HealthIsReal
<1>5. CASE UnregisterAgent(a)
  <2>1. ActiveAgents' = A \ {a} /\ DOMAIN registered' = DOMAIN registered \ {a}
    BY <1>5 DEF UnregisterAgent, Without, ActiveAgents
  <2>2. agentCounts' = [total |-> agentCounts.total - 1, active |-> OneLess(c)]
    BY <1>5 DEF UnregisterAgent
  <2>3. OneLess(c) \in Int /\ OneLess(c) <= c /\ (c > 0 => OneLess(c) = c - 1)
    BY <1>1 DEF OneLess
  <2>4. ActiveTypes'
    BY <1>1, <2>1, <2>2, <2>3, FS_RemoveElement DEF ActiveTypes
  <2> HIDE DEF A, c
  <2> QED BY <1>1, <1>2, <1>3, <2>1, <2>2, <2>3, <2>4 DEF HealthIsReal
<1>6. ASSUME NEW s \in AgentStatuses, UpdateAgentStatus(a, s)
      PROVE  ActiveTypes' /\ HealthIsReal'
  <2>1. /\ DOMAIN registered' = DOMAIN registered /\ a \in DOMAIN registered
        /\ ActiveAgents' = IF s = "active" THEN A \cup {a} ELSE A \ {a}
        /\ a \in A <=> registered[a] = "active"
    BY <1>6 DEF UpdateAgentStatus, ActiveAgents
  <2>2. /\ OneLess(c) \in Int /\ OneLess(c) <= c /\ (c > 0 => OneLess(c) = c - 1)
    BY <1>1 DEF OneLess
  <2>3. /\ agentCounts' \in [total : Int, active : Int]
        /\ agentCounts'.active = IF a \in A /\ s # "active" THEN OneLess(c)
                                 ELSE IF a \notin A /\ s = "active" THEN c + 1 ELSE c
    <3>1. CASE a \in A /\ s # "active"
      BY <1>1, <1>6, <2>1, <2>2, <3>1 DEF UpdateAgentStatus, ActiveTypes
    <3>2. CASE a \notin A /\ s = "active"
      BY <1>1, <1>6, <2>1, <2>2, <3>2 DEF UpdateAgentStatus, ActiveTypes
    <3>3. CASE ~ (a \in A /\ s # "active") /\ ~ (a \notin A /\ s = "active")
      BY <1>1, <1>6, <2>1, <2>2, <3>3 DEF UpdateAgentStatus, ActiveTypes
    <3> QED BY <3>1, <3>2, <3>3
  <2>4. ActiveTypes'
    BY <2>1, <2>3 DEF ActiveTypes
  <2> HIDE DEF A, c
  <2> QED BY <1>1, <1>2, <1>3, <2>1, <2>2, <2>3, <2>4 DEF HealthIsReal, c
<1> QED BY <1>4, <1>5, <1>6

\* What one request has or gives back is what the sum gains or loses
LEMMA SharesKeep ==
  ASSUME SharesTypes, GrantsBalance, ShareStep
  PROVE  SharesTypes' /\ GrantsBalance'
<1>1. Granted \in Nat /\ Granted = SumOf(grants, DOMAIN grants) /\ Granted' = SumOf(grants', DOMAIN grants')
  BY GrantedIsSum, SumIsTotal DEF SharesTypes
<1>2. ASSUME NEW k \in Shares, RegisterResource(k)
      PROVE  SharesTypes' /\ GrantsBalance'
  <2>1. k \in Nat /\ DOMAIN available' = {"resource"} /\ DOMAIN stock' = {"resource"} /\ grants' = grants
        /\ available'["resource"] = k
        /\ stock'["resource"] = IF grants = NoKeys THEN <<k>> ELSE <<>>
    BY <1>2, CoordinatorAssumption DEF RegisterResource, With, SharesTypes
  <2>2. SharesTypes'
    BY <2>1 DEF SharesTypes
  <2>3. stock'["resource"] # <<>> => grants = NoKeys /\ stock'["resource"][1] = k
    BY <2>1
  <2>4. grants = NoKeys => Granted' = 0
    BY <1>1, <2>1, SumOfNone DEF NoKeys
  <2> QED BY <2>1, <2>2, <2>3, <2>4 DEF GrantsBalance
<1>3. ASSUME NEW k \in Shares, NEW r \in RequestIds, RequestResource(r, k)
      PROVE  SharesTypes' /\ GrantsBalance'
  <2>1. /\ k \in Nat /\ r \notin DOMAIN grants /\ DOMAIN available = {"resource"}
        /\ available["resource"] \in Int /\ available["resource"] >= k /\ stock' = stock
        /\ DOMAIN available' = {"resource"} /\ available'["resource"] = available["resource"] - k
        /\ DOMAIN grants' = DOMAIN grants \cup {r} /\ grants'[r] = k
        /\ \A q \in DOMAIN grants : grants'[q] = grants[q]
    BY <1>3, CoordinatorAssumption DEF RequestResource, Suffices, With, SharesTypes
  <2>2. SharesTypes'
    BY <2>1, FS_AddElement DEF SharesTypes
  <2>3. SumOf(grants', DOMAIN grants') = SumOf(grants', DOMAIN grants) + SumOf(grants', {r})
    <3>1. IsFiniteSet(DOMAIN grants) /\ IsFiniteSet({r}) /\ DOMAIN grants \cap {r} = {}
          /\ \A x \in DOMAIN grants \cup {r} : grants'[x] \in Nat
      <4>1. IsFiniteSet(DOMAIN grants) /\ \A q \in DOMAIN grants : grants[q] \in Nat
        BY DEF SharesTypes
      <4>2. \A x \in DOMAIN grants \cup {r} : grants'[x] \in Nat
        BY <2>1, <4>1
      <4>3. DOMAIN grants \cap {r} = {}
        BY <2>1
      <4>4. IsFiniteSet({r})
        BY FS_Singleton
      <4> QED BY <4>1, <4>2, <4>3, <4>4
    <3>2. SumOf(grants', DOMAIN grants \cup {r}) = SumOf(grants', DOMAIN grants) + SumOf(grants', {r})
      <4> DEFINE G == DOMAIN grants
      <4>1. IsFiniteSet(G) /\ IsFiniteSet({r}) /\ G \cap {r} = {} /\ \A x \in G \cup {r} : grants'[x] \in Nat
        BY <3>1
      <4> HIDE DEF G
      <4>2. SumOf(grants', G \cup {r}) = SumOf(grants', G) + SumOf(grants', {r})
        BY <4>1, SumOfTwo
      <4> QED BY <4>2 DEF G
    <3>3. DOMAIN grants' = DOMAIN grants \cup {r}
      BY <2>1
    <3> QED BY <3>2, <3>3
  <2>4. SumOf(grants', DOMAIN grants) = SumOf(grants, DOMAIN grants)
    BY <2>1, SameSum DEF SharesTypes
  <2>5. SumOf(grants', {r}) = k
    BY <2>1, SumOfOne
  <2>6. Granted' = Granted + k
    BY <1>1, <2>3, <2>4, <2>5
  <2> QED BY <1>1, <2>1, <2>2, <2>6 DEF GrantsBalance, SharesTypes
<1>4. ASSUME NEW r \in RequestIds, ReleaseResource(r)
      PROVE  SharesTypes' /\ GrantsBalance'
  <2>1. /\ r \in DOMAIN grants /\ grants[r] \in Nat /\ stock' = stock
        /\ DOMAIN available' = DOMAIN available
        /\ \A t \in DOMAIN available : available'[t] = available[t] + grants[r]
        /\ DOMAIN grants' = DOMAIN grants \ {r}
        /\ \A q \in DOMAIN grants \ {r} : grants'[q] = grants[q]
    BY <1>4 DEF ReleaseResource, Without, SharesTypes
  <2>2. SharesTypes'
    BY <2>1, FS_RemoveElement DEF SharesTypes
  <2> DEFINE D == DOMAIN grants \ {r}
  <2>3. D \cup {r} = DOMAIN grants /\ IsFiniteSet(D) /\ IsFiniteSet({r}) /\ D \cap {r} = {}
        /\ \A x \in D \cup {r} : grants[x] \in Nat
    <3>1. IsFiniteSet(DOMAIN grants)
      BY DEF SharesTypes
    <3>2. IsFiniteSet(DOMAIN grants \ {r}) /\ IsFiniteSet({r})
      BY <3>1, FS_RemoveElement, FS_Singleton
    <3> QED BY <2>1, <3>2 DEF SharesTypes
  <2>4. SumOf(grants, D \cup {r}) = SumOf(grants, D) + SumOf(grants, {r}) /\ SumOf(grants, D) \in Nat
    <3> HIDE DEF D
    <3> QED BY <2>3, SumOfTwo
  <2>5. SumOf(grants, {r}) = grants[r]
    BY <2>1, SumOfOne
  <2>6. SumOf(grants', D) = SumOf(grants, D)
    BY <2>1, <2>3, SameSum
  <2>7. Granted = Granted' + grants[r] /\ Granted' \in Nat
    <3>1. DOMAIN grants' = D
      BY <2>1
    <3>2. Granted' = SumOf(grants, D)
      BY <1>1, <2>6, <3>1
    <3>3. Granted = SumOf(grants, D) + SumOf(grants, {r})
      BY <1>1, <2>3, <2>4
    <3> HIDE DEF D
    <3> QED BY <2>4, <2>5, <3>2, <3>3
  <2>8. ASSUME NEW t \in DOMAIN available
        PROVE  available'[t] >= 0 /\ (stock[t] # <<>> => available'[t] + Granted' = stock[t][1])
    <3>1. available[t] \in Int /\ available'[t] = available[t] + grants[r] /\ available[t] >= 0
          /\ (stock[t] # <<>> => available[t] + Granted = stock[t][1])
      BY <2>1 DEF SharesTypes, GrantsBalance
    <3> QED BY <2>1, <2>7, <3>1
  <2>9. GrantsBalance'
    BY <2>1, <2>8 DEF GrantsBalance
  <2> QED BY <2>2, <2>9
<1> QED BY <1>2, <1>3, <1>4 DEF ShareStep

LEMMA CoordinatorFrame ==
  /\ ActiveTypes /\ HealthIsReal /\ UNCHANGED <<agentState, everShut>> => ActiveTypes' /\ HealthIsReal'
  /\ SharesTypes /\ GrantsBalance /\ UNCHANGED shareState => SharesTypes' /\ GrantsBalance'
<1>1. ASSUME ActiveTypes, HealthIsReal, UNCHANGED <<agentState, everShut>> PROVE ActiveTypes' /\ HealthIsReal'
  BY <1>1 DEF agentState, ActiveTypes, HealthIsReal, ActiveAgents
<1>2. ASSUME SharesTypes, GrantsBalance, UNCHANGED shareState PROVE SharesTypes' /\ GrantsBalance'
  BY <1>2, GrantedIsSum DEF shareState, SharesTypes, GrantsBalance
<1> QED BY <1>1, <1>2

LEMMA CoordinatorStep ==
  ASSUME CoordinatorInv, [CoordinatorNext]_coordinatorVars
  PROVE  CoordinatorInv'
<1> USE CoordinatorFrame DEF CoordinatorInv
<1>1. CASE UNCHANGED coordinatorVars
  BY <1>1 DEF coordinatorVars, lifecycle
<1>2. CASE StartCoordinator
  BY <1>2 DEF StartCoordinator
<1>3. CASE ShutCoordinator
  <2>1. everShut' /\ UNCHANGED <<agentCounts, shareState>> /\ DOMAIN registered' = {}
    BY <1>3 DEF ShutCoordinator, NoKeys
  <2> QED BY <2>1, FS_EmptySet DEF ActiveTypes, HealthIsReal
<1>4. CASE ClearNextMap
  <2>1. UNCHANGED <<agentState, everShut>>
    BY <1>4 DEF ClearNextMap
  <2>2. CASE UNCHANGED shareState
    BY <2>1, <2>2
  <2>3. CASE available' = NoKeys /\ grants' = NoKeys /\ stock' = NoKeys
    <3>1. DOMAIN NoKeys = {}
      BY DEF NoKeys
    <3>2. SharesTypes' /\ GrantsBalance'
      BY <2>3, <3>1, FS_EmptySet DEF SharesTypes, GrantsBalance
    <3> QED BY <2>1, <3>2
  <2> QED BY <1>4, <2>2, <2>3 DEF ClearNextMap, ClearMap
<1>5. CASE AgentStep
  <2>1. UNCHANGED shareState
    BY <1>5 DEF AgentStep, RegisterAgent, UnregisterAgent, UpdateAgentStatus
  <2> QED BY <1>5, <2>1, AgentsKeep DEF AgentStep
<1>6. CASE CoordinatedTaskStep
  <2>1. UNCHANGED <<agentState, everShut, shareState>>
    BY <1>6 DEF CoordinatedTaskStep, CreateTask, FindAgents, AssignTo, SetTaskStatus, AssignBest, lifecycle
  <2> QED BY <2>1
<1>7. CASE VoteStep
  <2>1. UNCHANGED <<agentState, everShut, shareState>>
    BY <1>7 DEF VoteStep, CreateProposal, CastVote, lifecycle
  <2> QED BY <2>1
<1>8. CASE ShareStep
  <2>1. UNCHANGED <<agentState, everShut>>
    BY <1>8 DEF ShareStep, RegisterResource, RequestResource, ReleaseResource, lifecycle
  <2> QED BY <1>8, <2>1, SharesKeep
<1> QED BY <1>1, <1>2, <1>3, <1>4, <1>5, <1>6, <1>7, <1>8 DEF CoordinatorNext, LifeStep

\* isHealthy() asks a counter that is never above the active agents before the first shutdown;
\* and what is granted and what is available add up to what was registered, for any agents,
\* requests and amounts (registerAgent, unregisterAgent, updateAgentStatus, requestResource,
\* releaseResource, shutdown).
THEOREM CoordinatorAlwaysAddsUp == CoordinatorSpec => []CoordinatorAddsUp
<1>1. CoordinatorInv => CoordinatorAddsUp
  BY DEF CoordinatorInv, CoordinatorAddsUp
<1>2. CoordinatorInv /\ [CoordinatorNext]_coordinatorVars => CoordinatorInv'
  BY CoordinatorStep
<1> QED BY <1>1, <1>2, CoordinatorStarts, PTL DEF CoordinatorSpec

(***************************************************************************)
(* Tools: pools and what is taken from them                                *)
(***************************************************************************)
Allocations == [id : Nat, requester : Requesters, amount : Nat, expires : {"never", "later", "now"}]
PoolRecords ==
  [total : Nat, available : Nat, allocated : Nat, calls : Nat, held : SUBSET Allocations, cut : BOOLEAN]
AmountIn == [a \in Allocations |-> a.amount]

PoolTypeOK(p) ==
  /\ p \in PoolRecords
  /\ IsFiniteSet(p.held)
  /\ \A a \in p.held : a.id <= p.calls
  /\ \A a, b \in p.held : a.id = b.id => a = b
PoolBalances(p) ==
  /\ p.allocated = SumOf(AmountIn, p.held)
  /\ p.available + p.allocated >= p.total
  /\ ~p.cut => p.available + p.allocated = p.total
PoolOK(p) == PoolTypeOK(p) /\ PoolBalances(p)
ResourceInv ==
  /\ \A n \in DOMAIN pool : PoolOK(pool[n])
  /\ \A c \in chosen : c.request \in Requests

LEMMA AmountIsSum ==
  ASSUME NEW S, S \subseteq Allocations, IsFiniteSet(S)
  PROVE  AmountOf(S) = SumOf(AmountIn, S) /\ SumOf(AmountIn, S) \in Nat
<1>1. AmountOf(S) = SumOf([a \in S |-> a.amount], S)
  BY DEF AmountOf, SumOf, MapThenSumSet, MapThenFoldSet
<1>2. \A a \in S : AmountIn[a] \in Nat /\ [b \in S |-> b.amount][a] = AmountIn[a]
  BY DEF AmountIn, Allocations
<1>3. SumOf(AmountIn, S) = SumOf([a \in S |-> a.amount], S)
  BY <1>2, SameSum
<1> QED BY <1>1, <1>2, <1>3, SumIsTotal

\* What is taken out of a set leaves the rest
LEMMA AmountOfRest ==
  ASSUME NEW H, H \subseteq Allocations, IsFiniteSet(H), NEW S, S \subseteq H
  PROVE  /\ IsFiniteSet(S) /\ IsFiniteSet(H \ S)
         /\ SumOf(AmountIn, H \ S) = SumOf(AmountIn, H) - SumOf(AmountIn, S)
         /\ SumOf(AmountIn, S) \in Nat /\ SumOf(AmountIn, H \ S) \in Nat /\ SumOf(AmountIn, H) \in Nat
<1> DEFINE R == H \ S
<1>1. IsFiniteSet(S) /\ IsFiniteSet(R) /\ S \cap R = {} /\ S \cup R = H
  BY FS_Subset
<1>2. \A x \in S \cup R : AmountIn[x] \in Nat
  BY <1>1 DEF AmountIn, Allocations
<1> HIDE DEF R
<1>3. /\ SumOf(AmountIn, S \cup R) = SumOf(AmountIn, S) + SumOf(AmountIn, R)
      /\ SumOf(AmountIn, S) \in Nat /\ SumOf(AmountIn, R) \in Nat
  BY <1>1, <1>2, SumOfTwo
<1>4. SumOf(AmountIn, H) = SumOf(AmountIn, S) + SumOf(AmountIn, R)
  BY <1>1, <1>3
<1> QED BY <1>1, <1>3, <1>4 DEF R

LEMMA ReleaseKeeps ==
  ASSUME NEW p, PoolOK(p), NEW S, S \subseteq p.held
  PROVE  PoolOK(Release(p, S))
<1> DEFINE q == Release(p, S)
           k == SumOf(AmountIn, S)
<1>1. p.held \subseteq Allocations /\ IsFiniteSet(p.held)
  BY DEF PoolOK, PoolTypeOK, PoolRecords
<1>2. /\ AmountOf(S) = k /\ k \in Nat /\ IsFiniteSet(p.held \ S)
      /\ SumOf(AmountIn, p.held \ S) = SumOf(AmountIn, p.held) - k
      /\ SumOf(AmountIn, p.held \ S) \in Nat
  BY <1>1, AmountIsSum, AmountOfRest
<1> HIDE DEF k
<1>3. /\ p.total \in Nat /\ p.available \in Nat /\ p.allocated \in Nat /\ p.calls \in Nat /\ p.cut \in BOOLEAN
      /\ p.allocated = SumOf(AmountIn, p.held)
  BY DEF PoolOK, PoolTypeOK, PoolRecords, PoolBalances
<1>4. p.available + k \in Nat /\ p.allocated - k \in Nat
  BY <1>2, <1>3
<1>5. /\ q \in PoolRecords
      /\ q.total = p.total /\ q.available = p.available + k /\ q.allocated = p.allocated - k
      /\ q.calls = p.calls /\ q.held = p.held \ S /\ q.cut = p.cut
  BY <1>2, <1>4 DEF Release, PoolOK, PoolTypeOK, PoolRecords
<1> HIDE DEF q
<1>6. PoolTypeOK(q)
  BY <1>1, <1>2, <1>3, <1>4, <1>5 DEF PoolOK, PoolTypeOK, PoolRecords
<1>7. PoolBalances(q)
  BY <1>2, <1>3, <1>4, <1>5 DEF PoolOK, PoolTypeOK, PoolRecords, PoolBalances
<1> QED BY <1>6, <1>7 DEF PoolOK, q

LEMMA AllocateKeeps ==
  ASSUME NEW p, PoolOK(p), NEW r \in Requests
  PROVE  PoolOK(Allocated(p, r))
<1>1. /\ p \in PoolRecords
      /\ IsFiniteSet(p.held) /\ p.held \subseteq Allocations
      /\ r.amount \in Nat /\ r.requester \in Requesters /\ r.expires \in {"never", "later"}
  BY ResourceAssumption DEF PoolOK, PoolTypeOK, PoolRecords, Requests
<1>2. CASE r.amount > p.available
  <2>1. Allocated(p, r) = [p EXCEPT !.calls = @ + 1]
    BY <1>2 DEF Allocated
  <2>2. /\ Allocated(p, r).held = p.held /\ Allocated(p, r).calls = p.calls + 1
        /\ Allocated(p, r).available = p.available /\ Allocated(p, r).allocated = p.allocated
        /\ Allocated(p, r).total = p.total /\ Allocated(p, r).cut = p.cut
        /\ Allocated(p, r) \in PoolRecords
    BY <1>1, <2>1 DEF PoolRecords
  <2>3. \A a \in p.held : a.id <= p.calls + 1
    BY <1>1 DEF PoolOK, PoolTypeOK, PoolRecords, Allocations
  <2> QED BY <2>2, <2>3 DEF PoolOK, PoolTypeOK, PoolRecords, PoolBalances
<1>3. CASE ~ (r.amount > p.available)
  <2> DEFINE a == [id |-> p.calls + 1, requester |-> r.requester, amount |-> r.amount, expires |-> r.expires]
             q == Allocated(p, r)
  <2>1. q = [p EXCEPT !.calls = @ + 1, !.available = @ - r.amount, !.allocated = @ + r.amount,
                      !.held = @ \cup {a}]
    BY <1>3 DEF Allocated
  <2>2. a \in Allocations /\ a.id = p.calls + 1 /\ AmountIn[a] = r.amount
    BY <1>1 DEF Allocations, AmountIn, PoolRecords
  <2>3. \A b \in p.held : b.id <= p.calls /\ b.id \in Nat /\ b.id # a.id
    BY <1>1, <2>2 DEF PoolOK, PoolTypeOK, PoolRecords, Allocations
  <2>4. p.available - r.amount \in Nat
    BY <1>1, <1>3 DEF PoolRecords
  <2> HIDE DEF a, q
  <2>5. /\ q.total = p.total /\ q.available = p.available - r.amount /\ q.allocated = p.allocated + r.amount
        /\ q.calls = p.calls + 1 /\ q.held = p.held \cup {a} /\ q.cut = p.cut
        /\ q \in PoolRecords
    <3>1. /\ p.calls + 1 \in Nat /\ p.allocated + r.amount \in Nat
          /\ p.held \cup {a} \in SUBSET Allocations
      BY <1>1, <2>2 DEF PoolRecords
    <3>2. ASSUME NEW av \in Nat, NEW al \in Nat, NEW n \in Nat, NEW H \in SUBSET Allocations,
                 q = [p EXCEPT !.calls = n, !.available = av, !.allocated = al, !.held = H]
          PROVE  /\ q.total = p.total /\ q.available = av /\ q.allocated = al
                 /\ q.calls = n /\ q.held = H /\ q.cut = p.cut
                 /\ q \in PoolRecords
      BY <1>1, <3>2 DEF PoolRecords
    <3>3. q = [p EXCEPT !.calls = p.calls + 1, !.available = p.available - r.amount,
                        !.allocated = p.allocated + r.amount, !.held = p.held \cup {a}]
      BY <2>1
    <3> QED BY <2>4, <3>1, <3>2, <3>3
  <2>6. /\ SumOf(AmountIn, p.held \cup {a}) = SumOf(AmountIn, p.held) + r.amount
        /\ IsFiniteSet(p.held \cup {a})
    <3>1. \A x \in p.held \cup {a} : AmountIn[x] \in Nat
      BY <1>1, <2>2 DEF AmountIn, Allocations
    <3>2. p.held \cap {a} = {} /\ IsFiniteSet({a})
      BY <2>3, FS_Singleton
    <3>3. SumOf(AmountIn, p.held \cup {a}) = SumOf(AmountIn, p.held) + SumOf(AmountIn, {a})
      BY <1>1, <3>1, <3>2, SumOfTwo
    <3>4. SumOf(AmountIn, {a}) = r.amount
      BY <2>2, <3>1, SumOfOne
    <3> QED BY <1>1, <3>2, <3>3, <3>4, FS_Union
  <2>7. PoolTypeOK(q)
    <3>1. \A x \in q.held : x.id <= q.calls
      BY <1>1, <2>5, <2>2, <2>3 DEF PoolRecords
    <3>2. \A x, y \in q.held : x.id = y.id => x = y
      BY <2>5, <2>3 DEF PoolOK, PoolTypeOK
    <3> QED BY <2>5, <2>6, <3>1, <3>2 DEF PoolTypeOK
  <2>8. PoolBalances(q)
    BY <1>1, <2>6, <2>5 DEF PoolOK, PoolRecords, PoolBalances
  <2> QED BY <2>7, <2>8 DEF PoolOK, q
<1> QED BY <1>2, <1>3

LEMMA ResizeKeeps ==
  ASSUME NEW p, PoolOK(p), NEW c \in Nat
  PROVE  PoolOK(Resized(p, c))
<1> DEFINE left == p.available + (c - p.total)
           q == Resized(p, c)
<1>1. /\ p \in PoolRecords
      /\ left \in Int
  BY DEF PoolOK, PoolTypeOK, PoolRecords
<1>2. /\ q.total = c /\ q.available = (IF left < 0 THEN 0 ELSE left) /\ q.allocated = p.allocated
      /\ q.calls = p.calls /\ q.held = p.held /\ q.cut = (p.cut \/ left < 0)
  BY <1>1 DEF Resized, PoolRecords
<1>3. q \in PoolRecords
  <2>1. (IF left < 0 THEN 0 ELSE left) \in Nat /\ (p.cut \/ left < 0) \in BOOLEAN
    BY <1>1
  <2> HIDE DEF left
  <2> QED BY <1>1, <2>1 DEF Resized, PoolRecords, left
<1> HIDE DEF q
<1>4. PoolTypeOK(q)
  <2>1. q.held = p.held /\ q.calls = p.calls
    BY <1>2
  <2> QED BY <1>3, <2>1 DEF PoolOK, PoolTypeOK
<1>5. PoolBalances(q)
  <2>1. q.allocated = SumOf(AmountIn, q.held) /\ q.allocated = p.allocated
    BY <1>2 DEF PoolOK, PoolBalances
  <2>2. /\ p.available \in Nat /\ p.allocated \in Nat /\ p.total \in Nat
        /\ p.available + p.allocated >= p.total
        /\ ~p.cut => p.available + p.allocated = p.total
    BY DEF PoolOK, PoolTypeOK, PoolRecords, PoolBalances
  <2>3. CASE left < 0
    <3>1. q.available = 0 /\ q.cut /\ q.total = c
      BY <1>2, <2>3
    <3> QED BY <2>1, <2>2, <2>3, <3>1 DEF PoolBalances
  <2>4. CASE ~(left < 0)
    <3>1. q.available = left /\ (~q.cut => ~p.cut) /\ q.total = c
      BY <1>2, <2>4
    <3> QED BY <2>1, <2>2, <3>1 DEF PoolBalances
  <2> QED BY <2>3, <2>4
<1> QED BY <1>4, <1>5 DEF PoolOK, q

LEMMA EmptyPoolOK ==
  /\ \A c \in Nat : PoolOK(NewPool(c))
  /\ \A p : PoolOK(p) => PoolOK(Emptied(p))
<1>1. ASSUME NEW c \in Nat PROVE PoolOK(NewPool(c))
  BY SumOfNone, FS_EmptySet DEF NewPool, PoolOK, PoolTypeOK, PoolRecords, PoolBalances
<1>2. ASSUME NEW p, PoolOK(p) PROVE PoolOK(Emptied(p))
  <2>1. p \in PoolRecords
    BY <1>2 DEF PoolOK, PoolTypeOK, PoolRecords
  <2>2. /\ Emptied(p) \in PoolRecords /\ Emptied(p).held = {} /\ Emptied(p).allocated = 0
        /\ Emptied(p).available = p.total /\ Emptied(p).total = p.total
    BY <2>1 DEF Emptied, PoolRecords
  <2> QED BY <2>1, <2>2, SumOfNone, FS_EmptySet DEF PoolOK, PoolTypeOK, PoolRecords, PoolBalances
<1> QED BY <1>1, <1>2

\* An allocation that expires still holds its amount
LEMMA ExpireKeeps ==
  ASSUME NEW p, PoolOK(p), NEW a \in p.held
  PROVE  PoolOK([p EXCEPT !.held = (@ \ {a}) \cup {[a EXCEPT !.expires = "now"]}])
<1> DEFINE b == [a EXCEPT !.expires = "now"]
           H == p.held \ {a}
           q == [p EXCEPT !.held = (@ \ {a}) \cup {b}]
<1>1. /\ p \in PoolRecords
      /\ IsFiniteSet(p.held) /\ p.held \subseteq Allocations
  BY DEF PoolOK, PoolTypeOK, PoolRecords
<1>2. a \in Allocations /\ b \in Allocations /\ b.id = a.id /\ AmountIn[b] = AmountIn[a] /\ AmountIn[a] \in Nat
  BY <1>1 DEF Allocations, AmountIn
<1> HIDE DEF b
<1>3. /\ q \in PoolRecords
      /\ q.total = p.total /\ q.available = p.available /\ q.allocated = p.allocated
      /\ q.calls = p.calls /\ q.held = H \cup {b} /\ q.cut = p.cut
  BY <1>1, <1>2 DEF PoolRecords
<1> HIDE DEF q
<1>4. b \notin H /\ \A x \in H : x.id # b.id
  BY <1>2 DEF PoolOK, PoolTypeOK, PoolRecords
<1>5. /\ SumOf(AmountIn, H) = SumOf(AmountIn, p.held) - SumOf(AmountIn, {a})
      /\ IsFiniteSet(H) /\ SumOf(AmountIn, H) \in Nat /\ SumOf(AmountIn, p.held) \in Nat
  BY <1>1, AmountOfRest
<1>6. SumOf(AmountIn, {a}) = AmountIn[a] /\ SumOf(AmountIn, {b}) = AmountIn[a]
  BY <1>2, SumOfOne
<1>7. SumOf(AmountIn, H \cup {b}) = SumOf(AmountIn, H) + SumOf(AmountIn, {b}) /\ IsFiniteSet(H \cup {b})
  <2>1. \A x \in H \cup {b} : AmountIn[x] \in Nat
    BY <1>1, <1>2 DEF AmountIn, Allocations
  <2>2. H \cap {b} = {} /\ IsFiniteSet({b})
    BY <1>4, FS_Singleton
  <2> HIDE DEF H
  <2> QED BY <1>5, <2>1, <2>2, SumOfTwo, FS_Union
<1>8. SumOf(AmountIn, H \cup {b}) = SumOf(AmountIn, p.held)
  <2> HIDE DEF H
  <2> QED BY <1>2, <1>5, <1>6, <1>7
<1>9. PoolTypeOK(q)
  <2>1. \A x \in q.held : x.id <= q.calls
    BY <1>2, <1>3 DEF PoolOK, PoolTypeOK, PoolRecords
  <2>2. \A x, y \in q.held : x.id = y.id => x = y
    BY <1>3, <1>4 DEF PoolOK, PoolTypeOK, PoolRecords
  <2> QED BY <1>3, <1>7, <2>1, <2>2 DEF PoolTypeOK
<1>10. PoolBalances(q)
  BY <1>3, <1>8 DEF PoolOK, PoolTypeOK, PoolRecords, PoolBalances
<1> QED BY <1>9, <1>10 DEF PoolOK, q, b

LEMMA ChangeKeepsPools ==
  ASSUME ResourceInv, NEW n, NEW p, n \in DOMAIN pool => PoolOK(p), Change(n, p), chosen' \subseteq chosen
  PROVE  ResourceInv'
  BY DEF ResourceInv, Change

LEMMA PoolsStep == ASSUME ResourceInv, [ResourceNext]_resourceVars PROVE ResourceInv'
<1>1. CASE UNCHANGED resourceVars
  BY <1>1 DEF resourceVars, ResourceInv
<1>2. ASSUME NEW n \in DOMAIN pool, NEW q \in Requests, Allocate(n, q)
      PROVE  ResourceInv'
  BY <1>2, AllocateKeeps, ChangeKeepsPools DEF Allocate, ResourceInv
<1>3. ASSUME NEW n \in DOMAIN pool, NEW a \in pool[n].held, Deallocate(n, a)
      PROVE  ResourceInv'
  BY <1>3, ReleaseKeeps, ChangeKeepsPools DEF Deallocate, ResourceInv
<1>4. ASSUME NEW n \in DOMAIN pool, NEW a \in pool[n].held, Expire(n, a)
      PROVE  ResourceInv'
  <2>1. Change(n, [pool[n] EXCEPT !.held = (@ \ {a}) \cup {[a EXCEPT !.expires = "now"]}])
    BY <1>4 DEF Expire, Change
  <2> QED BY <1>4, <2>1, ExpireKeeps, ChangeKeepsPools DEF Expire, ResourceInv
<1>5. ASSUME NEW n \in DOMAIN pool, NEW r \in Requesters, DeallocateForRequester(n, r)
      PROVE  ResourceInv'
  <2> DEFINE S == {a \in pool[n].held : a.requester = r}
  <2>1. PoolOK(Release(pool[n], S))
    <3>1. S \subseteq pool[n].held /\ PoolOK(pool[n])
      BY DEF ResourceInv
    <3> HIDE DEF S
    <3> QED BY <3>1, ReleaseKeeps
  <2> QED BY <1>5, <2>1, ChangeKeepsPools DEF DeallocateForRequester
<1>6. ASSUME NEW n \in DOMAIN pool, NEW c \in Capacities, SetCapacity(n, c)
      PROVE  ResourceInv'
  BY <1>6, ResizeKeeps, ChangeKeepsPools, ResourceAssumption DEF SetCapacity, ResourceInv
<1>7. ASSUME NEW p, PoolOK(p) PROVE PoolOK(Swept(p))
  <2> DEFINE S == {a \in p.held : a.expires = "now"}
  <2>1. S \subseteq p.held
    OBVIOUS
  <2> HIDE DEF S
  <2>2. PoolOK(Release(p, S))
    BY <1>7, <2>1, ReleaseKeeps
  <2> QED BY <2>2 DEF Swept, S
<1>8. ASSUME NEW n \in DOMAIN pool, SweepPool(n) \/ ReleaseAll(n)
      PROVE  ResourceInv'
  BY <1>7, <1>8, EmptyPoolOK, ChangeKeepsPools DEF SweepPool, ReleaseAll, ResourceInv
<1>9. ASSUME NEW n \in DOMAIN pool, RemovePool(n) PROVE ResourceInv'
  BY <1>9 DEF RemovePool, Without, ResourceInv
<1>10. ASSUME NEW n \in Pools, NEW c \in Capacities, CreatePool(n, c) PROVE ResourceInv'
  <2>1. PoolOK(NewPool(c))
    BY EmptyPoolOK, ResourceAssumption
  <2> QED BY <1>10, <2>1 DEF CreatePool, With, ResourceInv
<1>11. ASSUME NEW s \in Strategies, SetStrategy(s) PROVE ResourceInv'
  BY <1>11 DEF SetStrategy, ResourceInv
<1>12. ASSUME NEW q \in Requests, ChoosePool(q) PROVE ResourceInv'
  <2>1. pool' = pool /\ \A c \in chosen' : c.request = q
    BY <1>12 DEF ChoosePool
  <2> QED BY <2>1 DEF ResourceInv
<1>13. CASE AllocateChosen
  <2>1. PICK c \in chosen : Change(c.name, Allocated(pool[c.name], c.request)) /\ chosen' = {}
    BY <1>13 DEF AllocateChosen
  <2>2. c.request \in Requests /\ (c.name \in DOMAIN pool => PoolOK(pool[c.name]))
    BY DEF ResourceInv
  <2> QED BY <2>1, <2>2, AllocateKeeps, ChangeKeepsPools
<1>14. CASE CleanupExpired
  <2>1. DOMAIN pool' = DOMAIN pool /\ chosen' = chosen /\ \A n \in DOMAIN pool : pool'[n] = Swept(pool[n])
    BY <1>14 DEF CleanupExpired
  <2> QED BY <1>7, <2>1 DEF ResourceInv
<1>15. CASE IntervalEnds
  BY <1>15 DEF IntervalEnds, ResourceInv
<1> QED BY <1>1, <1>2, <1>3, <1>4, <1>5, <1>6, <1>8, <1>9, <1>10, <1>11, <1>12, <1>13, <1>14, <1>15
        DEF ResourceNext, PoolStep, ManagerStep

LEMMA PoolsBalanceThen == ResourceInv => PoolsBalance
<1> SUFFICES ASSUME ResourceInv, NEW n \in DOMAIN pool
             PROVE  LET p == pool[n]
                    IN /\ p.allocated = AmountOf(p.held)
                       /\ p.available >= 0
                       /\ p.available + p.allocated >= p.total
                       /\ ~p.cut => p.available + p.allocated = p.total
  BY DEF PoolsBalance
<1>1. PoolOK(pool[n])
  BY DEF ResourceInv
<1>2. AmountOf(pool[n].held) = SumOf(AmountIn, pool[n].held)
  BY <1>1, AmountIsSum DEF PoolOK, PoolTypeOK, PoolRecords
<1> QED BY <1>1, <1>2 DEF PoolOK, PoolTypeOK, PoolRecords, PoolBalances

LEMMA PoolsStart == ResourceInit => ResourceInv
  BY DEF ResourceInit, ResourceInv, NoKeys

\* A pool's books always balance: what is allocated is what the allocations add up to, and
\* with what is available this is the capacity, however many requesters, pools and amounts
\* there are and whatever is released, expires, is swept or resized in between
THEOREM PoolsAlwaysBalance == ResourceSpec => []PoolsBalance
<1>1. ResourceInit => ResourceInv
  BY PoolsStart
<1>2. ResourceInv /\ [ResourceNext]_resourceVars => ResourceInv'
  BY PoolsStep
<1>3. ResourceInv => PoolsBalance
  BY PoolsBalanceThen
<1> QED BY <1>1, <1>2, <1>3, PTL DEF ResourceSpec

(***************************************************************************)
(* Tools: calls, their workers and their counts                            *)
(***************************************************************************)
Places == {"away", "waiting", "keeping", "counting", "sorting"}
CallRecords == [at : Places, worker : Nat, result : {"none", "SUCCEEDED", "FAILED", "TIMEOUT"}]
Counters == [total : Nat, success : Nat, failure : Nat, timeout : Nat]

\* The calls that were counted as a time-out and not yet as calls, and the other way round
TimedOut(tc) == {t \in ToolCallers : tc[t].at \in {"keeping", "counting"} /\ tc[t].result = "TIMEOUT"}
Unsorted(tc) == {t \in ToolCallers : tc[t].at = "sorting" /\ tc[t].result # "TIMEOUT"}

CallsTypeOK ==
  /\ toolCalls \in [ToolCallers -> CallRecords]
  /\ counts \in Counters
  /\ \E n \in Nat : DOMAIN workers = 1..n
  /\ executor \in {"alive", "joining", "destroyed"}
CallsAreWhere ==
  /\ \A t \in ToolCallers :
       /\ toolCalls[t].at = "keeping" => toolCalls[t].result = "TIMEOUT"
       /\ toolCalls[t].at \in {"counting", "sorting"} => toolCalls[t].result # "none"
       /\ executor # "alive" => toolCalls[t].at = "away"
  /\ \A w \in RunningWorkers :
       w \in pendingFutures \/ \E t \in ToolCallers : toolCalls[t].at \in {"waiting", "keeping"} /\ toolCalls[t].worker = w
  /\ executor = "destroyed" => RunningWorkers = {}
CallsCounted(tc, k) ==
  k.total + Cardinality(TimedOut(tc)) = k.success + k.failure + k.timeout + Cardinality(Unsorted(tc))
CallsInv == CallsTypeOK /\ CallsAreWhere /\ CallsCounted(toolCalls, counts)

LEMMA CallSets ==
  ASSUME NEW tc
  PROVE  /\ IsFiniteSet(TimedOut(tc)) /\ IsFiniteSet(Unsorted(tc))
         /\ Cardinality(TimedOut(tc)) \in Nat /\ Cardinality(Unsorted(tc)) \in Nat
<1>1. TimedOut(tc) \subseteq ToolCallers /\ Unsorted(tc) \subseteq ToolCallers
  BY DEF TimedOut, Unsorted
<1> QED BY <1>1, ToolExecutorAssumption, FS_Subset, FS_CardinalityType

\* What a call adds to either set
Late(x) == IF x.at \in {"keeping", "counting"} /\ x.result = "TIMEOUT" THEN 1 ELSE 0
StillOpen(x) == IF x.at = "sorting" /\ x.result # "TIMEOUT" THEN 1 ELSE 0

\* A caller's next place moves it into one of the sets, or out of it, or leaves both
LEMMA CallMoves ==
  ASSUME NEW tc \in [ToolCallers -> CallRecords], NEW t \in ToolCallers, NEW r \in CallRecords
  PROVE  LET new == [tc EXCEPT ![t] = r]
         IN /\ Cardinality(TimedOut(new)) + Late(tc[t]) = Cardinality(TimedOut(tc)) + Late(r)
            /\ Cardinality(Unsorted(new)) + StillOpen(tc[t]) = Cardinality(Unsorted(tc)) + StillOpen(r)
<1> DEFINE new == [tc EXCEPT ![t] = r]
<1>1. new[t] = r /\ \A u \in ToolCallers : u # t => new[u] = tc[u]
  OBVIOUS
<1> HIDE DEF new
<1>2. ASSUME NEW A, NEW B, IsFiniteSet(A), \A u : u # t => (u \in A <=> u \in B)
      PROVE  Cardinality(B) + (IF t \in A THEN 1 ELSE 0) = Cardinality(A) + (IF t \in B THEN 1 ELSE 0)
  <2>1. Cardinality(A) \in Nat
    BY <1>2, FS_CardinalityType
  <2>2. CASE t \in A <=> t \in B
    <3>1. A = B
      BY <1>2, <2>2
    <3> QED BY <2>1, <3>1
  <2>3. CASE t \in A /\ t \notin B
    <3>1. B = A \ {t}
      BY <1>2, <2>3
    <3>2. Cardinality(B) = Cardinality(A) - 1
      BY <1>2, <2>3, <3>1, FS_RemoveElement
    <3> QED BY <2>1, <2>3, <3>2
  <2>4. CASE t \notin A /\ t \in B
    <3>1. B = A \cup {t}
      BY <1>2, <2>4
    <3>2. Cardinality(B) = Cardinality(A) + 1
      BY <1>2, <2>4, <3>1, FS_AddElement
    <3> QED BY <2>1, <2>4, <3>2
  <2> QED BY <2>2, <2>3, <2>4
<1>3. /\ Late(tc[t]) = (IF t \in TimedOut(tc) THEN 1 ELSE 0)
      /\ Late(r) = (IF t \in TimedOut(new) THEN 1 ELSE 0)
      /\ \A u : u # t => (u \in TimedOut(tc) <=> u \in TimedOut(new))
  BY <1>1 DEF TimedOut, Late
<1>4. /\ StillOpen(tc[t]) = (IF t \in Unsorted(tc) THEN 1 ELSE 0)
      /\ StillOpen(r) = (IF t \in Unsorted(new) THEN 1 ELSE 0)
      /\ \A u : u # t => (u \in Unsorted(tc) <=> u \in Unsorted(new))
  BY <1>1 DEF Unsorted, StillOpen
<1>5. Cardinality(TimedOut(new)) + Late(tc[t]) = Cardinality(TimedOut(tc)) + Late(r)
  BY <1>2, <1>3, CallSets
<1>6. Cardinality(Unsorted(new)) + StillOpen(tc[t]) = Cardinality(Unsorted(tc)) + StillOpen(r)
  BY <1>2, <1>4, CallSets
<1> QED BY <1>5, <1>6 DEF new

\* The counts stay balanced when what they gain is what the caller's move makes up for
LEMMA CountsMove ==
  ASSUME NEW tc \in [ToolCallers -> CallRecords], NEW k \in Counters, CallsCounted(tc, k),
         NEW t \in ToolCallers, NEW r \in CallRecords, NEW j \in Counters,
         (j.total - k.total) + Late(r) - Late(tc[t])
           = (j.success - k.success) + (j.failure - k.failure) + (j.timeout - k.timeout) + StillOpen(r) - StillOpen(tc[t])
  PROVE  CallsCounted([tc EXCEPT ![t] = r], j)
<1> DEFINE new == [tc EXCEPT ![t] = r]
           a == Cardinality(TimedOut(tc))
           b == Cardinality(Unsorted(tc))
           c == Cardinality(TimedOut(new))
           d == Cardinality(Unsorted(new))
<1>1. a \in Nat /\ b \in Nat /\ c \in Nat /\ d \in Nat
  BY CallSets
<1>2. c + Late(tc[t]) = a + Late(r) /\ d + StillOpen(tc[t]) = b + StillOpen(r)
  BY CallMoves
<1>3. Late(r) \in Nat /\ Late(tc[t]) \in Nat /\ StillOpen(r) \in Nat /\ StillOpen(tc[t]) \in Nat
  BY DEF Late, StillOpen
<1>4. k.total + a = k.success + k.failure + k.timeout + b
  BY DEF CallsCounted
<1>5. /\ k.total \in Nat /\ k.success \in Nat /\ k.failure \in Nat /\ k.timeout \in Nat
      /\ j.total \in Nat /\ j.success \in Nat /\ j.failure \in Nat /\ j.timeout \in Nat
  BY DEF Counters
<1> HIDE DEF a, b, c, d
<1>6. j.total + c = j.success + j.failure + j.timeout + d
  BY <1>1, <1>2, <1>3, <1>4, <1>5
<1> QED BY <1>6 DEF CallsCounted, c, d, new

\* After the step of a caller t, every worker that runs is waited for or kept
Held(t, r) ==
  \A w \in RunningWorkers' :
    \/ w \in pendingFutures'
    \/ r.at \in {"waiting", "keeping"} /\ r.worker = w
    \/ \E u \in ToolCallers \ {t} : toolCalls[u].at \in {"waiting", "keeping"} /\ toolCalls[u].worker = w

\* A step of a caller that keeps the balance of its counts
LEMMA CallKeeps ==
  ASSUME CallsInv, NEW t \in ToolCallers, NEW r \in CallRecords,
         toolCalls' = [toolCalls EXCEPT ![t] = r], counts' \in Counters,
         executor = "alive", executor' = "alive",
         CallsCounted(toolCalls', counts'),
         r.at = "keeping" => r.result = "TIMEOUT",
         r.at \in {"counting", "sorting"} => r.result # "none",
         \E n \in Nat : DOMAIN workers' = 1..n,
         Held(t, r)
  PROVE  CallsInv'
<1>1. toolCalls' \in [ToolCallers -> CallRecords]
      /\ toolCalls'[t] = r /\ \A u \in ToolCallers \ {t} : toolCalls'[u] = toolCalls[u]
  BY DEF CallsInv, CallsTypeOK
<1>2. CallsTypeOK'
  BY <1>1 DEF CallsTypeOK
<1>3. \A w \in RunningWorkers' :
        w \in pendingFutures' \/ \E u \in ToolCallers : toolCalls'[u].at \in {"waiting", "keeping"} /\ toolCalls'[u].worker = w
  BY <1>1 DEF Held
<1>4. \A u \in ToolCallers :
        /\ toolCalls'[u].at = "keeping" => toolCalls'[u].result = "TIMEOUT"
        /\ toolCalls'[u].at \in {"counting", "sorting"} => toolCalls'[u].result # "none"
  BY <1>1 DEF CallsInv, CallsAreWhere
<1>5. CallsAreWhere'
  BY <1>3, <1>4 DEF CallsAreWhere
<1> QED BY <1>2, <1>5 DEF CallsInv

LEMMA CallsStart == ToolExecutorInit => CallsInv
<1> SUFFICES ASSUME ToolExecutorInit PROVE CallsInv
  OBVIOUS
<1>1. /\ toolCalls = [t \in ToolCallers |-> [at |-> "away", worker |-> 0, result |-> "none"]]
      /\ counts = [total |-> 0, success |-> 0, failure |-> 0, timeout |-> 0]
      /\ executor = "alive" /\ workers = <<>>
  BY DEF ToolExecutorInit, NoCall
<1>2. DOMAIN workers = 1..0 /\ RunningWorkers = {}
  BY <1>1 DEF RunningWorkers
<1>3. CallsTypeOK /\ CallsAreWhere
  <2>1. toolCalls \in [ToolCallers -> CallRecords] /\ counts \in Counters
    BY <1>1 DEF CallRecords, Counters, Places
  <2>2. CallsTypeOK
    BY <1>1, <1>2, <2>1 DEF CallsTypeOK
  <2>3. \A t \in ToolCallers : toolCalls[t].at = "away"
    BY <1>1
  <2> QED BY <1>1, <1>2, <2>2, <2>3 DEF CallsAreWhere
<1>4. TimedOut(toolCalls) = {} /\ Unsorted(toolCalls) = {}
  BY <1>1 DEF TimedOut, Unsorted
<1>5. CallsCounted(toolCalls, counts)
  <2>1. Cardinality(TimedOut(toolCalls)) = 0 /\ Cardinality(Unsorted(toolCalls)) = 0
    BY <1>4, FS_EmptySet
  <2>2. counts.total = 0 /\ counts.success = 0 /\ counts.failure = 0 /\ counts.timeout = 0
    BY <1>1
  <2> QED BY <2>1, <2>2 DEF CallsCounted
<1> QED BY <1>3, <1>5 DEF CallsInv

LEMMA CallsStep == ASSUME CallsInv, [ToolExecutorNext]_toolExecutorVars PROVE CallsInv'
<1>1. /\ toolCalls \in [ToolCallers -> CallRecords] /\ counts \in Counters
      /\ executor \in {"alive", "joining", "destroyed"}
      /\ \E n \in Nat : DOMAIN workers = 1..n
      /\ CallsCounted(toolCalls, counts)
  BY DEF CallsInv, CallsTypeOK
<1>2. /\ Cardinality(TimedOut(toolCalls)) \in Nat /\ Cardinality(Unsorted(toolCalls)) \in Nat
      /\ counts.total \in Nat /\ counts.success \in Nat /\ counts.failure \in Nat /\ counts.timeout \in Nat
      /\ counts.total + Cardinality(TimedOut(toolCalls))
           = counts.success + counts.failure + counts.timeout + Cardinality(Unsorted(toolCalls))
  BY <1>1, CallSets DEF Counters, CallsCounted
<1>3. \A t \in ToolCallers :
        /\ toolCalls[t].at \in Places /\ toolCalls[t].worker \in Nat
        /\ toolCalls[t].result \in {"none", "SUCCEEDED", "FAILED", "TIMEOUT"}
        /\ toolCalls[t].at # "away" => executor = "alive"
        /\ toolCalls[t].at = "keeping" => toolCalls[t].result = "TIMEOUT"
        /\ toolCalls[t].at \in {"counting", "sorting"} => toolCalls[t].result # "none"
  BY <1>1 DEF CallRecords, CallsInv, CallsAreWhere
<1>4. \A w \in RunningWorkers :
        w \in pendingFutures \/ \E t \in ToolCallers : toolCalls[t].at \in {"waiting", "keeping"} /\ toolCalls[t].worker = w
  BY DEF CallsInv, CallsAreWhere
<1>5. ASSUME NEW t \in ToolCallers
      PROVE  \A w \in RunningWorkers :
               \/ w \in pendingFutures
               \/ toolCalls[t].at \in {"waiting", "keeping"} /\ toolCalls[t].worker = w
               \/ \E u \in ToolCallers \ {t} : toolCalls[u].at \in {"waiting", "keeping"} /\ toolCalls[u].worker = w
  BY <1>4
\* What the step of a caller does to its books
<1> DEFINE Gains(t, r) ==
             (counts'.total - counts.total) + Late(r) - Late(toolCalls[t])
               = (counts'.success - counts.success) + (counts'.failure - counts.failure)
                 + (counts'.timeout - counts.timeout) + StillOpen(r) - StillOpen(toolCalls[t])
<1>6. ASSUME NEW t \in ToolCallers, NEW r \in CallRecords, toolCalls' = [toolCalls EXCEPT ![t] = r],
             counts' \in Counters, Gains(t, r)
      PROVE  CallsCounted(toolCalls', counts')
  <2>1. CallsCounted([toolCalls EXCEPT ![t] = r], counts')
    BY <1>1, <1>6, CountsMove
  <2> QED BY <1>6, <2>1
<1>7. ASSUME NEW t \in ToolCallers, Refuse(t) PROVE CallsInv'
  <2> DEFINE r == [at |-> "counting", worker |-> 0, result |-> "FAILED"]
  <2>1. /\ r \in CallRecords /\ r.at = "counting" /\ r.result = "FAILED"
        /\ toolCalls[t].at = "away" /\ executor = "alive" /\ executor' = "alive"
        /\ toolCalls' = [toolCalls EXCEPT ![t] = r]
        /\ UNCHANGED <<workers, pendingFutures, counts, RunningWorkers>>
    BY <1>7 DEF Refuse, CallRecords, Places, RunningWorkers
  <2> HIDE DEF r
  <2>2. Late(r) = 0 /\ Late(toolCalls[t]) = 0 /\ StillOpen(r) = 0 /\ StillOpen(toolCalls[t]) = 0
    BY <2>1 DEF Late, StillOpen
  <2>3. CallsCounted(toolCalls', counts')
    <3>1. Gains(t, r)
      BY <1>2, <2>1, <2>2
    <3> QED BY <1>1, <1>6, <2>1, <3>1
  <2>4. Held(t, r)
    BY <1>5, <2>1 DEF Held
  <2> QED BY <1>1, <2>1, <2>3, <2>4, CallKeeps
<1>8. ASSUME NEW t \in ToolCallers, StartWorker(t) PROVE CallsInv'
  <2> DEFINE w == Cardinality(DOMAIN workers) + 1
             r == [at |-> "waiting", worker |-> w, result |-> "none"]
  <2>1. PICK n \in Nat : DOMAIN workers = 1..n
    BY <1>1
  <2>2. w = n + 1 /\ w \in Nat
    <3>1. Cardinality(1..n) = n
      BY FS_Interval
    <3> QED BY <2>1, <3>1
  <2>3. /\ toolCalls[t].at = "away" /\ executor = "alive" /\ executor' = "alive"
        /\ toolCalls' = [toolCalls EXCEPT ![t] = r]
        /\ workers' = [v \in 1..w |-> IF v = w THEN "running" ELSE workers[v]]
        /\ UNCHANGED <<pendingFutures, counts>>
    BY <1>8 DEF StartWorker
  <2> HIDE DEF w
  <2>4. r \in CallRecords /\ r.at = "waiting" /\ r.worker = w /\ r.result = "none"
    BY <2>2 DEF CallRecords, Places
  <2> HIDE DEF r
  <2>5. Late(r) = 0 /\ Late(toolCalls[t]) = 0 /\ StillOpen(r) = 0 /\ StillOpen(toolCalls[t]) = 0
    BY <2>3, <2>4 DEF Late, StillOpen
  <2>6. CallsCounted(toolCalls', counts')
    <3>1. Gains(t, r)
      BY <1>2, <2>3, <2>5
    <3> QED BY <1>1, <1>6, <2>3, <2>4, <3>1
  <2>7. DOMAIN workers' = 1..w
    BY <2>3
  <2>8. \A v \in RunningWorkers' : v = w \/ v \in RunningWorkers
    BY <2>1, <2>2, <2>3, <2>7 DEF RunningWorkers
  <2>9. Held(t, r)
    BY <1>5, <2>3, <2>4, <2>8 DEF Held
  <2> QED BY <1>1, <2>2, <2>3, <2>4, <2>6, <2>7, <2>9, CallKeeps
<1>9. ASSUME NEW t \in ToolCallers, Collect(t) PROVE CallsInv'
  <2> DEFINE w == toolCalls[t].worker
             r == [toolCalls[t] EXCEPT !.at = "counting",
                     !.result = IF workers[w] = "SUCCEEDED" THEN "SUCCEEDED" ELSE "FAILED"]
  <2>1. /\ r \in CallRecords /\ r.at = "counting" /\ r.result \in {"SUCCEEDED", "FAILED"}
        /\ toolCalls[t].at = "waiting" /\ workers[w] # "running"
        /\ toolCalls' = [toolCalls EXCEPT ![t] = r]
        /\ UNCHANGED <<workers, pendingFutures, counts, executor, RunningWorkers>>
    BY <1>1, <1>9 DEF Collect, CallRecords, Places, Ended, RunningWorkers
  <2> HIDE DEF r
  <2>2. Late(r) = 0 /\ Late(toolCalls[t]) = 0 /\ StillOpen(r) = 0 /\ StillOpen(toolCalls[t]) = 0
    BY <2>1 DEF Late, StillOpen
  <2>3. CallsCounted(toolCalls', counts')
    <3>1. Gains(t, r)
      BY <1>2, <2>1, <2>2
    <3> QED BY <1>1, <1>6, <2>1, <3>1
  <2>4. \A v \in RunningWorkers : v # w
    BY <2>1 DEF RunningWorkers
  <2>5. Held(t, r)
    BY <1>5, <2>1, <2>4 DEF Held
  <2>6. executor = "alive" /\ executor' = "alive"
    BY <1>3, <2>1
  <2> QED BY <1>1, <2>1, <2>3, <2>5, <2>6, CallKeeps
<1>10. ASSUME NEW t \in ToolCallers, EscapeCall(t) PROVE CallsInv'
  <2> DEFINE w == toolCalls[t].worker
             r == NoCall
  <2>1. /\ r \in CallRecords /\ r.at = "away"
        /\ toolCalls[t].at = "waiting" /\ workers[w] # "running"
        /\ toolCalls' = [toolCalls EXCEPT ![t] = r]
        /\ UNCHANGED <<workers, pendingFutures, counts, executor, RunningWorkers>>
    BY <1>10 DEF EscapeCall, NoCall, CallRecords, Places, RunningWorkers
  <2> HIDE DEF r
  <2>2. Late(r) = 0 /\ Late(toolCalls[t]) = 0 /\ StillOpen(r) = 0 /\ StillOpen(toolCalls[t]) = 0
    BY <2>1 DEF Late, StillOpen
  <2>3. CallsCounted(toolCalls', counts')
    <3>1. Gains(t, r)
      BY <1>2, <2>1, <2>2
    <3> QED BY <1>1, <1>6, <2>1, <3>1
  <2>4. \A v \in RunningWorkers : v # w
    BY <2>1 DEF RunningWorkers
  <2>5. Held(t, r)
    BY <1>5, <2>1, <2>4 DEF Held
  <2>6. executor = "alive" /\ executor' = "alive"
    BY <1>3, <2>1
  <2> QED BY <1>1, <2>1, <2>3, <2>5, <2>6, CallKeeps
<1>11. ASSUME NEW t \in ToolCallers, TimeOut(t) PROVE CallsInv'
  <2> DEFINE r == [toolCalls[t] EXCEPT !.at = "keeping", !.result = "TIMEOUT"]
  <2>1. /\ r \in CallRecords /\ r.at = "keeping" /\ r.result = "TIMEOUT" /\ r.worker = toolCalls[t].worker
        /\ toolCalls[t].at = "waiting"
        /\ toolCalls' = [toolCalls EXCEPT ![t] = r]
        /\ counts' = [counts EXCEPT !.timeout = @ + 1]
        /\ UNCHANGED <<workers, pendingFutures, executor, RunningWorkers>>
    BY <1>1, <1>11 DEF TimeOut, CallRecords, Places, RunningWorkers
  <2> HIDE DEF r
  <2>2. /\ counts' \in Counters /\ counts'.timeout = counts.timeout + 1
        /\ counts'.total = counts.total /\ counts'.success = counts.success /\ counts'.failure = counts.failure
    BY <1>1, <2>1 DEF Counters
  <2>3. Late(r) = 1 /\ Late(toolCalls[t]) = 0 /\ StillOpen(r) = 0 /\ StillOpen(toolCalls[t]) = 0
    BY <2>1 DEF Late, StillOpen
  <2>4. CallsCounted(toolCalls', counts')
    <3>1. Gains(t, r)
      BY <1>2, <2>2, <2>3
    <3> QED BY <1>6, <2>1, <2>2, <3>1
  <2>5. Held(t, r)
    BY <1>5, <2>1 DEF Held
  <2>6. executor = "alive" /\ executor' = "alive"
    BY <1>3, <2>1
  <2> QED BY <1>1, <2>1, <2>2, <2>4, <2>5, <2>6, CallKeeps
<1>12. ASSUME NEW t \in ToolCallers, KeepFuture(t) PROVE CallsInv'
  <2> DEFINE r == [toolCalls[t] EXCEPT !.at = "counting"]
  <2>1. /\ r \in CallRecords /\ r.at = "counting" /\ r.result = "TIMEOUT"
        /\ toolCalls[t].at = "keeping" /\ toolCalls[t].result = "TIMEOUT"
        /\ toolCalls' = [toolCalls EXCEPT ![t] = r]
        /\ pendingFutures' = pendingFutures \cup {toolCalls[t].worker}
        /\ UNCHANGED <<workers, counts, executor, RunningWorkers>>
    BY <1>1, <1>3, <1>12 DEF KeepFuture, CallRecords, Places, RunningWorkers
  <2> HIDE DEF r
  <2>2. Late(r) = 1 /\ Late(toolCalls[t]) = 1 /\ StillOpen(r) = 0 /\ StillOpen(toolCalls[t]) = 0
    BY <2>1 DEF Late, StillOpen
  <2>3. CallsCounted(toolCalls', counts')
    <3>1. Gains(t, r)
      BY <1>2, <2>1, <2>2
    <3> QED BY <1>1, <1>6, <2>1, <3>1
  <2>4. Held(t, r)
    BY <1>5, <2>1 DEF Held
  <2>5. executor = "alive" /\ executor' = "alive"
    BY <1>3, <2>1
  <2> QED BY <1>1, <2>1, <2>3, <2>4, <2>5, CallKeeps
<1>13. ASSUME NEW t \in ToolCallers, CountCall(t) PROVE CallsInv'
  <2> DEFINE r == [toolCalls[t] EXCEPT !.at = "sorting"]
  <2>1. /\ r \in CallRecords /\ r.at = "sorting" /\ r.result = toolCalls[t].result /\ r.result # "none"
        /\ toolCalls[t].at = "counting"
        /\ toolCalls' = [toolCalls EXCEPT ![t] = r]
        /\ counts' = [counts EXCEPT !.total = @ + 1]
        /\ UNCHANGED <<workers, pendingFutures, executor, RunningWorkers>>
    BY <1>1, <1>3, <1>13 DEF CountCall, CallRecords, Places, RunningWorkers
  <2> HIDE DEF r
  <2>2. /\ counts' \in Counters /\ counts'.total = counts.total + 1
        /\ counts'.timeout = counts.timeout /\ counts'.success = counts.success /\ counts'.failure = counts.failure
    BY <1>1, <2>1 DEF Counters
  <2>3. /\ Late(r) = 0 /\ StillOpen(toolCalls[t]) = 0
        /\ Late(toolCalls[t]) = 1 - StillOpen(r) /\ StillOpen(r) \in {0, 1}
    BY <2>1 DEF Late, StillOpen
  <2>4. CallsCounted(toolCalls', counts')
    <3>1. Gains(t, r)
      BY <1>2, <2>2, <2>3
    <3> QED BY <1>6, <2>1, <2>2, <3>1
  <2>5. Held(t, r)
    BY <1>5, <2>1 DEF Held
  <2>6. executor = "alive" /\ executor' = "alive"
    BY <1>3, <2>1
  <2> QED BY <1>1, <2>1, <2>2, <2>4, <2>5, <2>6, CallKeeps
<1>14. ASSUME NEW t \in ToolCallers, CountKind(t) PROVE CallsInv'
  <2> DEFINE r == NoCall
  <2>1. /\ r \in CallRecords /\ r.at = "away" /\ r.result = "none"
        /\ toolCalls[t].at = "sorting" /\ toolCalls' = [toolCalls EXCEPT ![t] = r]
        /\ UNCHANGED <<workers, pendingFutures, executor, RunningWorkers>>
    BY <1>14 DEF CountKind, CallRecords, Places, NoCall, RunningWorkers
  <2> HIDE DEF r
  <2>2. /\ Late(r) = 0 /\ Late(toolCalls[t]) = 0 /\ StillOpen(r) = 0
        /\ StillOpen(toolCalls[t]) = IF toolCalls[t].result = "TIMEOUT" THEN 0 ELSE 1
    BY <2>1 DEF Late, StillOpen
  <2>3. counts' \in Counters /\ CallsCounted(toolCalls', counts')
    <3>1. CASE toolCalls[t].result = "SUCCEEDED"
      <4>1. counts' = [counts EXCEPT !.success = @ + 1]
        BY <1>14, <3>1 DEF CountKind
      <4>2. /\ counts' \in Counters /\ counts'.success = counts.success + 1
            /\ counts'.timeout = counts.timeout /\ counts'.total = counts.total /\ counts'.failure = counts.failure
        BY <1>1, <4>1 DEF Counters
      <4>3. Gains(t, r)
        BY <1>2, <2>2, <3>1, <4>2
      <4> QED BY <1>6, <2>1, <4>2, <4>3
    <3>2. CASE toolCalls[t].result = "FAILED"
      <4>1. counts' = [counts EXCEPT !.failure = @ + 1]
        BY <1>14, <3>2 DEF CountKind
      <4>2. /\ counts' \in Counters /\ counts'.failure = counts.failure + 1
            /\ counts'.timeout = counts.timeout /\ counts'.total = counts.total /\ counts'.success = counts.success
        BY <1>1, <4>1 DEF Counters
      <4>3. Gains(t, r)
        BY <1>2, <2>2, <3>2, <4>2
      <4> QED BY <1>6, <2>1, <4>2, <4>3
    <3>3. CASE toolCalls[t].result = "TIMEOUT"
      <4>1. counts' = counts
        BY <1>14, <3>3 DEF CountKind
      <4>2. Gains(t, r)
        BY <1>2, <2>2, <3>3, <4>1
      <4> QED BY <1>1, <1>6, <2>1, <4>1, <4>2
    <3>4. toolCalls[t].result \in {"SUCCEEDED", "FAILED", "TIMEOUT"}
      BY <1>3, <2>1
    <3> QED BY <3>1, <3>2, <3>3, <3>4
  <2>4. Held(t, r)
    BY <1>5, <2>1 DEF Held
  <2>5. executor = "alive" /\ executor' = "alive"
    BY <1>3, <2>1
  <2> QED BY <1>1, <2>1, <2>3, <2>4, <2>5, CallKeeps
<1>15. ASSUME NEW w \in RunningWorkers, NEW result \in Ended, WorkerEnds(w, result) PROVE CallsInv'
  <2>1. /\ DOMAIN workers' = DOMAIN workers
        /\ \A v \in DOMAIN workers : workers'[v] = IF v = w THEN result ELSE workers[v]
        /\ UNCHANGED <<toolCalls, pendingFutures, counts, executor>>
    BY <1>15 DEF WorkerEnds
  <2>2. RunningWorkers' \subseteq RunningWorkers
    BY <2>1 DEF RunningWorkers, Ended
  <2>3. CallsTypeOK' /\ CallsCounted(toolCalls', counts')
    BY <1>1, <2>1 DEF CallsTypeOK
  <2>4. CallsAreWhere'
    BY <2>1, <2>2 DEF CallsInv, CallsAreWhere
  <2> QED BY <2>3, <2>4 DEF CallsInv
<1>16. CASE Destroy \/ Joined \/ UNCHANGED toolExecutorVars
  <2>1. /\ UNCHANGED <<toolCalls, workers, counts>> /\ executor' \in {"alive", "joining", "destroyed"}
        /\ executor' = executor \/ \A t \in ToolCallers : toolCalls[t].at = "away"
        /\ \/ pendingFutures' = pendingFutures /\ (executor' = "destroyed" => executor = "destroyed")
           \/ pendingFutures \cap RunningWorkers = {} /\ executor = "joining"
    BY <1>1, <1>16 DEF Destroy, Joined, toolExecutorVars, CallsInv, CallsAreWhere
  <2>2. RunningWorkers' = RunningWorkers
    BY <2>1 DEF RunningWorkers
  <2>3. CallsTypeOK' /\ CallsCounted(toolCalls', counts')
    BY <1>1, <2>1 DEF CallsTypeOK
  <2>4. CASE pendingFutures' = pendingFutures /\ (executor' = "destroyed" => executor = "destroyed")
    BY <2>1, <2>2, <2>3, <2>4 DEF CallsInv, CallsAreWhere
  <2>5. CASE pendingFutures \cap RunningWorkers = {} /\ executor = "joining"
    <3>1. RunningWorkers = {}
      BY <1>3, <1>4, <2>5
    <3> QED BY <1>3, <2>1, <2>2, <2>3, <2>5, <3>1 DEF CallsInv, CallsAreWhere
  <2> QED BY <2>1, <2>4, <2>5
<1> QED BY <1>7, <1>8, <1>9, <1>10, <1>11, <1>12, <1>13, <1>14, <1>15, <1>16 DEF ToolExecutorNext

LEMMA CallsAddUpThen == CallsInv => CallsAddUp
<1> SUFFICES ASSUME CallsInv PROVE CallsAddUp
  OBVIOUS
<1> DEFINE InCall(at, results) ==
             Cardinality({t \in ToolCallers : toolCalls[t].at \in at /\ toolCalls[t].result \in results})
<1>1. InCall({"keeping", "counting"}, {"TIMEOUT"}) = Cardinality(TimedOut(toolCalls))
  BY DEF TimedOut
<1>2. InCall({"sorting"}, {"SUCCEEDED", "FAILED"}) = Cardinality(Unsorted(toolCalls))
  <2>1. \A t \in ToolCallers :
          toolCalls[t].at = "sorting" => toolCalls[t].result \in {"SUCCEEDED", "FAILED", "TIMEOUT"}
    BY DEF CallsInv, CallsTypeOK, CallsAreWhere, CallRecords
  <2>2. {t \in ToolCallers : toolCalls[t].at \in {"sorting"} /\ toolCalls[t].result \in {"SUCCEEDED", "FAILED"}}
          = Unsorted(toolCalls)
    BY <2>1 DEF Unsorted
  <2> QED BY <2>2
<1>3. counts.total + InCall({"keeping", "counting"}, {"TIMEOUT"})
        = counts.success + counts.failure + counts.timeout + InCall({"sorting"}, {"SUCCEEDED", "FAILED"})
  BY <1>1, <1>2 DEF CallsInv, CallsCounted
<1>4. /\ RunningWorkers \subseteq pendingFutures
           \cup {toolCalls[t].worker : t \in {u \in ToolCallers : toolCalls[u].at \in {"waiting", "keeping"}}}
      /\ executor = "destroyed" => RunningWorkers = {}
  BY DEF CallsInv, CallsAreWhere
<1> QED BY <1>3, <1>4 DEF CallsAddUp

(***************************************************************************)
(* Tools: the registry                                                     *)
(***************************************************************************)
RegistryInv ==
  /\ DOMAIN catalog \subseteq ToolNames
  /\ \A n \in DOMAIN catalog :
       catalog[n] \in [category : ToolCategories, status : ToolStatuses, uses : Nat]
  /\ DOMAIN byCategory = ToolCategories
  /\ runningTools \in Seq(ToolNames)
  /\ RegistryAgrees

\* Entering a tool that does not run, and leaving the innermost
LEMMA EnterTool ==
  ASSUME NEW s \in Seq(ToolNames), IsInjective(s), NEW n \in ToolNames \ ToSet(s)
  PROVE  LET t == <<n>> \o s
         IN t \in Seq(ToolNames) /\ IsInjective(t) /\ ToSet(t) = ToSet(s) \cup {n}
<1> DEFINE t == <<n>> \o s
<1>1. /\ t \in Seq(ToolNames) /\ Len(t) = Len(s) + 1 /\ t[1] = n
      /\ \A i \in 1..Len(s) : t[i + 1] = s[i]
  OBVIOUS
<1>2. /\ DOMAIN t = 1..(Len(s) + 1) /\ DOMAIN s = 1..Len(s) /\ Len(s) \in Nat
  BY <1>1
<1> HIDE DEF t
<1>3. \A i \in DOMAIN t : \/ i = 1
                          \/ /\ i # 1 /\ i - 1 \in DOMAIN s /\ t[i] = s[i - 1]
  <2> SUFFICES ASSUME NEW i \in DOMAIN t, i # 1
               PROVE  i - 1 \in DOMAIN s /\ t[i] = s[i - 1]
    OBVIOUS
  <2>1. i - 1 \in 1..Len(s) /\ (i - 1) + 1 = i
    BY <1>2
  <2> QED BY <1>1, <1>2, <2>1
<1>4. ToSet(t) = ToSet(s) \cup {n}
  <2>1. ASSUME NEW x \in ToSet(t) PROVE x \in ToSet(s) \cup {n}
    BY <1>1, <1>3, <2>1 DEF ToSet
  <2>2. ASSUME NEW x \in ToSet(s) PROVE x \in ToSet(t)
    <3>1. PICK i \in 1..Len(s) : s[i] = x
      BY <1>2, <2>2 DEF ToSet
    <3>2. i + 1 \in DOMAIN t /\ t[i + 1] = x
      BY <1>1, <1>2, <3>1
    <3> QED BY <3>2 DEF ToSet
  <2>3. n \in ToSet(t)
    BY <1>1, <1>2 DEF ToSet
  <2> QED BY <2>1, <2>2, <2>3
<1>5. IsInjective(t)
  <2> SUFFICES ASSUME NEW i \in DOMAIN t, NEW j \in DOMAIN t, t[i] = t[j]
               PROVE  i = j
    BY DEF IsInjective
  <2>1. \A k \in DOMAIN s : s[k] # n
    BY DEF ToSet
  <2>2. CASE i = 1 \/ j = 1
    BY <1>1, <1>3, <2>1, <2>2
  <2>3. CASE i # 1 /\ j # 1
    <3>1. i - 1 = j - 1
      BY <1>3, <2>3 DEF IsInjective
    <3> QED BY <1>2, <3>1
  <2> QED BY <2>2, <2>3
<1> QED BY <1>1, <1>4, <1>5 DEF t

LEMMA LeaveTool ==
  ASSUME NEW s \in Seq(ToolNames), IsInjective(s), s # <<>>
  PROVE  /\ Tail(s) \in Seq(ToolNames) /\ IsInjective(Tail(s))
         /\ Head(s) \in ToSet(s) /\ ToSet(Tail(s)) = ToSet(s) \ {Head(s)}
<1> DEFINE t == Tail(s)
<1>1. /\ t \in Seq(ToolNames) /\ Len(t) = Len(s) - 1 /\ Head(s) = s[1] /\ 1 \in DOMAIN s
      /\ \A i \in 1..Len(t) : t[i] = s[i + 1]
  OBVIOUS
<1>2. DOMAIN t = 1..(Len(s) - 1) /\ DOMAIN s = 1..Len(s) /\ Len(s) \in Nat
  BY <1>1
<1> HIDE DEF t
<1>3. \A i \in DOMAIN t : i + 1 \in DOMAIN s /\ t[i] = s[i + 1] /\ i + 1 # 1 /\ i \in Nat
  BY <1>1, <1>2
<1>4. \A i \in DOMAIN t : t[i] # s[1]
  BY <1>1, <1>3 DEF IsInjective
<1>5. \A i, j \in DOMAIN t : t[i] = t[j] => i + 1 = j + 1
  BY <1>3 DEF IsInjective
<1>6. IsInjective(t)
  BY <1>3, <1>5 DEF IsInjective
<1>7. \A j \in DOMAIN s : j = 1 \/ \E i \in DOMAIN t : t[i] = s[j]
  <2> SUFFICES ASSUME NEW j \in DOMAIN s, j # 1
               PROVE  \E i \in DOMAIN t : t[i] = s[j]
    OBVIOUS
  <2>1. j - 1 \in DOMAIN t /\ (j - 1) + 1 = j
    BY <1>2
  <2> QED BY <1>3, <2>1
<1>8. ToSet(t) = ToSet(s) \ {s[1]}
  <2>1. ASSUME NEW x \in ToSet(t) PROVE x \in ToSet(s) \ {s[1]}
    BY <1>3, <1>4, <2>1 DEF ToSet
  <2>2. ASSUME NEW x \in ToSet(s), x # s[1] PROVE x \in ToSet(t)
    BY <1>7, <2>2 DEF ToSet
  <2> QED BY <2>1, <2>2
<1> QED BY <1>1, <1>6, <1>8 DEF t, ToSet

LEMMA RegistryStart == ToolRegistryInit => RegistryInv
<1> SUFFICES ASSUME ToolRegistryInit PROVE RegistryInv
  OBVIOUS
<1>1. runningTools \in Seq(ToolNames) /\ IsInjective(runningTools) /\ ToSet(runningTools) = {}
  BY DEF ToolRegistryInit, IsInjective, ToSet
<1>2. /\ DOMAIN catalog = DiscoveredTools /\ DOMAIN byCategory = ToolCategories
      /\ \A n \in DiscoveredTools :
           catalog[n] = [category |-> DiscoveredAs, status |-> "AVAILABLE", uses |-> 0]
      /\ byCategory[DiscoveredAs] = DiscoveredTools
  BY RegistryAssumption DEF ToolRegistryInit, NewTool
<1>3. \A n \in DOMAIN catalog : catalog[n] \in [category : ToolCategories, status : ToolStatuses, uses : Nat]
  BY <1>2, RegistryAssumption DEF ToolStatuses
<1> QED BY <1>1, <1>2, <1>3, RegistryAssumption DEF ToolRegistryInit, RegistryInv, RegistryAgrees

\* What may happen while no tool comes or goes: their statuses change
LEMMA SameTools ==
  ASSUME RegistryInv, DOMAIN catalog' = DOMAIN catalog, UNCHANGED byCategory,
         \A n \in DOMAIN catalog :
           /\ catalog'[n] \in [category : ToolCategories, status : ToolStatuses, uses : Nat]
           /\ catalog'[n].category = catalog[n].category,
         runningTools' \in Seq(ToolNames), IsInjective(runningTools)',
         {n \in DOMAIN catalog : catalog'[n].status = "BUSY"} = ToSet(runningTools') \cup abandoned',
         ToSet(runningTools') \cap abandoned' = {}
  PROVE  RegistryInv'
BY DEF RegistryInv, RegistryAgrees

LEMMA RegistryStep == ASSUME RegistryInv, [ToolRegistryNext]_toolRegistryVars PROVE RegistryInv'
<1> DEFINE Running == ToSet(runningTools)
           Tools == [category : ToolCategories, status : ToolStatuses, uses : Nat]
<1>1. /\ DOMAIN catalog \subseteq ToolNames
      /\ runningTools \in Seq(ToolNames) /\ IsInjective(runningTools)
      /\ {n \in DOMAIN catalog : catalog[n].status = "BUSY"} = Running \cup abandoned
      /\ Running \cap abandoned = {}
      /\ DOMAIN byCategory = ToolCategories
  BY DEF RegistryInv, RegistryAgrees
<1>2. \A n \in DOMAIN catalog :
        /\ catalog[n] \in Tools /\ n \in byCategory[catalog[n].category]
        /\ catalog[n].category \in ToolCategories /\ catalog[n].status \in ToolStatuses
        /\ catalog[n].uses \in Nat
  BY DEF RegistryInv, RegistryAgrees
<1> HIDE DEF Running
<1>3. CASE UNCHANGED toolRegistryVars
  BY <1>3 DEF toolRegistryVars, RegistryInv, RegistryAgrees
<1>4. ASSUME NEW n \in ToolNames, NEW c \in ToolCategories, RegisterTool(n, c)
      PROVE  RegistryInv'
  <2>1. /\ DOMAIN catalog' = DOMAIN catalog \cup {n}
        /\ \A m \in DOMAIN catalog' : catalog'[m] = IF m = n THEN NewTool(c) ELSE catalog[m]
        /\ byCategory' = [byCategory EXCEPT ![c] = @ \cup {n}]
        /\ abandoned' = abandoned \ {n} /\ runningTools' = runningTools /\ n \notin Running
    BY <1>4 DEF RegisterTool, With, Running
  <2>2. NewTool(c) \in Tools /\ NewTool(c).status = "AVAILABLE" /\ NewTool(c).category = c
    BY DEF NewTool, ToolStatuses
  <2>3. \A m \in DOMAIN catalog' : catalog'[m] \in Tools
    BY <1>2, <2>1, <2>2
  <2>4. \A m \in DOMAIN catalog' : m \in byCategory'[catalog'[m].category]
    BY <1>1, <1>2, <2>1, <2>2
  <2>5. {m \in DOMAIN catalog' : catalog'[m].status = "BUSY"} = Running \cup abandoned'
    BY <1>1, <2>1, <2>2
  <2>6. DOMAIN catalog' \subseteq ToolNames /\ DOMAIN byCategory' = ToolCategories
        /\ ToSet(runningTools') = Running /\ Running \cap abandoned' = {}
    BY <1>1, <2>1 DEF Running
  <2> QED BY <1>1, <2>1, <2>3, <2>4, <2>5, <2>6 DEF RegistryInv, RegistryAgrees
<1>5. ASSUME NEW n \in ToolNames, UnregisterTool(n)
      PROVE  RegistryInv'
  <2>1. /\ DOMAIN catalog' = DOMAIN catalog \ {n}
        /\ \A m \in DOMAIN catalog' : catalog'[m] = catalog[m]
        /\ byCategory' = [byCategory EXCEPT ![catalog[n].category] = @ \ {n}]
        /\ abandoned' = abandoned \ {n} /\ runningTools' = runningTools
        /\ n \notin Running /\ n \in DOMAIN catalog
    BY <1>5 DEF UnregisterTool, Without, Running
  <2>2. \A m \in DOMAIN catalog' : catalog'[m] \in Tools /\ m \in byCategory'[catalog'[m].category]
    BY <1>1, <1>2, <2>1
  <2>3. {m \in DOMAIN catalog' : catalog'[m].status = "BUSY"} = Running \cup abandoned'
    BY <1>1, <2>1
  <2>4. DOMAIN catalog' \subseteq ToolNames /\ DOMAIN byCategory' = ToolCategories
        /\ ToSet(runningTools') = Running /\ Running \cap abandoned' = {}
    BY <1>1, <2>1 DEF Running
  <2> QED BY <1>1, <2>1, <2>2, <2>3, <2>4 DEF RegistryInv, RegistryAgrees
<1>6. ASSUME NEW n \in ToolNames, NEW status \in ToolStatuses, UpdateToolStatus(n, status)
      PROVE  RegistryInv'
  <2>1. /\ n \notin Running /\ n \in DOMAIN catalog /\ status # "BUSY"
        /\ catalog' = [catalog EXCEPT ![n].status = status]
        /\ abandoned' = abandoned \ {n} /\ UNCHANGED <<byCategory, runningTools>>
    BY <1>6 DEF UpdateToolStatus, Running
  <2>2. DOMAIN catalog' = DOMAIN catalog /\ \A m \in DOMAIN catalog :
          /\ catalog'[m] \in Tools /\ catalog'[m].category = catalog[m].category
          /\ catalog'[m].status = IF m = n THEN status ELSE catalog[m].status
    BY <1>2, <2>1
  <2>3. {m \in DOMAIN catalog : catalog'[m].status = "BUSY"} = Running \cup abandoned'
    BY <1>1, <2>1, <2>2
  <2> QED BY <1>1, <2>1, <2>2, <2>3, SameTools DEF Running
<1>7. CASE RefreshToolAvailability
  <2>1. DOMAIN catalog' = DOMAIN catalog /\ \A m \in DOMAIN catalog :
          /\ catalog'[m] \in Tools /\ catalog'[m].category = catalog[m].category
          /\ catalog'[m].status = "BUSY" <=> catalog[m].status = "BUSY"
    BY <1>2, <1>7 DEF RefreshToolAvailability, ToolStatuses
  <2>2. UNCHANGED <<byCategory, runningTools, abandoned>>
    BY <1>7 DEF RefreshToolAvailability
  <2>3. {m \in DOMAIN catalog : catalog'[m].status = "BUSY"} = Running \cup abandoned'
    BY <1>1, <2>1, <2>2
  <2> QED BY <1>1, <2>1, <2>2, <2>3, SameTools DEF Running
<1>8. ASSUME NEW n \in ToolNames, BeginTool(n)
      PROVE  RegistryInv'
  <2>1. /\ n \in DOMAIN catalog /\ catalog[n].status = "AVAILABLE"
        /\ catalog' = [catalog EXCEPT ![n].status = "BUSY"]
        /\ runningTools' = <<n>> \o runningTools /\ UNCHANGED <<byCategory, abandoned>>
    BY <1>8 DEF BeginTool
  <2>2. n \notin Running \cup abandoned
    BY <1>1, <2>1
  <2>3. /\ runningTools' \in Seq(ToolNames) /\ IsInjective(runningTools)'
        /\ ToSet(runningTools') = Running \cup {n}
    BY <1>1, <2>1, <2>2, EnterTool DEF Running
  <2>4. DOMAIN catalog' = DOMAIN catalog /\ \A m \in DOMAIN catalog :
          /\ catalog'[m] \in Tools /\ catalog'[m].category = catalog[m].category
          /\ catalog'[m].status = IF m = n THEN "BUSY" ELSE catalog[m].status
    BY <1>2, <2>1 DEF ToolStatuses
  <2>5. {m \in DOMAIN catalog : catalog'[m].status = "BUSY"} = (Running \cup {n}) \cup abandoned
    BY <1>1, <2>1, <2>4
  <2> QED BY <1>1, <2>1, <2>2, <2>3, <2>4, <2>5, SameTools
<1>9. ASSUME runningTools # <<>>, runningTools' = Tail(runningTools), UNCHANGED <<byCategory, abandoned>>,
             DOMAIN catalog' = DOMAIN catalog,
             \A m \in DOMAIN catalog :
               /\ catalog'[m] \in Tools /\ catalog'[m].category = catalog[m].category
               /\ m # Head(runningTools) => catalog'[m].status = catalog[m].status
               /\ m = Head(runningTools) => catalog'[m].status # "BUSY"
      PROVE  RegistryInv'
  <2> DEFINE h == Head(runningTools)
  <2>1. /\ runningTools' \in Seq(ToolNames) /\ IsInjective(runningTools)'
        /\ h \in Running /\ ToSet(runningTools') = Running \ {h}
    BY <1>1, <1>9, LeaveTool DEF Running
  <2>2. {m \in DOMAIN catalog : catalog'[m].status = "BUSY"} = (Running \ {h}) \cup abandoned
    BY <1>1, <1>9, <2>1
  <2> QED BY <1>1, <1>9, <2>1, <2>2, SameTools
<1>10. CASE FinishTool
  <2>1. /\ runningTools # <<>> /\ runningTools' = Tail(runningTools) /\ UNCHANGED <<byCategory, abandoned>>
        /\ catalog' = [catalog EXCEPT ![Head(runningTools)].status = "AVAILABLE",
                                      ![Head(runningTools)].uses = @ + 1]
    BY <1>10 DEF FinishTool
  <2>2. Head(runningTools) \in DOMAIN catalog
    BY <1>1, <2>1, LeaveTool DEF Running
  <2>3. DOMAIN catalog' = DOMAIN catalog /\ \A m \in DOMAIN catalog :
          /\ catalog'[m] \in Tools /\ catalog'[m].category = catalog[m].category
          /\ m # Head(runningTools) => catalog'[m].status = catalog[m].status
          /\ m = Head(runningTools) => catalog'[m].status # "BUSY"
    <3> DEFINE h == Head(runningTools)
               once == [catalog EXCEPT ![h].status = "AVAILABLE"]
    <3>1. DOMAIN once = DOMAIN catalog /\ \A m \in DOMAIN catalog :
            /\ once[m] \in Tools /\ once[m].category = catalog[m].category
            /\ m # h => once[m].status = catalog[m].status
            /\ m = h => once[m].status = "AVAILABLE"
      BY <1>2 DEF ToolStatuses
    <3>2. catalog' = [once EXCEPT ![h].uses = @ + 1]
      BY <2>1
    <3> HIDE DEF once
    <3>3. once[h].uses \in Nat
      BY <2>2, <3>1
    <3>4. DOMAIN catalog' = DOMAIN catalog /\ \A m \in DOMAIN catalog :
            /\ catalog'[m] \in Tools /\ catalog'[m].category = once[m].category
            /\ catalog'[m].status = once[m].status
      BY <3>1, <3>2, <3>3
    <3> QED BY <3>1, <3>4
  <2> QED BY <1>9, <2>1, <2>3
<1>11. CASE FailTool
  <2>1. /\ runningTools # <<>> /\ runningTools' = Tail(runningTools) /\ UNCHANGED <<byCategory, abandoned>>
        /\ catalog' = [catalog EXCEPT ![Head(runningTools)].status = "ERROR"]
    BY <1>11 DEF FailTool
  <2>2. DOMAIN catalog' = DOMAIN catalog /\ \A m \in DOMAIN catalog :
          /\ catalog'[m] \in Tools /\ catalog'[m].category = catalog[m].category
          /\ m # Head(runningTools) => catalog'[m].status = catalog[m].status
          /\ m = Head(runningTools) => catalog'[m].status # "BUSY"
    BY <1>2, <2>1 DEF ToolStatuses
  <2> QED BY <1>9, <2>1, <2>2
<1>12. CASE EscapeTools
  <2>1. /\ runningTools' = <<>> /\ abandoned' = abandoned \cup Running /\ UNCHANGED <<catalog, byCategory>>
    BY <1>12 DEF EscapeTools, Running
  <2>2. runningTools' \in Seq(ToolNames) /\ IsInjective(runningTools)' /\ ToSet(runningTools') = {}
    BY <2>1 DEF IsInjective, ToSet
  <2> QED BY <1>1, <1>2, <2>1, <2>2, SameTools
<1>13. CASE ClearToolStatistics
  <2>1. DOMAIN catalog' = DOMAIN catalog /\ \A m \in DOMAIN catalog :
          /\ catalog'[m] \in Tools /\ catalog'[m].category = catalog[m].category
          /\ catalog'[m].status = catalog[m].status
    BY <1>2, <1>13 DEF ClearToolStatistics
  <2>2. UNCHANGED <<byCategory, runningTools, abandoned>>
    BY <1>13 DEF ClearToolStatistics
  <2>3. {m \in DOMAIN catalog : catalog'[m].status = "BUSY"} = Running \cup abandoned'
    BY <1>1, <2>1, <2>2
  <2> QED BY <1>1, <2>1, <2>2, <2>3, SameTools DEF Running
<1> QED BY <1>3, <1>4, <1>5, <1>6, <1>7, <1>8, <1>10, <1>11, <1>12, <1>13 DEF ToolRegistryNext

\* Whatever agents and their threads do with pools, calls and the registry: the books of every
\* pool balance, every call that returns is counted once and no worker outlives the executor,
\* and the tools that run are the busy ones, each once
THEOREM ToolsStaySound == ToolsSpec => []ToolsAreSound
<1> DEFINE IInv == ResourceInv /\ CallsInv /\ RegistryInv
<1>1. ToolsInit => IInv
  BY PoolsStart, CallsStart, RegistryStart DEF ToolsInit
<1>2. IInv /\ [ToolsNext]_toolsVars => IInv'
  BY PoolsStep, CallsStep, RegistryStep DEF ToolsNext, toolsVars
<1>3. IInv => ToolsAreSound
  BY PoolsBalanceThen, CallsAddUpThen DEF ToolsAreSound, RegistryInv
<1> QED BY <1>1, <1>2, <1>3, PTL DEF ToolsSpec
=============================================================================
