# cog-zero in TLA+

TLA+ models of cog-zero's agent runtime, the TLC configurations that check them
on small instances, and TLAPS proofs of what holds for every instance.

The paths below are relative to the repository. The code modelled is the C++
library in `src/` and `include/` with `main.cpp`, the command line, and of the
`agentzero-*` libraries the parts that keep state.

## 1. The system

cog-zero is a library of some sixty C++ classes around one graph, the AtomStore.
Most classes keep a little state of their own behind one mutex and write what
they learn to the store. Beside it, `agentzero-*` are libraries built against
OpenCog's AtomSpace. The parts that keep state others depend on are:

| Part | State | Operations | Talks to |
|---|---|---|---|
| `RaftConsensus`, `RaftLogStore` | term, vote, log, commit index, role, per-peer indexes; one thread per node; a bus with handlers and a set of partitioned nodes | elections, heartbeats, `submitCommand`, `start`, `stop`, `partition`, `heal`, a new node over an old store | nodes, through the bus: the sender's thread runs the receiver's handler |
| `AtomStore` | four maps over the same atoms, an incoming index, the next id | `addNode`, `addLink`, `remove`, `clear`, `saveToFile`, `loadFromFile` | called by every other part; hands out pointers |
| `EpisodicMemory` | episodes, oldest first, each with a handle into the store | `record`, `recordAtom`, `recall`, `forget`, `clear`, eviction at capacity | AtomStore |
| `KnowledgeIntegrator` | entries with handles, an index by content | `addKnowledge`, `removeKnowledge`, `consolidate`, `clear` and two that only write atoms | AtomStore |
| `CognitiveLoop` | percept queue, `_running`, its thread, the cycle count, handles of the last cycle's atoms | `addPercept`, `start`, `stop`, `runSingleCycle`, the five phases | AtomStore, TaskManager, ReasoningEngine |
| `TaskManager` | task queue, goals, the current goal | `createTask`, `enqueue`, `setGoal`, `achieveGoal`, `attachToGoal`, `executeNext` | the loop plans and executes; task actions call back into everything |
| `ReasoningEngine` | an ordered list of rules | `addRule`, `removeRule`, `runCycle`, `runForwardChaining` | callbacks over the AtomStore, which other threads tell more meanwhile |
| `ActionExecutor`, `ActionScheduler` | a registry of callbacks, a priority queue, a schedule with deadlines, dependencies and periods | `enqueue`, `processQueue`, `cancel`; `schedule*`, `addDependency`, `tick` | the scheduler calls the executor, callbacks may call either |
| `ConflictResolver` | tickets with the time they were submitted | submit, resolve, cancel | callers on any thread |
| `CoordinationProtocol` | peers with missed heartbeats, a leader, hand-offs, votes, each map with its lock | register, heartbeat, tick, `electLeader`, hand-off, vote | user callbacks, run after the lock is released; peers |
| `ClusterManager` | nodes, and each agent's migration record | register, heartbeat, `initiateMigration`, `receiveMigration` | nodes exchange serialized agents |
| `DistributedCoordinator` | nodes with loads, tasks placed on them | `registerNode`, `unregisterNode`, `submitTask`, `shutdown` | submitters on any thread |
| `MultiAgentCoordinator` | agents, tasks, proposals, grants, each map with its lock; counters beside them | register, assign, complete, vote, request and release resources | callers on any thread |
| `ResourceManager` | pools with a lock each, their allocations | allocate, release, resize, expire, select | tools, and whoever kept a pool |
| `WorkingMemory` (agentzero-memory) | a bounded buffer with three indexes | `addItem`, `getItem`, remove, decay, cleanup, capacity | AtomSpace |
| `ContextManager` (agentzero-memory) | contexts, active ones, three indexes | create, update, merge, delete, activate, cleanup | AtomSpace |
| `LongTermMemory` (agentzero-memory) | records, four indexes, what is to be written, a storage and a worker | `store`, `retrieve`, `remove`, `updateImportance`, `consolidate`, flush, `shutdown`, `initialize` | a persistent storage, its own thread |
| `GoalHierarchy` (agentzero-planning) | a forest of goals with dependencies | add, remove, reparent, depend | AtomSpace |
| `ActionExecutor`, `ActionScheduler` (agentzero-core) | a priority queue, running actions, their start times; planned actions | execute, cancel, `processActionQueue`, monitor; schedule, dispatch | callbacks run while the lock is released, on any thread |
| `AgentZeroCore` with `CognitiveLoop`, `TaskManager` (agentzero-core) | running flags, the loop's thread, pending percepts, tasks and their queue | start, stop, `setAtomSpace`; `addPercept`; create, enqueue, `executeNext` | the owner joins the loop's thread; the loop and callers execute the same queue |
| `PlanningEngine` (agentzero-planning) | operators, methods, a world of fluents, plans | generate, adapt, cancel, execute a step | plans share the world they are executed in |
| `EpisodicMemory` (agentzero-memory) | episodes with three indexes | store, remove, clear | AtomSpace |
| `ExperienceManager` | a vector of experiences, indexes of positions | record, consolidate, clear | AtomStore |
| `AgentComms` (agentzero-communication) | an inbox, handlers, counters | `sendMessage`, `deliver`, `receive`, `dispatch` | handlers run after the lock is released, on any thread |
| `DialogueManager`, `HumanInterface` (agentzero-communication) | conversations with their turns; sessions and the default one | start, end, process a message, clean up; sessions, `processHumanInput`, reset | the interface calls the manager with no lock of its own held |
| `ToolExecutor`, `ToolRegistry` (agentzero-tools) | kept futures and counters; tools, statuses, categories | execute with a time-out; register, execute, refresh | workers that outlive their call; executors that call the registry back |
| `KnowledgeBase` (agentzero-knowledge) | facts in the AtomSpace | load, add, remove, query by patterns | AtomSpace |

The rest is sensors, text processing, numeric learning and planning, servers
and codecs. Section 8 goes through it.

### What is hard in it

* **Threads.** Raft's threads interleave at every release of a lock, and the
  bus makes one node's thread run inside another node's lock. The cognitive
  loop runs on its own thread while callers add percepts and tasks and an owner
  starts, stops and joins it.
* **Results that come late.** A candidate or leader looks at each reply after
  both locks have been released and taken again; in between it may have stepped
  down, stood again, or become the leader of a later term. A callback of
  agentzero-core's executor returns after its action was cancelled, timed out or
  queued again. An election stores a winner that may have left meanwhile.
* **Crashes and restarts.** A Raft node is rebuilt over its log store with its
  term and vote and without its commit index. The command line saves, exits,
  loads in a new process and goes on. The long-term memory starts again from its
  storage. Peers of the coordination protocol crash and come back.
* **Lost calls.** A partitioned or half registered node loses requests, but not
  those whose handler was already looked up. Heartbeats are late or lost.
* **Pointers into shared state.** Episodes, knowledge entries and the loop keep
  handles into a store from which others remove atoms and which a load empties.
* **Callbacks.** Task and scheduled actions run in the middle of an operation
  that holds references into the container they may change.
* **Time-outs.** A tool that timed out goes on using the executor that gave it up;
  a callback that timed out stores its result late.
* **Bookkeeping in several places.** Counters beside maps (agents, allocations,
  loads), indexes kept by hand (the memories, goals), one decision made under two
  locks one after the other (migrations, pools, reports).

What makes the parts correct: Raft elects at most one leader per term, never
loses a committed entry, and commits what a stable leader accepts; the store's
maps tell one story and no client removes another's atom; percepts are
perceived once and in order, the highest-priority task runs next, a task that
ended was called, and everything queued is reached while the loop runs; a
migration settles, reports are of the current state and nodes agree on a leader
in the end; counters and indexes agree with what they count and index; what is
inferred follows from what was told and what is answered is known; plans reach
their goals; messages are handled once; what is to be kept is in the storage.

`PROJECT.json` lists the hazards at their lines, each with the properties that
would catch it going wrong.

## 2. The modules

| Module | What it is | Code |
|---|---|---|
| `Raft` | the cluster, one action per critical section | `RaftConsensus.cpp`, `RaftLogStore.cpp` |
| `RaftProperties` | its invariants, action and liveness properties, fairness, the inductive invariant of elections; symmetry, bounds and the schedule of the liveness run | |
| `ReplicatedLog` | what the cluster promises: one log that only grows, of which each node knows a prefix | |
| `RaftRefinement` | the history variable and the mapping under which `Raft` implements `ReplicatedLog`, with the symmetry and the bound of its run | |
| `RaftProofs`, `RaftCommitProofs` | TLAPS proofs: types, votes, elections, leaders and logs; commits and the refinement | |
| `AtomStore` | the store as functions from store to store, with arbitrary callers | `AtomStore.cpp` |
| `AgentMemory` | the clients that keep handles, composed with the store they share | `EpisodicMemory.cpp`, `KnowledgeIntegrator.cpp`, `CognitiveLoop::phaseReflection`, `save`/`load` of `main.cpp` |
| `MCAgentMemory` | which clients meet in one behaviour | |
| `AgentLoop` | the loop's thread, its owner, its callers and the task queue, and which callers meet in one behaviour | `CognitiveLoop.cpp`, `TaskManager.cpp` |
| `AgentProofs` | TLAPS proofs about the store, its clients and the loop | |
| `ActionExecutor` | registered callbacks and the queue of actions | `ActionExecutor.cpp` |
| `ActionScheduler` | the schedule and `tick`, over the executor | `ActionScheduler.cpp` |
| `StdContainers` | insertion into and removal from a `std::map`; what is left when elements are erased from a `std::vector`, and what `std::stable_sort` makes of one | |
| `ContainerLemmas` | TLAPS proofs of what those operators give for every vector | |
| `ConflictResolver` | tickets and the three strategies | `ConflictResolver.cpp` |
| `CoordinationProtocol` | one node's peers, leader, hand-offs and proposals | `CoordinationProtocol.cpp` |
| `CoordinationCluster` | nodes, peers that crash and a network that settles | the same, composed |
| `ClusterManager` | nodes and migrations | `ClusterManager.cpp` |
| `DistributedCoordinator` | placement of tasks | `DistributedCoordinator.cpp` |
| `MultiAgentCoordinator` | agents, tasks, votes, shares, counters | `MultiAgentCoordinator.cpp` |
| `ResourceManager` | pools and the manager | `ResourceManager.cpp` |
| `ReasoningEngine` | rules, and what the default ones infer | `ReasoningEngine.cpp`, `Agent::buildDefaultRules` |
| `WorkingMemory` | the buffer and its indexes | agentzero-memory |
| `ContextManager` | contexts and their indexes | agentzero-memory |
| `LongTermMemory` | records, indexes, storage and restarts | agentzero-memory |
| `GoalHierarchy` | the forest of goals and their dependencies | agentzero-planning |
| `PlanningEngine` | search, decomposition and execution of plans | agentzero-planning |
| `EpisodicMemory` | episodes and their indexes, another class than `AgentMemory`'s | agentzero-memory |
| `ExperienceManager` | experiences and their positions | `ExperienceManager.cpp` |
| `CoreActions` | the executor and the scheduler with threads | agentzero-core |
| `CoreAgent` | the agent's life cycle, its loop, its tasks and who else runs them | agentzero-core |
| `DialogueManager`, `HumanInterface` | conversations, and sessions of users over them | agentzero-communication |
| `AgentComms` | inbox and handlers | agentzero-communication |
| `ToolExecutor`, `ToolRegistry` | workers and time-outs; tools and their executors | agentzero-tools |
| `AgentServices` | the parts of communication composed, and those of tools, each with its property | |
| `KnowledgeBase` | facts and queries | agentzero-knowledge |
| `AgentMind` | what an agent remembers and wants composed, and the core that drives it, each with its property | |
| `MindProofs` | TLAPS proofs about the four memories kept by hand, the goals, what the rules infer, the answers to queries, and plans | |
| `CoreProofs` | TLAPS proofs about actions, those of `src/` and those of agentzero-core, its tasks and its loop | |
| `ServiceProofs` | TLAPS proofs about migrations, placement, long-term memory, reports, the coordinator and tools | |
| `CommunicationProofs` | TLAPS proofs about messages, conversations and sessions | |
| `MCServices` | one component a behaviour, twenty-one of them: safety | |
| `MCServicesLive` | the same for five whose promises are of the end | |

Operators whose name begins with `Mutant` are faults a careless edit could
introduce, each next to the definition it would replace. No action uses them.
They show that a property is not vacuous: put in place of the definition, each
makes its run fail.

## 3. How the models correspond to the code

### Raft

Every node has one thread (`_runLoop`), whose position is `pc`:

    idle -> candidate -> election -> votecall -> votereply -> election ... -> idle
    idle -> heartbeat -> appendlookup -> appendcall -> appendreply -> heartbeat ... -> idle

Each arrow is one critical section of the code. `LookupVoter` and
`LookupFollower` are the bus looking up a handler under its own lock, which is
where partition and stop take effect; `CallVoter` and `CallFollower` are the
handler, run by the caller's thread under the callee's lock; `ReceiveVote` and
`ReceiveAppend` are the caller's own critical section after the reply. `todo`,
`target`, `rpc`, `reply` and `granted` are the locals of the round, `granted`
being the count `votes` with the voters remembered.

* The order in which a round visits its peers is that of a config vector; the
  model takes any order.
* The election deadline is random and read without the lock its writers hold.
  It is modelled as a timer that may fire at any time while the thread is idle.
* `stored` is what `persistState` wrote. It survives `Reload`, which is a new
  `RaftNode` over the old store: the default store keeps it as long as the store
  object lives, a durable one keeps it on disk. A reload happens between rounds
  and while nobody else is calling the node, as destroying a node in use would
  be undefined.
* `start()` registers two handlers in two critical sections, so `bus` has three
  values. Registering the vote handler also ends a partition, as in the code.
* The log's sentinel at index 0 is left out; `TermAt` gives it term 0.

Bounds: `MaxTerm` ends elections, `MaxLog` ends client commands. They are guards
of `BecomeCandidate` and `SubmitCommand`, so the bounded model is the code with
finitely many timeouts and commands. `MaxActive` (a state constraint) bounds how
many threads are inside a round at once.

### AtomStore and its clients

Every public operation of `AtomStore` holds its mutex from start to end, so it
is a function from a store to a store. A map whose key is computed from the
value is the set of its values. A handle is a C++ pointer: two objects may have
the same id once `clear` or `loadFromFile` restarted the ids, so an atom carries
the *epoch* in which it was created. This matters because `remove` erases three
maps by id or key and one by pointer.

`AgentMemory` extends `AtomStore` and adds the parts that keep handles and pass
them to `remove` later. An operation of a client is one action, although it
makes several calls to the store: the memories hold their own lock over it, the
loop's atoms are its own, and no other caller names the atoms in between. The
other callers (percepts, rules, concepts, relations) add nodes and link any
two live atoms. The process saves, loads, and is replaced by a new one.

Left out: truth and attention values, links without targets (no caller makes
one), `recordAtom` of an atom that another owner holds or of no atom, episode
links, and counters nobody reads.

Bounds: ids per behaviour (`MaxId`, and less in each mix), episodes, entries and
cycles between two clears, and `MaxEpoch` loads or clears per process.

### The loop and the tasks

`phase` is where the thread that runs the cycle is, `driver` is whose thread it
is: the loop's own or, in `runSingleCycle`, the owner's. Percepts are taken
out in one critical section (`SwapPercepts`) and perceived one by one, so callers
interleave. `executeNext` is split where it calls the task's action: `StartTask`
picks the front and calls it, `FinishTask` writes the result through the
reference it kept, which is to whatever the first slot holds by then. That
reference is only valid while the vector has not been reallocated; `slots`
counts its capacity so that the re-entrant run stays on the near side of
undefined behaviour (`Grow`).

At the end of a cycle the loop compares the count with the limit and stores
`_running = false` in two steps (`CheckLimit`, `StopItself`), as an owner's
`start` may come between them. The owner's `start` and `stop` are split at
their joins. `runSingleCycle` is
called while the loop is not running, as its comment intends. All phases are
enabled and the phase hooks are empty. TaskManager has no lock, so its calls are
taken as whole operations: what a race on a vector does has no meaning to check.

### Actions

Neither class has a lock: one thread uses them, and the difficulty is what
callbacks do in the middle of `tick` and `processQueue`. `inside` is the stack of
these two operations; `MayCall` says when an operation may be called, between
ticks or by a running callback. `tick` is split at its callbacks: `BeginTick`
collects and orders what is due, then `MissDeadline`, `SkipAction` or
`StartAction` deals with the next one, `FinishAction` is the callback's return,
and `EndTick` drops what is in `toRemove`. Time passes anywhere, so an action may
be late by its turn although it was not when the tick began. `ScheduleAfter`,
`ScheduleBefore` and `SchedulePeriodic` are the three ways into the schedule.

`tick` keeps pointers into the schedule. A callback that cancels an action still
pointed to, or unregisters the type that is running, leaves it with a dangling
pointer: those calls are left out (`Cancel`, `UnregisterAction`). So are an action
that ticks or processes the queue it is run from, and the scheduler's resource
locks: no operation gives an action a required resource. Despite the
comment in `ActionScheduler.h`, the cognitive loop does not call `tick`; the
model lets any caller do so.

### Coordination and placement

`CoordinationProtocol` has a lock per map, and what a call does after it released
one is a step of its own: telling the callback of each change (`Report`), storing
an election's winner (`StoreLeader`), recording an offer (`RecordOffer`). `todo` is
what each thread still has to do. `heard` and `mixed` are for the property: what
the callback was last told of each peer, and the peers that changed while a
report of them was outstanding, whose reports may arrive in either order.
`CoordinationCluster` adds who is alive, late and lost heartbeats until the
network settles, and in each node a thread that ticks and others that elect.

`ClusterManager` reads the nodes and writes the record under two locks, and
`receiveMigration` writes it in two critical sections: `calling` is where each caller
is. `DistributedCoordinator!PickNode` is the selection with the load it adds,
`PlaceTask` the record under the second lock. In `MultiAgentCoordinator` the
selection, the assignment and the counters are as the code's locks divide them.
`ResourceManager` holds its own lock through a call, but the pools have theirs and
outside holders: `SelectPool` reads one pool after another while they change.

`ConflictResolver` stamps a ticket with the time before it takes the lock, and
then each operation is one critical section. Time is the gap from each ticket to
the next, up to the gap that outweighs every priority.

### Reasoning, memories, goals

`ReasoningEngine` walks through the links a step per link, since other threads tell
links meanwhile; `runCycle` and `runForwardChaining` are loops over rules, a rule at
a time. `WorkingMemory`, `ContextManager` and `LongTermMemory` hold one lock per
operation, so an operation is an action, and what matters is whether the indexes
that each operation adjusts in its own way stay true. Importances of
`WorkingMemory` are counted in steps of less than 0.01, because the code treats a
change of one step as none; the round of the eviction loop is an action because
the loop need not end. `drifted` tells whether an item's importance was ever
changed apart from its entry. `LongTermMemory` distinguishes access counts at the
code's own thresholds, and ages by the hour and day at which it consolidates;
`Restart` is `initialize` over the storage that `shutdown` left. Nothing is called
between the two, and a storage that is there does not fail. `known`, `letGo` and
`archived` say what was stored, what left memory before it was written and what
consolidation dropped. `GoalHierarchy` has no lock and one caller.

### Actions of agentzero-core

`processActionQueue` takes a batch under the lock, then calls each action's callback
with the lock released. `turns` is where each thread is: submitting what was due,
running a batch, inside a callback, or about to note the result in the AtomSpace.
`coreStatus`, `coreExecuting` and `startTimes` are the executor's; a callback that
throws leaves `processActionQueue` at once (`CallbackThrows`). A callback may return any
status: the code stores what it gets, and a default `ActionResult` is PENDING. `owed` and
`leftOpen` are for the properties: the calls that were asked for and have not been made,
and the actions whose callback returned that they still wait or run.

`CoreAgent` is what runs around them: the owner's calls split at their joins
(`ownerAt`), the loop's thread (`loopAt`), and a task's execution split where its
action runs without the lock (`doing`), which the loop and other threads do alike. One of
those may run a whole cycle by hand (`byHand`), as `runSingleCycle` is public: while no
loop runs, since two cycles at once would be a data race on the last percept. What an
action throws is caught if it is a `std::exception`; anything else leaves the task RUNNING
(`EscapeCoreTask`, with `leftRunning` for the properties), or ends the process if
it was thrown on the loop's thread, which is left out.

### Plans, records, talk, tools, knowledge

`PlanningEngine!Generate` is a whole search or decomposition, as nobody else runs
meanwhile; execution is an action per step, since plans share the world. `disturbed`
names the goals whose plan no longer meets the world it was made for, of which nothing
is promised. `EpisodicMemory` and `ExperienceManager` are called one operation at a
time; ids, clocks and positions are modelled as the code computes them.

`HumanInterface` calls `DialogueManager` with its own lock released, so `user` says where
each thread is between the two; `saidIn`, `timedOut` and `utterances` are histories. In
`AgentComms`, `mail` is what each thread is delivering or handling. `ToolExecutor` has
atomics instead of a lock: each counter is a step of its own (`CountCall`, `CountKind`),
and workers end whenever they like. What a tool throws is a failed call if it is a
`std::exception` (`Collect`), and else leaves the call before it is counted (`EscapeCall`).
`ToolRegistry` has one caller, whose executors call it back: `runningTools` is the stack of
those. A row of a `KnowledgeBase` answer is the sequence of triples that the patterns were
matched with.

## 4. The runs

### Raft

* `raft_history` - four terms, one member partitioned, stopped or reloaded at
  will. Four terms are enough for the case the current-term rule of
  `_advanceCommitIndex` exists for (an entry of term 1 reaches a majority in
  term 3 and would be overwritten by a leader of term 4). Leaders hold every
  chosen entry, commits stay, and the cluster implements `ReplicatedLog`.
  One thread inside a round at a time keeps this finite in reasonable time: the
  interleavings of rounds are the subject of the next two runs.
* `raft_faults` - one member of three is partitioned, healed, stopped, restarted
  and reloaded at any moment, two threads inside a round, which is what it takes
  for a reply to be overtaken. Votes stay cast within a term, at most one leader
  of a term is elected and known, `ElectionInv`, the inductive invariant of the
  proof, holds, and committed logs agree.
* `raft_live` - two entries, so that a new leader truncates what a deposed one
  left behind. Logs match; accepted commands are committed everywhere; everybody
  ends up following a leader nobody challenges.
* `raft_even` (violation) - four nodes elect two leaders of the same term.
* `raft_single` (violation) - a cluster of one commits nothing.

Nodes are interchangeable except that faulty and reliable ones are not, hence
the symmetry sets. Liveness runs use none.

*Fairness.* `ThreadFairness` is weak fairness of each node's thread: the
scheduler runs it and the heartbeat timer fires, since `_runLoop` polls every few
milliseconds. Nothing is assumed of clients, owners or election timers. The
liveness runs restrict when election timers fire (`QuietNext`): some members
only, and while no round is going on. That is the premise under which Raft
promises progress, a leader that hears and is heard before timers expire, and
without it no implementation would satisfy the property.

### The store

* `memory` - the store under its clients, two kinds at a time (`AllMixes`), and
  under callers that use every operation. The clients touch each other only
  through the store, so a bad effect of one on another shows in the mix of the
  two. Two episodes of capacity and three recorded are enough to evict, with and
  without a recalled one; two cycles are enough for the loop to remove its last
  cycle; four ids are enough for two clients' nodes and a link over both (three
  for callers beside episodes: an episode, a concept and a link over them), and eight
  for the command line to run, save, load and run again.
  In this run `load` happens only while no client holds handles.
* `memory_snapshot` (violation) - the command line alone writes a snapshot that
  cannot be loaded.
* `memory_reload` (violation) - `load` while the loop holds handles of its last
  cycle lets the loop remove an atom that is not its own.

### The services

* `services` - twenty-one components that share nothing, so that each behaviour is of
  one (`part`) and the others stay as they start; where two halves of a component
  share nothing either, they are parts of their own. Bounds, by part:
  - *actions* (`ActionScheduler` over `ActionExecutor`): two actions of every kind
    while the clock advances twice, or three plain ones with any prerequisites, or
    two queued actions and a scheduled one. Two actions are what it takes for one
    callback to delay or cancel another (the second may wait for the first), three for a
    prerequisite to be overwritten between two dependents, two queued ones for `cancel`
    to leave one; callbacks complete or fail, with prerequisites are also cancelled by
    their own account, and with the queue return anything; with two places in the queue it is also full at times. The queue is
    processed only where there are queued actions. Nothing runs twice, late or before
    its prerequisites, and cancelling is final.
  - *one pool* and *two pools*: two requesters, capacities that shrink below what is
    allocated, two grants. Resizing, expiry and sweeps with one pool, selection with two.
  - *migrations*: three threads, two nodes, one agent (records do not meet).
  - *reports* and *books* (`CoordinationProtocol`): one node suffices, since nodes
    exchange nothing but what a caller carries, with two peers and two threads. A
    peer is missed twice before it is suspected and three times before it is dead.
    Only *reports* has callbacks and two threads inside a call; in *books* one thread
    is, and there are hand-offs or ballots at a time, which meet in the peers only.
  - *agents*, *tasks*, *shares* (`MultiAgentCoordinator`): three agents, two where
    tasks are assigned, three registrations in all; two requests for shares that fit
    twice, once or not at all.
  - *placement*: two submitters, two nodes, two tasks per node.
  - *items*: three items in a buffer of at most two, importances two steps apart, and
    the thresholds zero and two. Nothing is promised between a drifted importance and
    the next clear; `working_memory` is about those.
  - *goals*: three goals, chains of two, two subgoals each.
  - *rules* and *inference*: three rules added; three concepts, three links told
    while a rule runs, two passes or as many as it takes. A third link is needed for a
    pass to infer what the next one uses.
  - *contexts*: three contexts of which two fit, so that cleanup and merges happen.
    One type suffices: types only partition one index.
  - *queue* and *dispatch* (`CoreActions`): two threads and two atoms. In *queue*
    callbacks return FAILED, PENDING or RUNNING, throw or take too long, without a
    scheduler; in *dispatch* they return COMPLETED or PENDING, in time, and others are
    planned to wait for them. The executor tells PENDING and RUNNING from the rest only in
    the property, and the scheduler COMPLETED from the rest, so each part has one status
    of either side. Two calls asked for at once are enough for the same action to be
    queued while it runs.
  - *memories*: one handle with one context. Every entry of every index is of one
    handle, and no operation relates two records; an instance with two was
    checked once and showed nothing else.
  - *agent* (`CoreAgent`): the loop and one other thread, which also runs cycles by hand,
    two tasks of two priorities, one of them queued again, one percept, one
    `setAtomSpace`, two cycles.
  - *plans*: two operators that need each other, a task with two methods, a goal that is
    searched for and one that is decomposed; operators or methods change meanwhile.
  - *episodes*, *experiences*: a clock that stands still or goes back; three episodes of
    which two are kept, two experiences of which the limit keeps one or two.
  - *sessions*, *turns*: two users, two sessions, two messages; two callers' own
    conversations.
  - *messages*: two threads, an inbox of two, three messages, which is one too many.
  - *calls*, *tools*: two callers and two workers; two tools, one of them discovered, that
    call each other.
  - *knowledge*: two names, one of them a concept's and a predicate's, two facts, queries
    of one and two patterns, with and without a limit.

  Some of its properties have a part per component: `MindIsOrdered`, `CoreIsSound`,
  `KnowledgeIsSound`, `ToolsAreSound` and `CommunicationIsSound` are conjunctions of one
  invariant each. One exchange of two of a kind, in all kinds at
  once, is the symmetry: each behaviour is of one component, so it is sound for each.
* `services_live` - what must happen in the end, of the loop, a coordination cluster,
  the resolver, agentzero-core's queue and its agent.
  - The loop: two percepts under every cycle limit with an owner who starts, stops and
    steps, or two tasks of two priorities with a goal for a loop without a limit, or
    the same for cycles run by hand. One task per cycle makes the per-cycle limit
    bite with two tasks; HIGH and LOW are a priority that must not be boosted and
    one that must be, once. Percepts and tasks meet in no variable.
  - The cluster: three peers of which one runs this code. Elections are held
    over and over; one alone may store a winner that died meanwhile.
  - The resolver: two tickets at once, waits up to the gap that outweighs the
    difference of priorities.
  - The queue: one slot, so that a callback that throws could block it. The others return
    FAILED: whatever they return gives the slot back and is read by the scheduler only.
  - The agent: two tasks, a loop without a limit, an owner who starts, stops and rewires.
* `agent_reentrant` (violation) - an action that enqueues a task of higher
  priority: that task is marked as ended and dropped, and the one that ran
  stays pending and runs again.
* `working_memory` (violation) - a memory of one item and an importance changed by
  adding the same atom again: the next `addItem` but one never returns.

*Fairness of the loop.* `CycleStep`, `Spawn` and `Join` are weakly fair: threads are
scheduled, task actions return, and a join returns once its thread has ended.
Owners and callers owe nothing. There are finitely many tasks, so a stream of
more important tasks that never ends is outside `LoopServesAll`, as it must be:
the code starves low tasks then.

*Fairness of the cluster.* Once the network has settled, heartbeats of who is alive
arrive between two ticks, ticks and elections go on, and nobody crashes
(`CoordinationCluster`). With a threshold of one missed heartbeat every tick would suspect
everybody, hence `ClusterAssumption`.

*Fairness of the resolver.* Somebody calls `resolve` again and again, and time passes. Under
`STRICT_PRIORITY` and `SLA_PRIORITY` the code does starve tickets; `FairTicketsWin` is
about `FAIRNESS_WEIGHTED`.

*Fairness of the queue.* Callbacks return or throw, somebody calls the monitor, and each
thread processes the queue again and again whatever else it calls. The last is strong
fairness of `TakeBatch`, as a thread is not always at liberty to call it. Nothing is
assumed of those who enqueue.

*Fairness of the agent.* The loop's thread and the owner's joins go on, and actions of tasks
return; nothing is assumed of callers or of other threads.

Runs allow deadlock where the bounds or an owner who does nothing more end a
behaviour; waiting that must end is stated as liveness instead.

## 5. What is proved

Assumptions are those the modules state: a finite non-empty set of nodes that
does not contain the empty id, natural bounds, and a `None` that is none of the
values beside which it stands. No theorem bounds terms, logs, faults, atoms' ids or
the number of actions. Threads are finitely many (`ToolExecutorAssumption`,
`CommsAssumption`, `InterfaceAssumption`), since what is counted is counted over them.
The theorems about queries and plans take those that may be made as parameters: any
sequences of patterns; any finite library, methods and offered tasks whose names are numbers.

### Raft

* `RaftProofs!TypeCorrect` - every variable keeps its type. Proved action by
  action in groups of conjuncts, as other proofs only need parts of it.
* `RaftProofs!VotesAreKept` - within a term, a node that has voted for
  somebody never votes for anybody else, across stop, restart and reload. It
  needs `StoreIsCurrent`: what `persistState` last wrote is the term and vote in
  memory, so a reload changes neither.
* `RaftProofs!ElectionInvariant`, `OneLeaderPerTerm` - at most one leader
  of a term when the number of nodes is odd (`OddCluster`; `raft_even` shows that
  it is needed). `ElectionSafety` alone is not inductive: nothing in it says why a
  candidate about to finish could not meet a leader. `ElectionInv` adds, in order,
  `StoreIsCurrent`; `OwnVote` (a candidate or leader voted for itself);
  `SupportIsPledged` (each counted vote, and each granted reply in flight, is
  pledged: the voter voted so in that term or has moved on); `SupportIsExclusive`
  (nobody's vote is counted by two nodes of one term); and `LeaderHasQuorum` (a
  leader keeps a majority that can support no rival). Two majorities meet
  (`QuorumsIntersect`, from the cardinality of finite sets), which is where odd
  size enters.
* `RaftProofs!OneKnownLeader` - `leaderId` outlives the leader: followers keep it, and
  a deposed leader's thread goes on with its round. So `ClaimInv` is not about leaders but
  about who *claims* a term: leads it, is in a heartbeat round of it, or is named by
  somebody in it. Whoever claims a term has `Won` it: a quorum can vote for nobody else in
  it any more, and none of their votes is on its way to another candidate. Two
  winners of one term are one.
* `RaftProofs!LogsMatch` - a request carries the end of its sender's log as it was when
  the request was built, so that logs that no longer exist still overwrite others. The
  proof follows that copy with a function `g` from nodes to logs, determined by the
  steps (`NextSent`); the invariant is `\E g : LogInv(g)`. In it, any two of the logs
  and copies agree up to an entry of one term (`CopiesAgree`); the terms in them were won,
  and the leader of a term has all there is of it (`TermsWon`, `LeaderHasAll`), so that a new
  entry of its term is nowhere else; and what a request says is what the copy says
  (`Carried`). A step adds an entry at a leader, or replaces a follower's log by a copy
  (`LogsForward`), since the part they share is equal.
* `RaftCommitProofs!LeadersAreComplete`, `StateMachinesAgree`, `CommittedIsKept` - a prefix
  whose last entry is of term `t` is `Decided` when whatever exists of later terms goes on from
  it, and a quorum *holds* it: each has it and can have supported only candidates that have
  it. What is decided stays so: a later winner needs a vote of the quorum, and an
  up-to-date log that ends in a term of `t` or after contains the prefix. `CommitInv` then
  says that every commit index, and every one in a request on its way, lies within a
  decided prefix, and relates `matchIndex` to it: who acknowledged an entry of the leader's
  term holds it, unless a quorum has already moved to a later term without doing so
  (`AcksHold`), in which case the leader can no longer count a majority. This is where the
  current-term rule of `_advanceCommitIndex` is used.
* `RaftCommitProofs!RaftImplements` - under the history variable `chosen`, every step of the
  cluster is a step of `ReplicatedLog` or changes nothing it sees. `HistoryInv` says that
  the longest log ever committed is itself in a decided prefix, and so goes on from what
  every node has committed.

`ClaimInv`, `LogInv` and `CommitInv` were checked by TLC, with `g` as a history variable, before
they were proved.

### The store, its clients, the loop

* `AgentProofs!StoreStaysSound` - after any sequence of calls by any callers,
  removals of linked atoms and loads of broken snapshots included, the four maps
  hold the same atoms, one per id and per key, the incoming index is exact, and
  a link is younger than what it links. The inductive invariant adds the types
  and `FileIsSound`: the lines of a snapshot are as ordered as the store that
  wrote them, which is what lets `Restore` rebuild the maps up to the first
  broken line.
* `AgentProofs!MemoryTypes` - the clients' types, under every operation.
* `AgentProofs!MemoryStaysCurrent` and `NothingIsLost` - no client's handle goes stale, nothing
  that was recalled is dropped while another episode can go for it, and the loop removes
  its own atoms only. In a memory full of recalled episodes it is the new one that goes, which
  the code's comments deny: `FallbackNeverComes` proves that this is what always happens. `HandlesAreLive`
  is not inductive: nothing in it keeps one client from being given an atom of another.
  `MemoryInv` adds whose atom is whose, by label: an episode's node is named by its id, which is
  not used again, an entry's by its content, which is in the index, and the loop's by the
  cycle. `addNode` returns an existing atom of the same label, and the labels tell the owners
  apart. Both need `~LoadInPlace`, that no snapshot is loaded over held handles:
  `memory_reload` shows what happens otherwise.
* `AgentProofs!SnapshotsComeBack` - a snapshot in which no link dangles comes back whole. A file
  with dangling links does not (`memory_snapshot`).
* `AgentProofs!LoopKeepsItsBooks` - types, the order of percepts, one promotion per task, and
  `_running` never left on by a thread that is gone, whatever task actions do. The invariant
  is who drives a cycle and where (`Driven`), what is queued was created and is in order
  (`TasksKnown`), and that the batch is empty but while it is perceived (`BatchTaken`).
* `AgentProofs!LoopStaysSound` - with `CallsCounted`, also that the tasks marked as ended are those
  whose action was called, once. That needs `~ReentrantCalls`, that no action enqueues while
  it runs; `agent_reentrant` shows what happens otherwise.
* `AgentProofs!HighestGoesFirst` - no task starts before a pending one of higher priority. It holds
  of reentrant actions too: the queue is sorted whenever `StartTask` looks at it.

The queue and the episodes are vectors from which elements are erased. What `SelectSeq`
returns for every sequence takes induction over a recursive definition, so
`StdContainers` says which positions stay (`ElementsAt`), and the lemmas about it
(`Picks`) follow from a list of a finite set of numbers, lowest first, which exists by
induction over its size. `ContainerLemmas` goes on from there: how often an element is
in a vector from which others were erased, into which one was put, or two of which were
joined (`Copies`), and that a stable sort is a permutation in the order of its keys.

`MemoryInv` and `LoopInv` were checked by TLC on the instances of `memory` and `services_live` first.

### Actions and services

* `CoreProofs!TypeCorrect`, `CalledOnce`, `PrerequisitesCompleted`,
  `CalledInTime`, `CancelHolds` - all that the *actions* part of `services` checks, for any
  number of actions and any clock. None of the five is inductive alone. `DueIsLive`
  says what `tick` relies on between callbacks: what it still has to look at is in
  the schedule, once each, not in `toRemove` and already due. `CalledLeaves` says
  why nothing runs twice: a one-shot action that was called has left the schedule,
  is in `toRemove`, or is the one running. `CalledWaits` is the same for the period
  of a periodic one, `DoneIsTrue` relates `_completedActions` to what callbacks
  returned and to the schedule, and `QueueIsFresh` and `CurrentExecutes` are
  their counterparts in the executor.
* `ServiceProofs!MigrationsAlwaysSettle` - no migration is in progress that nobody is
  receiving, and a completed one holds a complete state, unless deliveries of one agent
  overlapped. The invariant adds `AloneInProgress`: whoever receives alone finds the record
  in progress with the very state it was sent, which is what its second critical section
  relies on without looking.
* `ServiceProofs!TasksSpreadByOne` - for any nodes, submitters and loads. With the types
  of `load` and `joined` the property is inductive, because the choice of a least loaded
  node and the task added to it are one critical section.
* `ServiceProofs!LongMemoriesAreKept` - indexes and records agree and nothing important or
  durable is lost, for any handles, contexts and ages. Both halves and the type of
  `_keyword_index` are inductive together: that records are found needs no more than that
  every record in memory is known, which is part of what is not lost.
* `ServiceProofs!ReportsStayCurrent` - for any peers, threads and thresholds. The invariant says
  what is true of a peer with a report outstanding: one thread holds it, with the peer's
  present state in it, unless the peer is in `mixed`.
* `ServiceProofs!CoordinatorAlwaysAddsUp` - until its first shutdown the coordinator never
  counts more active agents than there are, and what is available of a resource and what is
  granted make up what was registered, until it is registered anew. `SharesTypes` carries what
  the sum needs: finitely many requests, each of a natural amount.
* `ServiceProofs!ToolsStaySound` (with `PoolsAlwaysBalance`) - three invariants side by side, as the
  parts share nothing. `PoolOK` is one pool's: what it counts as allocated is the sum over
  what it holds, which has one entry per id. `CallsInv` counts calls by where they are
  (`Unsorted`, `Late`), and each step of a thread moves one of them from one count to the next
  (`CallMoves`). With types, `RegistryAgrees` is inductive, because executors that call
  back find the tool that runs marked as busy (`EnterTool`).
* `CommunicationProofs!CommunicationStaysSound` - messages between agents, turns and sessions.
  - Messages: a message on its way is with one thread and in no queue, and one in a handler's
    hands was taken and not handled before (`MailIsOnce`, `MailIsHandledOnce`); every message
    made is in exactly one place or was dropped at the limit (`MailAddsUp`).
  - Turns: `TalkOK` says by position that the turns kept end what was said (`Ends`), also after
    the front is cut (`TrimKeeps`), and `EndsIsSuffix` that this is `IsSuffix`.
  - Sessions: between the manager's lock and the interface's, a thread has opened a
    conversation that no session records yet. `OpenedAlone` says that this conversation is
    nobody else's and that no user has spoken in it; `StartedInOrder` that nobody has a
    conversation under a number not yet started. A turn counted but not yet said is a
    thread `SpeakingIn` its session, and each step moves one from there to the turns said,
    or loses it if the conversation has ended in between.

### What an agent has in mind, and its core

The parts of `AgentMind` share no variable, so that each theorem about the whole follows
from one about each part.

* `MindProofs!MindStaysOrdered` - every index kept by hand leads to what is held and to nothing
  else, and goals are a forest.
  - Items (`BufferIndexed`): until an importance drifts from its entry, the buffer is what each
    of its three indexes says (`WellFiled`). It is a record per round of the eviction loop, so
    `CallGoesOn` says what a call in the middle of it relies on: the atom it is about to
    insert is still not there, and one id is free. Each round takes the first entry of the
    importance index, which is then the entry of an item.
  - Contexts (`ContextsIndexed`): the importance index has an entry per context, of
    whatever importance (`IndexesOnce`), types and active ids are exact, and atoms list
    just the contexts that list them, also after a merge or a cleanup that removes many.
  - Episodes (`EpisodesIndexed`): ids are never used again because they carry a counter that
    only grows (`Chronological`); then each index is a function of the episodes there are
    (`IndexOf`).
  - Experiences (`ExperiencesIndexed`): indexes hold positions, which erasing shifts. They are
    rebuilt from the vector then, so `WellIndexed` is about any vector.
  - Goals (`GoalsOrdered`): besides parents, subgoals and roots telling the same forest, no set
    of goals is closed under having a dependency or a parent in it (`Acyclic`). A removal
    moves children up to their grandparent and detaching makes a root, and neither makes a
    new way round; a dependency is only added if what it needs does not reach it, where `Reached` is
    the least set closed under the edges.
* `MindProofs!KnowledgeStaysSound` - what the agent infers and answers; for any rules, links and
  facts, and for any set of queries that are sequences of patterns.
  - Rules in order (`OrderInductive`): a rule is inserted at the first place that it comes before,
    which leaves all others where they were relative to each other.
  - Links inferred (`InferenceSound`): each follows from those told, because `Leads` is transitive
    and the rule joins two links that follow. Conversely, a pass doubles the length of the
    paths covered: `Paths` are the links told, doubled as often as passes count, and `Progress` says
    what a call in the middle of a pass has reached - what it has done for every rule it is
    past, and for every link it has walked from, though other threads tell more meanwhile and
    rules come and go. A pass in which nothing fired had nothing left to join.
  - Answers (`QueriesStayAnswered`): a triple fits a plain pattern exactly when it has the
    pattern's names where the pattern has them (`FitsIs`); each variable has one place, so
    that rows and right bindings are one for one (`RowBinds`, `BindingRow`, `OneRowEach`), and as
    many rows as asked for are as many answers.
* `MindProofs!PlansStayRight` - what is left of a plan can be executed and leads to what it was made
  for; for any finite library of operators, any methods and tasks, depths and lengths.
  - The search (`SearchIs`) is breadth first: what is queued is ordered by length, of at most two
    lengths, each node is one of the shortest ways to its world, and every world visited is
    expanded or queued (`Frontier`). So whatever is as near as the node in front has been visited
    (`FrontCovers`), and the first world found to have the aims is as near as any (`VisitGoesOn`).
    Limits only end the search with nothing.
  - A level of the decomposition (`LevelAbove`) finds what can be executed if the one
    below does (`Found`), except over tasks that leave no effects in the planner's world,
    of which nothing is promised. Levels and expansions are functions of a number, which
    exist and keep what is proved of them by taking the least number that would not.
  - Execution (`PerformIsRight`): the first action of a way is applicable and leaves a way that
    is one shorter, and shortest if the whole was (`PromiseAdvances`), while any step of
    another plan, a fluent set or an operator registered takes the promise back.
* `CoreProofs!CoreStaysSound` - agentzero-core's executor, scheduler, loop and task manager.
  - Actions (`ActionsKept`): the calls of an action still owed are exactly its places: copies
    in the queue, occurrences planned, and those in the hands of threads (`Placed`). Every
    step moves one from one place to another. `Fits` says what a thread can have in
    hand where it is; results are true because the slot of an action and its start time are
    taken and given back together. Nothing is promised of the result of an action whose
    callback returned PENDING or RUNNING (`leftOpen`), until something else is stored.
  - Tasks (`CoreTasksKept`): a task is in the queue, once and where its priority belongs, or in a
    thread's hands, or has ended (`Settled`), although it may be queued again while it runs;
    but for one whose action threw no `std::exception` (`leftRunning`), until it is called again
    or ended by another thread that ran it too.
  - The loop (`CoreLoopSound`): what was seen followed by what is pending is everything offered,
    in order; and a loop that is on with nobody left to join it is one being started.

A fold over a sequence is a function of sets of positions. For the steps that planning folds
(`OneStep`) `FoldExists` constructs it, and `VisitedIsFold`, `TurnedAllIs` and `RanAllIs` give what
each step adds.

Sums are folds over finite sets; `SumIsTotal` shows that such a fold is a cardinality, that of
the set of units (`Units`), so that what one element adds or takes away follows from what is
known of finite sets. The one induction this takes (`SetInduction`) is over the size of a set
and in a collection of sets, which the provers can instantiate where they cannot an operator.

Each of these properties is also checked by a run.

### Only model-checked

Liveness, under the fairness of section 4: fairness and `ENABLED` are outside what the prover
can do.

## 6. What the checks found

* **Even clusters elect two leaders** (`raft_even`). `_runElection` computes the
  majority from the number of peers, the node itself left out, so two of four
  votes are enough.
* **A single node never commits** (`raft_single`). `_advanceCommitIndex` runs only
  when a peer answers.
* **A saved snapshot may not load** (`memory_snapshot`). After a restart and a
  load, the loop adopts the metadata node of its own earlier run and removes it
  while the loaded STATE link still names it; the snapshot written then contains a
  link to nothing.
* **A load makes handles dangerous** (`memory_reload`). Ids restart, and `remove`
  erases by id.
* **The task that ran is not the one marked** (`agent_reentrant`).
* **Adding an item may never return** (`working_memory`). An item's importance changes
  apart from its entry in the index; once the item is gone the entry stays, and the
  eviction loop takes it as its victim for ever.

Each is quoted with the line it contradicts in `PROJECT.json`. Met while modelling, and
part of the models where they decide anything, but without a run of their own:

* `AgentMemory`: a full episodic memory whose episodes were all recalled evicts the very
  episode being recorded, where `EpisodicMemory.cpp:179` and `188` promise that it "falls
  back to the oldest episode if all episodes have been recalled": the one just appended was
  never recalled, so that the fallback is dead code. `NothingElseIsDropped` says nothing of
  this case; `FallbackNeverComes` in `AgentProofs` proves what the code does in it, for
  every size of the memory.
* `ResourceManager`: shrinking a pool below what is allocated clamps what is available at
  zero, and later releases add all of it back. `PoolsBalance` therefore counts what the
  clamp forgave. `MultiAgentCoordinator::registerResource` overwrites what is
  available while grants are out.
* `ClusterManager`: nothing ends a migration that was initiated and never received.
* `ConflictResolver`: `SLA_PRIORITY` takes the deadline from the submission, so an old
  ticket with a late deadline may go before a new one with an early one.
* `MultiAgentCoordinator`: proposals are never decided, refused hand-offs of tasks stay
  pending, an inactive agent that is unregistered is subtracted from the active ones.
* `CoordinationProtocol`: a tick with other thresholds may turn a dead peer into a suspected
  one, and registering a peer again is not reported.
* `DistributedCoordinator`: no task ever completes and no load falls.
* `LongTermMemory`: a handle that is dirty and removed from memory only is lost while
  `contains` answers TRUE; old contexts and consolidated records stay in the indexes; a
  record comes back from storage with medium importance and no contexts; a node stored
  twice keeps a keyword entry when it is removed.
* `GoalHierarchy`: the depth limit looks at the height below the parent, so a chain grows
  beyond it while a sibling is refused.
* `ReasoningEngine`: `runForwardChaining(0)` never ends with the default rules, which fire in
  every pass (docs/API.md:330: "repeats until no new rules fire").
* `ContextManager`: `updateContextImportance` leaves the index stale, so cleanup may delete a
  context that has become important again, or delete none and leave more than the limit;
  `mergeContexts(x, x, delete)` deletes `x`.
* agentzero-core's executor: cancel removes the first copy only, a callback that timed out goes
  on beside the limit and its late result overwrites the status, members of a batch start
  their time-out before they start, and a throw drops the rest of the batch. A callback that
  returns its `ActionResult` as it was made leaves the action PENDING with no entry in the
  queue, and one that returns RUNNING leaves it RUNNING without a slot
  (`ActionExecutor.cpp:195`, `ActionExecutor.h:49`).
* agentzero-core's agent: it says it runs after its loop reached its limit or was replaced by
  `setAtomSpace`, which also loses queued tasks and percepts; a task queued again while it runs
  may be run by two threads at once. A task whose action throws something else than a
  `std::exception` on a thread that is not the loop's stays RUNNING with nobody running it
  (`TaskManager.cpp:164`).
* `PlanningEngine`: a step completes its plan, and the goal, whether or not its actions had an
  effect; the effects of nested subtasks are put back, so that later subtasks are planned
  without them; `markActionCompleted` never marks the second of two equal actions; a plan may
  have one action more than the maximum; `adaptPlan` loses the count of revisions.
* `ExperienceManager`: two experiences of one type and millisecond share an id.
* `ToolRegistry`: registering a tool again under another category leaves the old entry; a tool in
  error never recovers by a refresh; a throw that is no `std::exception` leaves the tools it
  went through busy for good. `ToolExecutor`: such a throw leaves the call uncounted; the node that records an execution is named by a
  counter read at that time, so that two executions may share one.
* `AgentComms`: sending to a registered peer answers true and delivers nothing; the recipient
  "", documented as a broadcast, neither.
* `HumanInterface`: when cleanup closes the conversation of an active session, the session answers
  "(no response)" from then on; two concurrent `processHumanInput` start two sessions.
* `KnowledgeBase`: patterns are said to be "joined with AND", but a variable of two patterns joins
  nothing, it is bound again; a name that is unknown matches everything; a predicate named
  like a concept is only found where subject and predicate are both given.
* Not built, and not modelled: `MessageRouter` caches routes without the list of protocols they
  were found for, and its `getStats` locks a mutex twice; the `start` of `src/src/AgentComms.cpp`
  starts its thread before it sets `_running`.

## 7. Plan

Raft, the store, the loop and the actions came first, because everything else runs on them; then
the components that coordinate nodes, then those that keep counters and indexes, then the
outer ones. Components that share no state are checked side by side, as parts of one run: that
keeps a run per question about a group of parts. What is left, in order:

1. Model: `SkillAcquisition`'s graph of prerequisites, `CapabilityComposer`'s chains, the status
   propagation of `GoalHierarchy`.

## 8. Not modelled

* Throws that are no `std::exception`, in `src/src`: its `ActionExecutor`, `ActionScheduler` and
  `TaskManager` catch nothing else, and what gets out of them leaves the caller's own locals and
  is not followed. In agentzero-core and agentzero-tools they are modelled.
* Servers and adapters (`MonitoringServer`, `WebSocketHandler`, gRPC, TLS, REST,
  ROS): sockets, framing and text; the state they show belongs to parts above.
* Numeric learning and knowledge (`PolicyOptimizer`, `MetaLearning`, `AtomSpaceEvolver`,
  `ConceptFormation`, `PatternDiscovery`, `PLNRuleLibrary`, `LoadBalancer`, `MetaPlanner`,
  `TemporalReasoner` and others): arithmetic over doubles and randomised search, of which a
  small model says nothing.
* Language (`LanguageProcessor`), sensors, attention: text and feature processing; what they
  produce enters the loop as percepts.
* `SelfModification`: its operations are placeholders that report success.
* Classes of `src/src/` that nothing builds: `MessageRouter`, `MessageSerializer`,
  `ProtocolManager`, `MessageHandler`, `ConversationState`, and its versions of classes
  that the agentzero-* libraries build from files of their own (`AgentComms`,
  `WorkingMemory`, `LongTermMemory`, `GoalHierarchy`). The files modelled are those built.
* `Agent` and the C API forward to the parts modelled; their JSON conversion is not.
