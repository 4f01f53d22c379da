# A TLA+ model of libevent_paxos

libevent_paxos replicates a server: a *proxy* on every machine takes client
connections, a *consensus component* puts what the clients do in one order, and
every proxy replays that order against its own copy of the server.  This
directory models the state machines the program is made of (request consensus,
leader election, the life of a node, proxy), the hash table of the proxy and the
web server that the repository bundles for its experiments, checks them with
TLC, and proves with TLAPS the safety of the request consensus and its refinement
of one agreed log, of the replay in the proxy, of a node's timers and a group's
start, of the threads and the connections of the web server, and of what an
election keeps of the log, and the order of view stamps.

Sources are named relative to `src/src/`; the web server is under
`src/client-ld-preload/Mongoose_Aget/mongoose/`.

## 1. Inventory

| component | state | operations | interacts through |
|---|---|---|---|
| request consensus (`consensus/consensus.c`) | `highest_seen`, `highest_to_commit`, `highest_committed`; records in the database with a bit map of acknowledgements | submit, ACCEPT_REQ/ACK, MISSING_REQ/ACK, FORCE_EXEC, FORWARD_REQ, `consensus_make_progress`, the two execution loops | `send_to_*_node` of the replica, the user call back, the database |
| replica: views, pings, peers (`replica-sys/replica.c`) | `cur_view`, node state (ACTIVE, INLELE, POSTLELE), peers and their connections, timers | pings, suspicion of the leader, `update_view`, reconnecting, dispatch of messages by node state | event loop of one thread per node |
| leader election (`replica.c` 628-1418, `leader-election/view_controller.h`) | acceptor, proposer and learner records, the edge of the log | PREPARE/ACCEPT and their ACKs, ANNOUNCE, ANNOUNCE_ACK, FIN, the timer `slient_period` | reads the log counters and the database; ends in `update_view` |
| proxy (`proxy/proxy.c`) | hash table of connections, cursor `cur_rec`, `highest_rec`, connection to the consensus component | accept, read, error of a client or of the server, replay of CONNECT, SEND and CLOSE, SIGUSR2 | submits over a socket; `update_state` is called in the consensus thread; both threads share the database |
| database (`db/db-interface.c`) | records by 64-bit key (view id, request id) | store, retrieve, delete | all of the above |
| configuration and entry (`config-comp/`, `main.c`) | periods, group size, addresses | reading the file, starting in mode `s` or `r` | fills the node's configuration once |
| view stamps, times (`util/common-structure.c`), messages (`message.c`) | none | comparison, packing, addition; builders | used by all handlers |
| hash table (`include/proxy/uthash.h`) | table, buckets, two doubly linked lists through the elements | add, replace, find, delete, sort, clear, expansion | macros expanded in the proxy |
| web server (`mongoose.c`, `main.c`) | queue of accepted sockets, thread count, stop flag, a buffer per connection | start, stop, accept, queue and take a socket, read a request and its body, answer, close | one mutex and three conditions between a main, a master and the worker threads |

What is hard here: messages lost with a connection or dropped because of the
receiver's state, resends racing late answers, restarts that keep the database
and lose the memory, an election that runs while the old leader still counts
acknowledgements, timers that change hands with the role of a node, and threads
that share a counter and a database or a queue and a flag.  The
hazards are listed in `PROJECT.json`, each at its line with the properties that
watch it.  Smaller ones, and ones that no property can watch yet:

- `consensus.c:274`: a group of one node has its quorum with the leader's own
  bit, and no acknowledgement triggers the execution (the proofs cover it).
- `common-structure.c:45`: request 2^32 of a view would collide with the first
  key of the next; `KeysInOrder` covers every stamp within the width.
- `consensus.c:291`: a node without a view forwards to `leader_id` 9999, outside
  `peer_pool`; the model drops the request.
- `replica.c:410`: `become_leader` does not start the make-progress timer, so a
  leader of view 2 never resends a request.
- `replica.c:850`: a node that hears a PREPARE of a smaller id postpones its own
  proposal; with proposals capped no end of the election is claimed.
- `replica.c:1024`, `:1203`: the report of a follower leaves out the holes of its
  log, and the merge of reports may read past a message; both are modelled as
  they are, their consequences show only with requests of view 2.
- `replica.c:372`: a node that restarts after view 2 has begun is in view 0, and
  `update_view` crosses one view at a time: it can never join again.
- `replica.c:543`: the condition of `handle_ping_ack` is the wrong way round; a
  lagged node depends on the leader's pings alone (`Settles` holds without it).
- `mongoose.c:5191`: `mg_start` does not notice that the master thread could not
  be created; the server then accepts nobody and its `mg_stop` never returns.
- `proxy.c:573`, `:106`, `:72`: requests of a broken connection are lost; agreed
  requests of an ended view wait for the first one of the next; a proxy
  restarted within a second reuses connection keys.
- `config-comp.c:66`: an expect period that is no longer than the ping and
  reconnect periods is accepted; `QuietStart` is checked for the defaults and
  proved for every file that leaves room for a start (`StartsInTime`).

What makes each part correct:

- *consensus*: all replicas execute the same requests in the same order; what
  is executed is on a majority; nothing is executed twice; requests are
  eventually executed, by the leader and by every replica.
- *election*: one leader per view; the new view keeps every request that the
  old one executes.
- *proxy*: the server gets agreed requests, once and in order, also across a view
  change, and misses only those after a hole in a view that the replica has left;
  no wake-up is lost; a replica's server connections are those that the requests
  it has executed have opened and not closed.
- *node*: its timers fit its role; a group that starts quietly stays quiet; a
  silent leader is suspected in time; after faults all nodes that do not wait for
  the end of an election follow the running leader.
- *hash table*: its lists are consistent after any sequence of calls, chains are
  bounded, every item is found, iteration follows the order of an ordered map.
- *web server*: a socket has one owner until it is closed; no wake-up is lost;
  pipelined requests are answered in order; the stop returns unless a client or a
  program holds a worker for ever, and nothing touches the context after it.

## 2. Modules

| module | models |
|---|---|
| `Consensus` | the consensus component in the view the group starts in |
| `CommittedLog` | abstract specification: one agreed log, executed in order by every replica |
| `MCConsensus` | instance of `Consensus`, with the symmetry of requests |
| `ConsensusProofs` | TLAPS proofs about `Consensus`: types, agreement, the leader's records |
| `ConsensusLogProofs` | and: stable slots, refinement of `CommittedLog`, durability, nothing twice |
| `Election` | the election from view 1 to view 2, with the requests of view 1 going on |
| `MCElection` | instance of `Election` |
| `ElectionProofs` | TLAPS proofs about `Election` |
| `Proxy` | both threads of each replica's proxy, over an abstract consensus |
| `MCProxy` | instance of `Proxy` |
| `ProxyProofs` | TLAPS proofs about `CommonStructure` and `Proxy` |
| `CommonStructure` | view stamps and times as operators; used by `Proxy` |
| `Node` | start, links, pings and timers of a replica, with time |
| `MCNode` | instance of `Node`: configuration files and clock differences |
| `NodeProofs` | TLAPS proofs about `Node` |
| `UTHash` | the hash table, pointer by pointer |
| `OrderedMap` | abstract specification of the table: a sequence of elements with different keys |
| `MCUTHash` | instance of `UTHash`: keys that collide in every number of buckets |
| `UTHashProofs` | TLAPS proofs about `UTHash`: consistency, bounded chains, look-up, refinement of `OrderedMap` |
| `Mongoose` | threads, queue and connections of the web server |
| `MCMongoose` | instance of `Mongoose`: what four clients send |
| `MongooseProofs` | TLAPS proofs about `Mongoose`: queue, wake-ups, thread count |
| `MongooseStreamProofs` | and: buffers, streams, answers in order, types |

A definition that stands for a function of the code has its name.  A node runs
one event loop, so a handler is one action that includes everything it calls;
operators such as `handle_accept_req(s, n, m, N)` are the part of the action of
`consensus_handle_msg` for one type, where `N` is the network without the
message that is being handled.  In `Election` most handlers are operators that
return the node's new module, network and state, because they call one another
(`handle_accept` calls the node's own learner, which may announce).  Definitions
with a capitalised suffix (`reached_quorum_Half`) are mutated forms used to
show that a property notices a mistake; no specification uses them.

### 2.1 Consensus

`net[<<s, d>>]` is the sequence of messages on the connection from `s` to `d`.
`LoseMsg` drops the next message of a connection: it broke, the peer was not
active when it was written, or the receiver was not in `NODE_ACTIVE`, in which
`handle_msg` drops consensus messages.  `db[n]` maps slots to records; a
record's payload is a request and whether its bytes are still the client's
(`intact`), which `build_missing_ack` may spoil: it copies
`sizeof(missing_ack)+data_size` bytes of a record that is longer by five bytes.
It also writes past its buffer; the model takes only the damage to the payload.
`bit_map` is a set of bits and `node_bit` the bits that the `int` shift sets.
Stores fail nondeterministically (`StoreFails`), at most `MaxFaults` times with
the other faults.  `Restart` is a process that dies and is started in mode `r`:
it keeps its records; `PowerLoss` is a host that dies: it keeps any subset,
because `store_record` does not sync.  The seed node does not restart: started
again in mode `s` it would be a second history, started in mode `r` it is the
election's business.

All stamps are in view 1, so a stamp is its request id; the branches for stamps
of two views are not taken (the header of the module lists their lines).
`update_role` is reached by the ping that brings a node from view 0 to view 1.

### 2.2 Election

One election, from view 1 to view 2, starting with a formed group.  Of the
consensus component it keeps what the election reads: which slots each node
has, `highest_seen` and `highest_to_commit`, who acknowledged what, and how far
the old leader has executed (`agreed`).  `handle_accept_req` and the other
actions of the log run only at nodes in state ACTIVE, as `handle_msg` demands,
so a node in an election takes no part in view 1.

Connections keep order and a broken one loses the messages sent last.  Pings
are delivered at once or not at all, and a node that misses them long enough
suspects the leader: at any time when the leader is down, at the cost of one
fault when it is up.  `MaxQueue` bounds the messages in flight when an election
timer fires; 0 says that timers (one to ten seconds) are slower than messages.

Choices made where the code is undefined: `proposer_arr` is not initialised,
but its `p_pnum` is never compared before it is set; the merge of two lists in
`leader_election_handle_announce_ack` may not advance, which is a step that
takes the node out of the group, and may read past the message, which is a
choice over the values it may find.  The stored acceptor record and the
boundary record (which holds the bytes of a pointer) are never read back in the
modelled executions, so their contents are left out.  `handle_ping_ack` has a
condition that never holds and no effect.  The limit on the number of listed
empty slots is not modelled.

### 2.3 Proxy

The consensus thread (`StoreRecord`, `update_state`, `wake_up`, `update_view`)
and the proxy thread (everything else) interleave; `update_state` is two steps,
raising `highest_rec` and sending SIGUSR2, and `real_do_action` is one step per
turn of its loop.  The other handlers of the proxy thread run between two calls
of `real_do_action`.  A pending signal is a flag: signals merge.  `KEY_BASE`
stands for 2^32.  The consensus component is what the proxy sees of it: the
proposed requests of each view, how many are agreed, which records are in each
database, and a view change that deletes one record.  Any number of requests is
agreed whoever holds the records: `Agree` and `NewView` stand for the other
members of the group too.

A replica enters the next view whatever it holds.  Neither `update_view` nor
`consensus_update_role` looks for missing records, and `replica_sync` is empty,
so the hole stays: `real_do_action` takes it for the end of the view and leaves
out what follows it, delivered or not.  While a replica is still in its view it
delivers without holes, as `try_to_execute` does.  Records of later views are
stored as they come (`handle_accept_req` accepts them), and they raise
`highest_to_commit` to the later view.  From then on the end of the replica's own
view is looked up in the boundary record of the next one (`loop_end = "later"`),
which only `update_view` writes, with the bytes of a pointer.  When a peer sends
it, `handle_missing_ack` overwrites the field that is read as the view id with
the time of day (`"garbage"`): the loop of `try_to_execute` then delivers every
consecutive record there is, agreed or not, and does not come to an end.

### 2.4 CommonStructure

`view_stamp_comp`, `vstol`, `ltovs`, `timeval_comp` and `timeval_add` with the
width of an id, 2^32, as the constant `KEY_BASE`.  `timeval_add` does not carry
from `tv_usec`, as the code.

### 2.5 Node

`node[n]` has the fields of the node that this part of the program touches, with
a timer as `NULL`, `FREED`, `DISARMED` or the ticks until it fires; `peer[n][m]`
is the link from `n` to `m`.  Time passes in `Tick`s, and what is due is handled
before the next one.  A message takes one to `Delay` ticks.  `Crash` ends a
process; `CutOff` takes a node off the network until `Back`.  `main` starts a
process with one of the configuration files: an incomplete one is refused by
`proxy_read_config` or `consensus_read_config` and leaves the node down; times
that a file gives replace the defaults of `system_initialize`.  A seed (`s`) is
started once, at first; everything else is started with `r`.

`make_progress_on` frees its event and adds the freed event again on a node that
has lost the leadership: the model lets the process die of it or the timer go
on.  `last_ping_msg` is the age of the last ping by the follower's clock, off by
the difference of the two clocks (`Skew`).

Of the election `Node` keeps how it begins and ends: a suspicion puts a node in
`NODE_INLELE`, `leader_election_handle_announce` puts it in `NODE_POSTLELE` with
the leader that was announced, and `leader_election_leader_close` takes the
new leader into the next view and sends a FIN to everybody, once.  In
`NODE_POSTLELE` pings are dropped (`handle_msg`), so a node whose FIN is lost
stays there.  Who is announced is any member of a majority that has lost the
leader of one view; what the election decides is the business of `Election`.
Left out are the FIN with which a node that is itself in an election answers a
sender in an older view (`replica.c:1364`), and the repeated reports of a waiting
node, which the new leader drops because it is active.

### 2.6 UTHash

The macros are operators on one record that holds the table and the pointer
fields of all elements; the actions are calls by a program, which adds an
element only when `HASH_FIND` does not find its key, as `do_action_connect`
does (`proxy_on_accept` adds a key that it has just made).  The hash function is a parameter.  The instance starts
with two buckets and a threshold of three instead of 32 and ten, so that seven
elements are enough for expansions that help, expansions that do not, and the
inhibition that follows.  `Walk` is the list that a pointer leads to, cut off
after more steps than there are elements, so that a list that had become a cycle
would show up as a wrong one.  The loops of `HASH_EXPAND_BUCKETS` and `HASH_SRT`
are recursive functions over the number of iterations: `Merge` takes the smaller
first element, or that of the first run if they are equal; `SortPass` merges runs
of `insize` in pairs; `SortList` doubles `insize` until a pass has merged only
once.

### 2.7 Mongoose

A critical section is one step.  Two are not: a thread that tests `stop_flag`
and then waits on a condition does so in two steps with the mutex held, because
`mg_stop` sets the flag and the master broadcasts without the mutex; and
`num_threads++` in `mg_start` and `num_threads--` in `worker_thread` are a read
and a write each, because the first is done without the mutex.  Condition
variables may wake up spuriously (counted as faults).

The bytes of a connection are units `<<i, k>>`, the `k`-th unit of the `i`-th
request; `recv` returns any number of them, so a request arrives in any pieces.
`get_request_len`, the part of a body that is in the buffer, and the discarding
of a request's bytes are modelled on these units.  Handlers differ in whether
they read the body: `put_file` and `handle_cgi_request` do, all others leave it.
Faults are failing `pthread_create` (of the master too, which `mg_start` does not
notice), `malloc`, `accept`, handshakes, `recv`, writes and opens, and options
that are wrong at start.  A handshake (`sslize`) is a step of its own: the
worker waits in `SSL_accept` for the client.  `hist` records what has
been answered and which of the excused cases below has happened.

## 3. Runs

Passing:

| run | bounds | shows |
|---|---|---|
| `safety` | 3 nodes, 2 requests, 1 fault | `Agreement`, `QuorumDurability`, `LeaderRecordPresent`, `SlotStable`, and the inductive invariants `AgreementInv`, `DurabilityInv` and `OnceInv` |
| `pipeline` | 2 of 3 nodes, 3 requests, 1 fault, a host crash, more in flight | `ImplementsLog` (refinement of `CommittedLog`), `ExecutedOnce` |
| `liveness` | 3 nodes, 1 request, 2 faults, fairness | `LeaderProgress`, `CatchUp` |
| `election` | 3 nodes, 2 requests, 1 fault, 1 crash, 1 restart, two rounds of proposals | `OneLeader`, `Unchallenged` and, unless a node has restarted, `CommittedKept`, with the inductive invariant `KeptInv` |
| `proxy` | 2 replicas, 1 client, 2 views with 2 and 1 requests, 1 fault: a server hang-up, a dropped submission or a broken connection | `ExecutesAgreed`, `ConnectionsFollowLog`, `NoLostWakeUp`, and the inductive invariant `ReplayInv`; replicas enter view 2 with and without holes |
| `node` | 3 nodes, 4 starts, 1 crash or cut, views up to 2, the seed's clock ahead by half an expect period, fairness | `Watches`, `QuietStart`, `SuspectsInTime`, `Settles` |
| `uthash` | 7 elements with 6 keys, 2 removals | `HASH_FSCK`, `ChainsBounded`, `FindsItem`, `ImplementsMap` (refinement of `OrderedMap`) |
| `server` | 2 workers, a queue of 2, 4 clients, 1 fault, fairness | `HeldOnce`, `WorkersRoused`, `AnsweredInOrder`, `ContextAlive`, `StopReturns`, and the inductive invariants `QueueInv` and `CountInv` |

Each `safety` bound is the smallest at which the case it is for happens: two
requests so that one can overtake the other's commit, three nodes so that a
majority leaves one out, one fault so that a record is missed and fetched.
`pipeline` trades a node for a third request and a host crash.  In `proxy`, two
requests of view 1 and one of view 2 (`OneInLaterViews`) hold a CONNECT, a SEND
and a CLOSE, leave a hole before a request that a replica has, and leave a
stored, unagreed record behind a view change.  In `node`,
the fourth start is a restart, and one fault leads to a suspicion, an election,
an old leader that comes back to a view that has moved on, and a FIN that does
not arrive.  In `server` the
queue fills up with two busy workers and a third client, the indices wrap with
the third socket, and a buffer of two units holds less than a PUT of three and
exactly a GET with its unread body.

Deadlock is not checked where requests, faults or proposals are bounded: a
system that has used them up, or a group that has lost its majority, rightly
rests, and so does a server that has been stopped.  `node`, where time always
goes on, and `uthash`, where calls always are possible, check it.

Violations.  Each checks one sentence of the repository against the code:

| run | what TLC finds |
|---|---|
| `stuck_replica` | three faults around one request: a lost MISSING_REQ or MISSING_ACK is never repeated, and a replica never executes an agreed request (with two faults `CatchUp` still holds) |
| `two_leaders` | two nodes propose at nearly the same time, a PREPARE erases an accepted value, one ANNOUNCE is lost: two leaders of view 2 |
| `recovery` | a restarted node reports an empty log; executed requests are left out of view 2 |
| `skipped_requests` | a replica enters view 2 without the record of an agreed request and never executes it, another one does: "the same request sequence on all the machine" (`proxy.c:203`) is not what they see |

The passing election runs hold within their bounds and not far beyond: with a
second fault, or with timers that fire while messages are in flight, `OneLeader`
fails for the reason `two_leaders` shows, and with two faults `CommittedKept`
fails through the merge that reads past its message.  `QuorumDurability` is
checked for node ids below 31 and hosts that do not crash; it fails in a group
of 32 whose nodes 0 and 31 are up (the `int` shift of `update_record`), and
after a host crash (`store_record` does not sync).  `src/README.md` lists the
leader election under To-Do.

### Behaviour that the models show and no run is spent on

- `consensus.c:552`: a fetched record lacks the end of its payload, so a replica
  that missed an ACCEPT_REQ delivers other bytes (`intact` in `Consensus`).
- `proxy.c:217`: the server's hang-up is ordered as a CLOSE, a later SEND of the
  client finds no connection and is dropped (`do_action_send` in `Proxy`).
- `replica.c:1453`: a node that misses the FIN stays in POSTLELE for good,
  because it drops pings and the new leader, which is ACTIVE, drops its repeated
  reports.  `Settles` excuses nodes in this state; without the excuse TLC finds
  it violated in the run `node`.
- `replica.c:381`: a replica that is sent the boundary record of the next view
  executes unagreed records and never leaves its loop (`loop_end` in `Proxy`).
- `mongoose.c:1833`, `:1486`, `:1535`: `SSL_accept`, the writing of a reply and the
  reading of a program's output have no timeout and do not test `stop_flag`, so a
  silent client or program keeps `mg_stop` from returning.  `StopReturns` has as
  its hypothesis that no worker is in such a call for ever (`Blocked`).
- `mongoose.c:5045`: a worker that has tested `stop_flag` and not begun to wait
  misses the broadcast, which is sent without the mutex; `mg_stop` then never
  returns, although `mongoose.h:188` says it "blocks until all Mongoose threads
  are stopped".  `StopReturns` excuses this case (`hist.late`).
- `mongoose.c:4968`: the master waits for room in a full queue while every worker
  reads `stop_flag` and leaves without taking another socket.  `StopReturns`
  excuses it (`MasterAlone`).  Sockets that are queued at the stop are never
  closed.
- `mongoose.c:4868`: when a request ends with a part of its body neither read nor
  in the buffer, the rest of the body is parsed as the next request; a request
  answered with 505 is discarded with the content length of the one before it.
  `AnsweredInOrder` excuses a connection from there on (`hist.skipped`).
- `mongoose.c:5198`: a worker that leaves for want of memory while `mg_start`
  still counts can lose an update of `num_threads`, or fail the assertion that
  it is not negative (`hist.raced`).

### Fairness

`Consensus`: weak fairness of reading each connection, of the make-progress
timer and of pings: libevent's loop serves every ready event and re-arms those
timers.  None for clients, losses, failed stores and crashes.  The timer fires
only while at most `MaxQueue` messages are in flight, which says that a second
is long compared with a message.

`Node`: weak fairness of the handlers that are due and of time; strong fairness
of `Back`, which is enabled only between two rounds of handlers: a cut network
is repaired.  None for starts, crashes, cuts and the steps of an election, so
`Settles` speaks only of nodes in the view of a running leader or in the one
before it, and not of a node in `NODE_POSTLELE`, which waits for a FIN.

`Mongoose`: weak fairness of the steps that a thread takes by itself
(`MainRuns`, `MasterRuns`, `WorkerRuns`).  Waiting for a request on a plain
connection ends by itself once the server stops, because
`wait_until_socket_is_readable` tests `stop_flag` every 200 ms; closing a
connection does not wait for the client.  No fairness for what waits for a
client or a program: the handshake, `SSL_read`, the rest of a request or body,
the writing of a reply, the output of a program.  `StopReturns` therefore says
that the stop returns *if* every worker is infinitely often outside such calls.

`Election`, `Proxy` and `UTHash` state no liveness; `NoLostWakeUp` says that
whatever is to be executed is known to a thread that will act on it.

## 4. Proofs

All theorems hold for every value of the constants that satisfies the named
assumptions of the modules, among them any number of nodes, requests, workers,
connections and faults; TLC evaluates the assumptions in every run.  Each
theorem `Spec => []P` rests on an inductive invariant: TLC looked for
counterexamples to it on the instances of section 3 before it was proved.  The
runs keep the ones that are properties of the code in their own right; `IntactInv`,
`NodeInv`, `SuspectInv` and `QuietInv` of `Node`, `ClientInv`, `WaitInv`, `DataInv`,
`ThreadsInv` and the invariant of `UTHashProofs` (with the list that `Walk` finds
as its `s`) were checked the same way and are left to their theorems.

`ConsensusProofs`: `Invariance`, `TypeCorrect`, `AgreementHolds`,
`LeaderRecordHolds`.  Assumed of the constants: node ids below the group size,
the leader is a node, 9999 is no node, an `int` no wider than the bit map.
`Agreement` is not inductive: it says nothing about commit points in messages or
about records that have not been executed.  The invariant is `TypeOK /\
AgreementInv`, and `AgreementInv` has three parts.  `LeaderInv`: the leader has
a record in exactly the slots it has seen, and its two counters agree.
`NodeInv`: no node's commit point passes the leader's, a node has delivered
exactly as many requests as it counts, and every copy of a slot holds the
leader's request.  `MsgInv`: messages carry the leader's requests and commit
points the leader has reached.  The leader's slots and commit point never
shrink, so messages stay right (`MsgOKStable`).  A step of one node preserves
the invariant when the node stays behind the leader and holds copies
(`NodeStep`); each handler is an instance of it, in one of three shapes: ends in
`try_to_execute` (`TryStep`), executes nothing (`QuietStep`), or resets the node
(`ResetStep`).  Quorums play no part in it: there is one leader in view 1, and
agreement rests on its being the only source of slots and commit points.

`ConsensusLogProofs` goes through the handlers a second time and says what one
step may change: records, messages, bits, commit points, deliveries
(`StepFacts`).  From these facts and `Invariance`:

- `SlotStableHolds`: no handler replaces a request in a slot.  It needs
  `IntactInv` (`IntactHolds`): only a MISSING_ACK may be damaged, and that one
  never overwrites.
- `Refinement`: `Spec => ImplementsLog`.  The agreed log is what the leader has
  delivered; a delivery of another node is, by agreement, a longer prefix of it,
  and a restart is the step `StartOver` of `CommittedLog`.
- `DurabilityHolds` and `QuorumDurabilityHolds`, for a `SafeGroup`: hosts do not
  lose power and ids are below the sign bit of an `int`.  Both conditions are
  needed (section 3); a group of up to 31 nodes satisfies the second.  An
  ACCEPT_ACK is sent only for a record that is stored, a bit is set only for an
  ACCEPT_ACK, and the leader commits only with a quorum of bits.
- `ExecutedOnceHolds` from `OnceInv` (`OnceHolds`): a request is in one
  FORWARD_REQ or one slot of the leader.

`ElectionProofs`: `ElectionTypeCorrect`, for every group, and `KeptInvariance` and
`CommittedKeptHolds` for every execution with `[]Unchallenged`: no node that was
announced as leader is told of another.

- The condition is what Paxos should give and, as `two_leaders` shows, this
  Paxos does not; it speaks only of nodes that were announced themselves, and it
  holds in all of the run `election`.  It cannot be dropped: a node that has made an edge as leader and is
  then told of another reports a list of slots, the only way to a merge that
  reads past its message or never ends, and with two faults TLC finds an executed
  request left out of view 2 that way.  Restarts are excluded because of `recovery`.
- `CommittedKept` says nothing about nodes that are still electing.  `KeptInv`
  adds what they hold.  A node has *left* view 1 when it knows the result or is in
  view 2: it acknowledges nothing more (`Left`).  An edge, and a report on its way,
  *covers* a node that has left and has acknowledged nothing beyond the end or in
  the list (`Covers`, `EdgeInv`, `ReportInv`).  A boundary is *sealed* when a
  majority has left without acknowledging the request after it (`Sealed`,
  `BoundaryInv`).  `AckInv` ties acknowledgements to records and to the old
  leader's counter.
- Left, covered and sealed are for good, whatever a step does to the rest
  (`Stays`), so each action only answers for what it adds: a fresh edge and a
  report cover their node (`OwnCovers`), a merge covers those it counted and the
  reporter (`MergeCovers`), a close with a majority of covered nodes is sealed
  (`CoveredSealed`), and pings and FINs pass a sealed boundary on (`EnterKept`).
  The majority that seals the boundary meets the majority that an execution needs
  (`MajoritiesMeet`), so nothing beyond the boundary is ever executed, and the
  record that `update_view` deletes is not one of them (`SealedKeeps`).
- The handlers of the Paxos round call one another; `Quiet` and `Announced` say
  what such a call leaves, and every message and timer is one of the two, a merge
  or a close (`MsgCases`, `TimerCases`).

`NodeProofs`: `NodeInvariance`, `NodeTypeCorrect`, `WatchesHold`, and
`SuspectInvHolds` and `SuspectsInTimeHolds` for clocks that differ by at most an
expect period (`ClocksClose`; a leader whose clock is further ahead is
suspected later).  The handlers are functions of a node's record, so
each is shown once to keep type, timers and suspicion of the record, and the
actions follow.  `NodeInv` adds to `Watches` that a follower's expect timer
exists even when it is not armed, and that links and messages lead to running
processes, without which a message could outlive its delay.  `SuspectInv` says
that the age a follower compares has grown with the silence since the timer was
armed.

`QuietInvHolds` and `QuietStartHolds`, for configuration files with
`StartsInTime`: the seed's reconnect and ping periods and the delay of a message
are together shorter than any follower's expect period.  The defaults satisfy it
and the instance assumes it; nothing in `config-comp.c` enforces it, and without
it a follower suspects a leader that has not yet had time to reach it.
`QuietStart` says that nobody starts an election, `QuietInv` why: until the first
fault every running follower has a ping coming before its expect timer fires
(`WillHear`), which is in the network, or due at the seed's next ping over an
active link, or at the first ping after the link is connected.  `Tick` takes one
from both sides of each of the three comparisons; handling a ping, a
connection or a ping timer passes from one of the three to the next.

`ProxyProofs`: `ReplayInvariance`, `ProxyTypeCorrect`, `ExecutesAgreedHolds`,
`NoLostWakeUpHolds`, `ConnectionInvariance`, `ConnectionsFollowLogHolds`.  Keys
are compared through `KeyOrder` and `KeyParts`, so that the rest of the proof
reasons about views and requests and not about products.  Nothing is assumed
about the records a replica has when it enters a view.  `ReplayInv` relates four
things: what is agreed (`LogInv`), which records a replica has (`DbInv`: what it
has delivered in its view, and none right after the agreed requests of a view it
has left), how far `real_do_action` may go (`HighInv`), and where the cursor is
(`CursorInv`).  The last rests on `Reachable`: in its current view a replica can
execute what it has delivered, in a view it has left the agreed requests up to the
first hole, and below the cursor exactly these have been executed.  What is
reachable in a view that was left never changes, because no record is stored
there any more; and at a view change it can only grow, by records that are agreed
and were not yet delivered.  `DbInv` is why the cursor crosses
to the next view at the first hole or after the last agreed request and nowhere
else (`CursorAt`).  `ConnectionsFollowLog` and `ClientInv` are inductive only
together; the former follows the executed requests, so holes do not disturb it.

`MongooseProofs`: `QueueInvHolds`, `HeldOnceHolds`, `WaitInvHolds`,
`WorkersRousedHolds`, `CountInvHolds`, `ContextAliveHolds`.  A lemma per action
says what it does to the shared state, whatever it does to buffers and streams;
the lemma `Steps` sums them up as quiet moves, accepting, queueing, taking,
closing and leaving.  `HeldInv` (shape of the state, unborn threads, `QueueInv`
and `HeldOnce`) is inductive: the queue is read through indices modulo its size,
and `Wrap` says that taking both indices back by the size changes no entry.
`RousedInv` (`WaitInv` and `WorkersRoused`) counts the idle workers against the
queued sockets.  `CountedInv` refines `CountInv` by what `mg_start` has read and
not yet written; like the code it gives up when a worker leaves in between
(`hist.raced`).

`MongooseStreamProofs`: `AnsweredInOrderHolds` and `TypeOKHolds`, for any streams,
any size of the buffer and any way in which `recv` cuts the stream up.
`AnsweredInOrder` only speaks of the answers; `DataInv` says where in its stream
a connection is.  The buffer is a *window*: the units of the stream that follow
the first `a`.  While a request is read, `a` is where request number
`Len(answered) + 1` begins (`Begins`, `ReadOK`); while a body is read, the head at
the front of the buffer is that of the last answered request, and what has been
taken from the buffer and from the socket adds up to `pos` (`BodyOK`).  Both are
claimed until a request is left half read (`hist.skipped`), the weaker `ConnOK`
also after that, which is what `TypeOK` needs: whatever `get_request_len` then
finds in the middle of a body is still a request of this client.  The argument
has three layers: a stream is its requests one after the other (`StreamBlocks`,
by induction over the requests), so `get_request_len` and `parse_http_request` on
a window that starts at a request find this request and no other (`Frame`), and
reading and discarding move the two ends of the window (`WindowGrows`,
`WindowShrinks`).  `ThreadsInv` bounds `num_threads` and the copies of it that
`mg_start` and `worker_thread` hold, also when an update is lost.

`UTHashProofs`: `FsckHolds`, `ChainsBoundedHolds`, `FindsItemHolds` and
`MapImplemented`, for any elements and keys, any hash function, any order, any
initial number of buckets, any threshold and any number of calls.  The inductive
invariant `Inv` says that there is a list `s` of elements that the table holds
(`TableOK`): the list of the table is `s` in both directions, every bucket has a
chain of just those elements of `s` that hash to it, the counts add up, and no
two elements of `s` have the same key.  `CallOK` says that each call leads from
such an `s` to a next one by a step of the map (`MapStep`), which gives the
refinement along with the invariant.  Below it there are four arguments.

- *Lists.*  What appending, pushing to the front and taking out do to `next` and
  `prev` is shown once, for both kinds of lists, and `Walk` finds the list again
  (`WalkIs`); elements of other chains are not touched (`ListFrame`).
- *Doubling* moves one element at a time from the old chains to the new ones.
  `Moved` says that the new chains hold exactly the elements that have been
  moved, and that the multiple which a bucket tolerates fits its count.
- *The bound.*  `ChainsBounded` is not inductive: `HASH_EXPAND_BUCKETS` could leave
  a chain as long as the even share, and nothing in it says that the even share
  is small.  `Balanced` adds that it is no larger than the threshold, and that the
  multiples of the threshold which the buckets tolerate (`Weight`) add up to no
  more than the number of buckets.  Hence, when an addition makes some chain too
  long, all elements fit into twice the buckets with at most the threshold each
  (`ItemsFit`), so the new share is again within the threshold, and a bucket that
  tolerates `m` times more holds at least `m` shares (`ExpandedBalanced`).
- *Sorting.*  Elements are compared by rank and then by their place in the list
  before the sort, a strict order (`Lt`), so that stable means sorted.  A merge of
  two ordered runs, the first of which comes earlier, is ordered
  (`MergeFacts`); a pass turns ordered blocks of `insize` into ordered blocks of
  twice the size with the same elements (`Blocks`, `PassFacts`); and the passes
  stop only when one block is left (`SortFacts`).

The induction is over a set: the least element of the numbers outside it
(`LeastNumber`, from `WFMin`) contradicts its closure (`Induction`); the library's
induction theorems have an operator as parameter and cannot be used here.  What a
recursive function computes is had from the functions on which it is defined: by
the same induction one that satisfies the equations exists for every bound and
only one does (`Runs` in `UTHashProofs`).

`ProxyProofs` on view stamps and times, for every width of the ids:

- `KeysInOrder`: the keys of two view stamps compare as `view_stamp_comp` does,
  so the order of the database, of the cursor and of the handlers is one order.
  It rests on one step from view to view (`KeyStep`): a larger view is larger by
  at least a whole range of request ids.
- `TrustIsRecent`: whenever `expected_leader_ping_period` trusts its leader, the
  last ping is no older than the period.  The addition without carry yields a
  time that compares no later than the true sum (`NotEarlier`), so it errs only
  towards suspicion.

Only model-checked: `OneLeader` and `Unchallenged` of `Election`, which do not
hold beyond the bounds of their run; and all liveness (`LeaderProgress`, `CatchUp`,
`Settles`, `StopReturns`): fairness and ENABLED are beyond the prover.

## 5. Not modelled

- Stamps of different views in one consensus component, requests of view 2,
  elections from view 0 and beyond view 2, state transfer (`replica_sync` is
  empty).
- Reads out of bounds and uses of freed events other than those named above;
  allocation failures of the replicas.
- In the proxy: the server's replies, SIGTERM, the deliver mode
  `fake_update_state`, restart of the process.
- In the hash table: `HASH_SELECT`, the Bloom filter, the counting macros, the
  hash functions.
- In the web server: the contents of replies (files, directories, CGI output,
  SSI, Lua, WebDAV, websockets, digests), option parsing, the client functions,
  the Windows code.  These are conversions and I/O of one connection and one
  thread, without state that outlives a request.
- Logging, argument parsing, the clients, the preload library, scripts, examples
  and tests.

## 6. Plan

1. Done: `Consensus`, `CommittedLog`, their runs and theorems; `Election`;
   `Proxy`; `CommonStructure` and its theorems; `Node`; `UTHash` and
   `OrderedMap`; `Mongoose`.
2. Done: the proofs of section 4.
3. `ViewChange`: `Consensus` over two views composed with the outcome of
   `Election`: the boundary branches of `try_to_execute`, late messages of the
   old view, the make-progress timer that a new leader never starts, the
   forwarding of requests to an outdated leader.
4. The merge of the edges as an algorithm on sequences, checked against the set
   of slots that no reporter has.
