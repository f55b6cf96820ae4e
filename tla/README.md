# Verification of ruserf

TLA+ models of the parts of ruserf (a Rust port of HashiCorp Serf) whose
source is in this repository, TLC configurations that check them on small
instances, and TLAPS proofs for every value of the constants: the Lamport
clock's invariants and its refinement of an atomic clock, the coordinate
cache's consistency, and the merge delegates' admission check.

## The system and what is modelled

A serf node sits on top of memberlist. Memberlist calls the node back through
`SerfDelegate` (`src/core/src/serf/delegate.rs`):

- **`notify_message`** decodes the tag byte of a gossiped message
  (`MessageType::try_from`, `src/core/src/types/message.rs`). It then hands
  the message to the join-intent, leave-intent, user-event or query handler.
  A message the handler finds new is put back into the gossip (rebroadcast).
- **`local_state` / `merge_remote_state`** are the push/pull anti-entropy
  exchange. One node sends a snapshot:
  - the membership clock;
  - every member's status ltime;
  - the left members;
  - the event clock;
  - the event buffer.

  The receiver witnesses both clocks (remote minus one), replays the left
  members as leave intents and the other statuses as join intents. On a join
  with `event_join_ignore` it raises the event min time. Finally it replays
  the buffered events.
- **`notify_join` / `notify_leave`** report memberlist's own view of a node.
  This is where a node that vanished without a leave intent becomes *failed*.
- **`ack_payload` / `notify_ping_complete`** carry network coordinates on
  memberlist's ping acks. The receiver checks the version byte, decodes the
  peer's coordinate, updates its Vivaldi client, and then, under the cache's
  write lock, caches the peer's coordinate and its own.
- **`node_meta`** encodes the node's tags as the meta of its alive
  announcements. **`notify_alive` / `notify_merge`** convert announced node
  states with `node_to_member` and ask the user's merge delegate. Any error
  makes memberlist refuse the whole alive message or push/pull.
- **`broadcast_messages`** fills a gossip packet from three transmit-limited
  queues: membership, then query, then event. Each queue gets the bytes the
  previous ones left.

All of this runs on Lamport clocks (`src/types/src/clock.rs`). There are three
of them: membership, event and query. Each is an `AtomicU64` that many tasks
bump (`increment`) and advance to remote times (`witness`, a
compare-and-swap loop).

The intent and event handlers, the membership tables, the transmit queues,
the query engine, the snapshotter and the reaper are not under `src/`. The
models follow `spec.md` for the handlers the source calls into. Those
definitions are marked `spec_modelled` in `PROJECT.json`.

| Module | Models | Code |
|---|---|---|
| `LamportClock` | `new`, `time`, `increment`, the `witness` CAS loop, with any number of tasks interleaving at every atomic access; u64 wrap-around as `% 2^TimeWidth`; the debug-build overflow panic | `clock.rs` |
| `AtomicLamportClock` | the abstract clock: an atomic tick, and an atomic advance past a larger remote time | `clock.rs` (its promise) |
| `LamportClock_proofs` | TLAPS proofs of type correctness, of `ClockCoversHistory` and `ClockMonotone` far from `u64::MAX`, of `WrapPanics` in a debug build, and that `LamportClock` refines `AtomicLamportClock` | |
| `SerfGossip` | `notify_message` (Leave, Join and UserEvent arms, unknown tags, failed decodes, ignored push/pull tags), `local_state`, `merge_remote_state` and its failure path, `notify_join`/`notify_leave`; the intent and event handlers from spec 3, 4.1 and 4.2 | `delegate.rs`, `message.rs` |
| `SerfGossip_proofs` | TLAPS proofs of `LeaveStatusFromLeaveIntent` and `StatusLtimeMonotone` | |
| `BroadcastMessages` | `broadcast_messages` with its three `get_broadcasts` calls, the byte accounting and the metric; the queues from spec 4.6 | `delegate.rs` |
| `BroadcastMessages_proofs` | TLAPS proofs of type correctness, `WithinLimit` and `NoBudgetUnderflow` | |
| `BoundedRecursion` | induction and recursion lemmas over `0..N`, used to unfold the recursive functions of `BroadcastMessages` | |
| `PingCoordinates` | `ack_payload` and `notify_ping_complete` on several nodes, each with concurrent ping tasks | `delegate.rs` |
| `PingCoordinates_proofs` | TLAPS proofs of type correctness and of `CacheSelfCurrent` | |
| `MemberMeta` | `node_meta`, `notify_alive`, `notify_merge`, `node_to_member`; `set_tags` from the spec | `delegate.rs` |
| `MemberMeta_proofs` | TLAPS proofs of `AdmittedConvertible` and `MetaNeverPanics` | |

### LamportClock

State:
- `clock`: the atomic;
- for each task of `Procs`: its program counter (`idle`, `load`, `cas`,
  `panicked`), the argument of `witness` and the value it loaded;
- ghosts `issued` (values `increment` returned) and `witnessed` (arguments of
  completed `witness` calls);
- a count of increments, capped by `IncBudget`.

Actions:
- `Increment(p)` is the `fetch_add` plus one, modulo 2^w.
- `Witness(p,t)` starts a call.
- `WitnessStep(p)` performs the rest of the call. Its disjuncts are:
  - `LoadOld` returns early when `cur >= t`;
  - `LoadBehind` goes to the CAS;
  - `CasPanic` is the `checked_add` panic;
  - `CasSucceed` stores the new value;
  - `CasFail` reloads, because another task won.

Every atomic access is its own step, so the model contains every
interleaving the runtime can produce.

`LamportClock` also instantiates `AtomicLamportClock`, with the refinement
mapping `clock <- clock` (and the same `Modulus` and `Times`). The tasks'
program counters, their loaded values and the ghosts are hidden. The property `AtomicClockSpec` says that every step of
the CAS-loop implementation is a tick, an advance or a stutter of the
atomic clock. The compare of `compare_exchange_weak` is what makes this
true: a CAS without it can move the clock back.

### SerfGossip

Several nodes (`Nodes`) track one further node (`Subject`). The subject joins,
leaves or crashes, and each intent is stamped with the next Lamport time.
Outside originators send user events.

State:
- per node:
  - the membership clock and event clock;
  - the event min time;
  - the subject's member status and status ltime;
  - the recent-intent stash;
  - the event ring of `EventBufferSize` slots;
- the gossip: a *set* of addressed messages, which may be lost, delivered
  twice (via rebroadcasts) and delivered in any order;
- the pending push/pull snapshots;
- ghosts: the sequence of the subject's intents, the leave ltimes each node
  heard, and the events each node's application received.

Each handler is one atomic action. That includes the trailing rebroadcast of
`notify_message`, and every replay and witness of `merge_remote_state`. The
code awaits between the handlers of one merge; other callbacks interleaving
there are not modelled (the atomicity hazard at `delegate.rs:415` in
`PROJECT.json`).

### BroadcastMessages

State:
- the three queues, as sequences of `[id, tx]`;
- the last call's limit and result;
- the ids ever queued (each broadcast is queued once);
- a ghost: the histogram samples per broadcast of the last call.

`QueueBroadcast` enqueues. `BroadcastMessagesCall(limit)` is the whole of
`broadcast_messages`, and that includes the queues' transmit counting.

Sums, the greedy walk of a queue and the filter that drops spent entries
are recursive functions (`PrefixSums`, `Scan`, `KeepAcc`), not RECURSIVE
operators or SequencesExt folds, so that TLAPS can reason about them.

`EncOverhead` is what memberlist's `encoded_len` closure adds to a message,
and `Overhead` what `get_broadcasts` charges. The code subtracts the first
from the budget (lines 276 and 295) while the queues fit by the second.
`broadcast_budget` sets both to 1. The module assumes nothing about how
they compare, and the two directions break different things:
- with `Overhead = 2` and `EncOverhead = 1`, TLC finds a call whose result
  totals 8 bytes at limit 7. `WithinLimit` therefore rests on
  `ExactFraming` (`EncOverhead = Overhead`);
- with `Overhead = 1` and `EncOverhead = 2`, one 3-byte broadcast fills a
  4-byte limit by framed length but reports 5 encoded bytes, and
  `limit - bytes_used` at line 276 underflows. `NoBudgetUnderflow`
  therefore rests on `EncodedWithinFramed` (`EncOverhead <= Overhead`).

Both are memberlist's contract and lie outside `src/`.

The queues' transmit counts and retransmit limit are memberlist's
`TransmitLimitedQueue`, modelled from spec 4.6 so that a queue hands out
what it really would. No property is stated about them: nothing in `src/`
can change them.

### PingCoordinates

A coordinate is abstracted to its owner and a generation. Each successful
client update gives the next generation. The Vivaldi arithmetic is not
modelled, and whether an update is rejected is a nondeterministic input.
The codec (outside `src/`) is modelled by what it does: a coordinate needs
`CoordLen > 0` bytes, and encoding into a shorter buffer fails.

State:
- per node: the client's coordinate, the cache, and each task's position
  (idle, or between the update and the cache write);
- a ghost: each node's last completed ping, with the coordinate it received
  and the one it passed to `update`.

Actions:
- `PingComplete(n,t,p,payload)` is `notify_ping_complete` up to the client
  update. That covers the four early returns, `before = get_coordinate()`
  and `update`, which fails or advances the client.
- `CacheWrite(n,t)` is the write-locked block. It inserts the peer's
  coordinate and re-reads the client for the node's own entry.

The acks come from `AckPayload` for ruserf peers. Peers of other builds
(`Foreign`) may send any version byte and any coordinate.

### MemberMeta

Tags are abstracted to their encoded length, and meta to a length and
whether its tags decode.

Actions:
- `SetTags` follows the spec: it refuses tags longer than `META_MAX_SIZE`.
- `NodeMeta(n, limit)` is `node_meta` together with the announcement that
  memberlist builds from it. No tags give empty meta. Tags over
  `min(limit, Meta::MAX_SIZE)` panic, which ends the node's memberlist task.
  An encoder error announces empty meta.
- `NotifyAlive` and `NotifyMerge` run `node_to_member` over every state
  (the collect stops at the first error), then the user's verdict.
  Memberlist admits the states into the node's view only on `Ok`.
- `Leave` flips a node's announced state to left.

Nodes without a user delegate admit everything.

## Runs

| Run | Expect | What it shows |
|---|---|---|
| `clock_debug_peer_max` | pass | Two tasks race `increment` and `witness` on a 3-bit clock in a debug build, and peers may send `u64::MAX - 1` and `u64::MAX`. `WrapPanics`: the clock goes backwards only in a step that panics its task. `witness(MAX - 1)` followed by `increment()` does wrap the shared atomic to 0, because `fetch_add` wraps before the `+ 1` panics, so the overflow checks report the wrap but do not prevent it. `WitnessTerminates`: every CAS loop returns or panics. `AtomicClockSpec`: the clock refines the atomic clock, through the wrap. |
| `clock_peer_overflow` | violation | `ClockMonotone` in a release build: a peer-sent `u64::MAX` wraps the clock to 0. |
| `gossip_membership` | pass | Join, leave and crash intents are lost, duplicated and reordered, with push/pulls and memberlist callbacks in between. `StatusLtimeMonotone`: a status ltime never decreases. `LeaveStatusFromLeaveIntent`: leaving/left always carries a real leave intent's ltime. |
| `gossip_events` | pass | Events are gossiped, rebroadcast, overwritten in a 2-slot ring and replayed by push/pull, mixed with undecodable gossip. `EventDeliveredOnce`: the application sees each event at most once. |
| `gossip_leave_as_join` | violation | `LeaveHeardNotFailed`: a node that heard the leave intent may still mark the node failed. |
| `gossip_join_ignore` | violation | `JoinIgnoreReplaysNothing`: with `event_join_ignore`, the join's push/pull still replays an event. |
| `broadcast_budget` | pass | `WithinLimit`: one call's messages fit in the limit. `NoBudgetUnderflow`: whatever the queues hold and whatever limit comes next, neither `limit - bytes_used` of a call underflows. |
| `ping_cache` | pass | `CacheSelfCurrent`: two tasks complete pings on one node and interleave between the update and the cache write. Once both are done, the cached own coordinate is the client's current one. |
| `ping_exchange` | violation | `CoordinatesExchanged`: between two ruserf nodes, the ack carries only the version byte and is dropped as undecodable. |
| `ping_update_input` | violation | `UpdateUsesPeerCoordinate`: the client update is fed the local coordinate instead of the peer's. |
| `meta_admit` | pass | `AdmittedConvertible`: a node with a user delegate admits only node states that `node_to_member` converts, across alive messages and push/pulls that mix ruserf, foreign, leaving and undecodable states. `MetaNeverPanics`: `node_meta` never panics on tags `set_tags` accepted. |
| `broadcast_metric` | violation | `SentMetricExact`: the sent-message histogram counts query broadcasts twice and event broadcasts never. |

Every property of a passing run has a mutant in `PROJECT.json`: a plausible
bug in a mapped definition that TLC finds. Examples:
- a CAS that does not re-compare;
- a retry that reuses the stale value;
- a push/pull that overwrites a status without the stale check;
- an event window off by one;
- an event budget of the full limit;
- a query budget of the full limit;
- an `increment` with `wrapping_add`, which no longer panics;
- a cache write that stores the update's result instead of re-reading the
  client;
- a merge that skips unconvertible states instead of failing;
- a `node_meta` that panics at the limit.

### Findings

1. **`clock.rs:168` and `delegate.rs:443`.** `witness` compares with `>=`,
   so a clock equal to the remote time is not advanced, where the spec and Go
   serf advance to `t + 1`. As a result, an event clock can equal a buffered
   event's ltime. `event_join_ignore` sets `min_time` to the peer's event
   clock, so that event replays on join (`gossip_join_ignore`).
2. **`clock.rs:175`.** In a release build, a peer-sent `u64::MAX` wraps the
   clock to 0, and the clock goes backwards. A debug build panics on that
   time, but not on `u64::MAX - 1`: `witness` stores `u64::MAX`, and the next
   `increment()` wraps the shared atomic to 0 (`clock.rs:158`) before its
   `+ 1` panics. Other tasks then carry on from 0. `clock_debug_peer_max`
   shows that a debug build only goes backwards in such a panicking step
   (`WrapPanics`).
3. **`delegate.rs:321`/`425`.** `local_state` reports a Leaving member's leave
   ltime as a plain status, and `merge_remote_state` replays it as a join. The
   receiver revives the node at the leave's ltime. It then rejects the real
   leave intent as stale (equal ltime). When memberlist drops the node, it is
   marked *failed* instead of *left*, although the node heard the leave.
4. **`delegate.rs:297`.** The third accounting loop iterates `query_msgs`
   instead of `event_msgs` (spec section 9 flags this). Only the metric and
   the unused `bytes_used` are affected.
5. **`delegate.rs:589`.** `ack_payload` pushes the version byte into an empty
   `Vec` and encodes the coordinate into `buf[1..]`, an empty slice. The
   encode always fails, so the ack carries the version byte alone. A ruserf
   receiver fails to decode `payload[1..]` and drops the ping: coordinates
   never travel between ruserf nodes. The spec's open questions ask for
   "version byte, then coordinate".
6. **`delegate.rs:632`.** `notify_ping_complete` calls
   `update(node.id(), &before, rtt)` with `before`, the local client's own
   coordinate, where Vivaldi (and Go serf) pass the decoded peer coordinate
   `coord`. Only acks from peers that do send a coordinate reach this line,
   which finding 5 hides between ruserf nodes.

## Bounds

- **Clock:**
  - 2 tasks;
  - a 3-bit width (`Modulus` 8), so wrap-around and `u64::MAX` are reachable;
  - remote times `{0,1,2,6,7}` in the debug run, including `MAX - 1` and
    `MAX`, so that an increment runs at `MAX`; `{1,7}` in the release run;
  - 3 increments.

  Two tasks are enough for every CAS conflict: a CAS loses to one other writer
  at a time.
- **Gossip:**
  - 2 observing nodes, which is the least that lets one push/pull to the other
    and gossip cross;
  - 2 intents: a join then a leave, which is where the leave-as-join finding
    lives;
  - 2 push/pulls (1 in the event run);
  - a 2-slot event ring with event times `0..2`, so a slot is overwritten and
    an event falls out of the window;
  - 3 events.

  The split into a membership run and an event run keeps each under a minute
  (about 10^6 states). Membership and events share only the dispatch and the
  push/pull.
- **Broadcast:**
  - 4 broadcasts of sizes 1 to 4;
  - limits 4 and 7, so a queue's message does or does not fit what the
    previous queues left, and a 3-byte broadcast exactly fills limit 4 with
    its framing (the underflow case when encoded_len frames more);
  - retransmit limit 2, so a broadcast is handed out again before it drops.

- **Ping:**
  - 2 nodes, one with coordinates on, and one foreign peer;
  - 2 tasks per node, the least that interleaves an update between another
    task's update and cache write;
  - 3 updates per client (`MaxGen`), enough for two overtaking writes.
- **Meta:**
  - 2 nodes, one with a user delegate (the other admits without checks);
  - 1 foreign peer whose meta may not decode;
  - sizes `MetaMaxSize = META_MAX_SIZE = 1` and tag lengths `0..2`, so that
    `set_tags` refuses some tags and others fill the limit exactly.

  Both bounds are 512 in the crates. In the model, `node_to_member`'s size
  check therefore never fires on a wire meta; the decode check does.

## Fairness

`LamportClock`:
- weak fairness on a task's witness steps, because the runtime keeps polling
  a task inside `witness` (it never awaits there);
- strong fairness on a successful CAS, because `compare_exchange_weak` does
  not fail spuriously forever and another task's writes are finite.

New calls are not forced. `SerfGossip`, `BroadcastMessages`, `PingCoordinates`
and `MemberMeta` assume no
fairness and are checked for safety only: gossip may be lost for ever, and a
node may never be called back.

## Proofs

### `LamportClock_proofs`

- `TypeCorrect`: `Spec => []TypeOK`, for every width, task set and time set.
- `ClockSafety`: `NoWrap => (Spec => []ClockCoversHistory)`.
- `ClockMonotoneSafe`: `NoWrap => (Spec => ClockMonotone)`. It is an action
  property, and it rests on the same `IInv`. Under `NoWrap`, `ClockBounded`
  leaves room for `+1`, so an increment moves the clock up by one. A
  successful CAS stores `t + 1` over a loaded value below `t`
  (`CasBehind`). Every other step leaves the clock alone.

`NoWrap` says that no remote time plus the increment budget reaches
`u64::MAX`. It is needed in both builds: without it `clock_peer_overflow`
shows a release build wrapping, and in a debug build `witness(MAX - 1)`
followed by `increment()` wraps. No run checks `ClockCoversHistory` any
more: its only passing instance was one whose times could not reach the
wrap. The proofs cover it for every instance that satisfies `NoWrap`.

- `WrapPanicsSafe`: `OverflowChecks => (Spec => WrapPanics)`, for every
  width, task set and time set, `u64::MAX - 1` and `u64::MAX` included. It
  rests on `RInv` below (`WrapPanicsStep`):
  - an increment lowers the clock only from `MaxTime`, where its `+ 1`
    panics the task;
  - a successful CAS stores `t + 1 > t > cur = clock`, because a debug
    build panics at `t = MaxTime` (`CasPanic`) before the CAS;
  - every other step leaves the clock alone.

`ClockCoversHistory` alone is not inductive. A CAS step needs three more
facts:
- the task's argument is a remote time (`ArgFromPeer`);
- the value it loaded is below that argument (`CasBehind`);
- the clock is bounded by a remote time plus the increments (`ClockBounded`),
  so that `+1` does not wrap.

The proof shows `Init => IInv` and `IInv /\ [Next]_vars => IInv'`, with one
step per action and per disjunct of the witness loop. `IInv` was first checked with TLC, as an
invariant of a release-build instance with small peer times (two tasks,
3-bit clock: 120,457 states).

- `Refinement`: `Spec => AtomicClockSpec`, with no `NoWrap` hypothesis.
  It rests on `RInv == TypeOK /\ ArgFromPeer /\ CasBehind`:
  - a successful CAS goes from a value below the argument `t` to
    `(t+1) % 2^w`, an atomic advance;
  - an increment is a tick;
  - every other step leaves the clock alone.

  `Init` maps to the atomic `Init`. Each step maps to a step or a stutter
  (`StepRefines`).

### `PingCoordinates_proofs`

- `TypeCorrect`.
- `CacheSafety`: `Spec => []CacheSelfCurrent`, for any nodes, peers, tasks
  and `MaxGen`. `TypeOK /\ CacheSelfCurrent` is inductive for two reasons:
  - a ping completion that moves the client parks its task at the cache
    write, so the premise "every task idle" is false until that write;
  - the write re-reads the client.

  A lemma (`AckPayloadShape`) shows that a ruserf ack is `<<1>>` or empty,
  from `CoordLen > 0`.

### `MemberMeta_proofs`

- `TypeCorrect`.
- `AdmitSafety`: `Spec => []AdmittedConvertible`. It is inductive with
  `TypeOK`: an admitting callback checked every state it admits, and other
  nodes' views are untouched.
- `NoPanic`: under `LimitsCover` (every limit is at least `META_MAX_SIZE`,
  and `META_MAX_SIZE <= Meta::MAX_SIZE`), `node_meta` never panics. The
  inductive invariant adds `TagsBounded`: configured tags stay within
  `META_MAX_SIZE`.

### `SerfGossip_proofs`

- `LeaveSafety`: `Spec => []LeaveStatusFromLeaveIntent`, for every set of
  nodes and every bound, with no hypothesis.
- `LtimeMonotone`: `Spec => StatusLtimeMonotone`, for every set of nodes
  and every bound.

`LeaveStatusFromLeaveIntent` is not inductive on its own. A leave status
can reach a member in three ways:
- a fresh leave message from gossip;
- a push/pull snapshot that reports the subject left;
- `notify_join`, from a stashed leave intent.

So the invariant `LInv` also requires a leave intent's ltime of:
- every stashed leave (`RecentOK`);
- every decoded leave message in flight (`MsgsOK`);
- every push/pull snapshot with `left` set (`PPsOK`).

These conjuncts rest on a partial typing (`GType`) of the subject's
intents, the member and stash entries, the messages and the snapshots. The
event variables are never typed: the proofs do not touch `ReplayEvents`.

For monotonicity, `NoneAtZero` adds that an unknown subject has ltime 0.
That is what lets `notify_join`'s new member, which takes the stash's
ltime, not go below it. The inductive invariant is
`GInv == LInv /\ NoneAtZero`.

The proof is built from operator lemmas:
- `LeaveIntentOK` and `JoinIntentOK` cover the three arms of each intent
  handler;
- `AfterReceiveShape` covers what a rebroadcast leaves in flight;
- `BroadcastShape` and `NewMemberOK` cover broadcasts and new members.

There is one step lemma per group of actions: `EnvironmentStep`,
`ReceiveStep`, `PushPullStep` and `NotifyStep`. `GInv` was checked with TLC
before it was proved:
- on the `gossip_membership` instance (980,916 states);
- with garbage tags `{0, 1, 9}`, that is undecodable leave and join bytes
  and an unknown tag (8,513,920 states).

### `BroadcastMessages_proofs`

- `TypeCorrect`: `Spec => []TypeOK`.
- `BudgetSafety`: `ExactFraming => (Spec => []WithinLimit)`, for every
  set of broadcasts, every size, overhead and limit. The hypothesis is
  needed (see the counterexample above). The inductive invariant is
  `IInv == TypeOK /\ WithinLimit`; the call step (`CallWithinLimit`) shows:
  - each queue's pick fits its budget (`PickedWithinLimit`);
  - under `ExactFraming` the encoded sum equals the framed sum
    (`EncodedIsFramed`);
  - so the three budgets add up to `limit` (`SumWConcat`).
- `UnderflowSafety`: `EncodedWithinFramed => (Spec => []NoBudgetUnderflow)`,
  for every set of broadcasts, size, overhead and limit. `TypeOK` is
  enough as the invariant, because `NoBudgetUnderflow` speaks of the
  queues alone. The argument (`BudgetNoUnderflow`):
  - the membership queue's pick fits `limit` by framed length
    (`PickedWithinLimit`);
  - its encoded length is no larger (`EncodedLeFramed`, from `SumWMono`);
  - so the query budget is a natural number, and the same holds for the
    query queue's pick within it.
  The hypothesis is needed (see the counterexample above).

The recursive functions are unfolded via `BoundedRecursion`:
- `RecursionExists` builds a function that satisfies the recursion;
- `BoundedInduction` shows that it agrees with the definition.

Lemmas such as `PrefixSumsDef` and `ScanDef` state each unfolding once,
as an opaque predicate (`IsPrefixSums`, `IsScan`, `IsKeep`), so that
citing it stays cheap.

### Left to TLC
- Liveness (`WitnessTerminates`). It needs `ENABLED` and fairness
  reasoning, which the installed provers do not do here.
- `EventDeliveredOnce` (`SerfGossip`). Its invariant has to follow the
  event ring through `ReplayEvents`, a recursive function over the slots.
  A proof would have to unfold it as `BroadcastMessages_proofs` does, one
  lemma per recursive function, and this has not been done.
- `SentMetricExact` is not proved: it is false in the code (the
  `broadcast_metric` run shows this), so nothing can prove it.

## Not modelled

- **Query engine:** query and query-response handling, relays and the query
  clock. The engine is not in `src/`.
- **Snapshotter, reaper and reconnector** (spec 4.5, 4.7): not in `src/`.
- **Vivaldi arithmetic** (distances, the update's numeric work): coordinates
  are abstracted to generations.
- **`notify_conflict`:** it only calls `handle_node_conflict`, which is not in
  `src/`.
- **`error.rs`:** error enums and their conversions; no state.
- **Tags, addresses, codecs and error formatting:** abstracted to model values
  and records.
