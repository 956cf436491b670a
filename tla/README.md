# Formal models of the xtalk suite

TLA+ models of the stateful parts of this repository, the TLC runs that check
them on small instances, and theorems proved with TLAPS. `PROJECT.json` is the
machine-readable index: which module models which source file, line by line
(`map`), which property each run checks, which deliberate bug each property
catches (`mutants`), and where this code is hard to test (`hazards`).

    tlc -workers 2 -config ShimLifecycle.cfg ShimMC.tla     # one run
    tlapm DataChannelShimProofs.tla                         # one proof module

## 1. The system

The suite is eight extensions of an xTalk engine and three applications that
use them. The engine runs all script code on one thread: a handler runs to its
end before the next message is dispatched, except where it calls another
handler. Concurrency enters in two places: native libraries with threads of
their own (libdatachannel, libtorrent), and handlers that are re-entered
through the callbacks they invoke (the socket clients).

| Component | State | Operations | Interacts through | What is hard |
|---|---|---|---|---|
| **handle table** (`dcx_`, `enx_`, `btx_handle_table.h`, one class) | slots of (generation, live, object), a LIFO free list | `alloc`, `get`, `free`, `collect_live` | every native shim | stale handles, the generation's wrap, a full table |
| **datachannelxt native shim** (`datachannel_shim.cpp`) | two handle tables, two maps from library ids to handles, the state shadow, the orphan list, the bounded event queue, one mutex | create / close / free of peers and channels, `dcx_poll`, `dcx_cleanup`, ten callbacks | callbacks on library threads; polled by the script | interleavings, a free racing a callback, lock order with the library, queue caps |
| **datachannelxt script layer** (`datachannel.lcb`) | the poll buffer | `dcPoll`, wrappers | calls the shim, hands records to the app | growing the buffer and retrying |
| **enetxt** (`enet_shim.cpp`, `enet.lcb`, `enet-helpers.livecodescript`) | hosts with a one-event stash, peers with a back link from ENet's own structures, an init count; the timer pump's host list and flag | create, connect, the three disconnects, send, `enx_poll`, deinit; start and stop polling | pumped by a timer of the script, which dispatches each event to the app; single-threaded | handle life cycle against ENet's own peer states, the stash, handlers that call anything, a timer that must survive them and not multiply |
| **torrentxt** (`torrent_shim.cpp`, `torrent.lcb`) | one session, torrent handles and their reverse map, a FIFO alert stash, the `rp1` peers and event queue | add / remove, `btx_pop_alerts`, `btx_rp1_*` | libtorrent's network thread for `rp1` only | alerts for removed torrents, FIFO across buffers, the `rp1` queue caps |
| **nostrxt relay client** (`nostr-relay.livecodescript`) | relays (socket, state, buffers), subscriptions | connect, subscribe, publish, disconnect, socket messages, deadlines | socket messages; callbacks into the app | re-entrancy, teardown in the middle of a drain, deadlines |
| **nostrxt library**, **coinxt**, **sodiumxt** | none, or the library's own | encodings, signatures, key derivation | called by the apps | bytes and arithmetic |
| **onionxt** (`onionxt.livecodescript`) | the control connection with one command in flight and a queue, streams, services | connect, dial, publish, shut down, socket messages, deadlines | Tor's control and SOCKS ports; callbacks into the app | matching replies to commands, callbacks that close the stream they are about |
| **box2dxt** | a physics world | step, bodies, joints | Box2D | continuous state |
| **riptide** | none (the caller keeps watermarks) | build, parse and verify signed records | torrentxt, sodiumxt, onionxt | replayed records, exact comparison of large numbers |
| **holde-em** | the betting state of a hand, the signed transcript of a table, seats | bets and blinds, settlement, host sequencing, replay | torrentxt's `rp1` | chip conservation, side pots, gaps and replays of the transcript |
| **publisher** (`tools/publish-members.py`, its workflow) | none of its own: the `Suite-Commit` and `Mirror-Commit` trailers in two git histories | publish, adopt, port | the suite's main, the member repositories, several runs of itself | races between a fetch and a push, divergence, failed pushes |
| **nocloud** | active shares and transfers | serve and receive over four transports | all the transports | watchdogs against late progress |

What makes each part correct:

* **handle table**: a handle names at most one object in its life; a freed
  handle is dead; the free list is exact.
* **datachannelxt**: no library object leaks and none is freed twice; no event
  names a handle the app does not know or has freed; the queue sheds only at
  its caps and says how much; no lock is held while the library may block.
* **enetxt**: a live peer handle corresponds to a live ENet peer and back; each
  event is handed over once, in order; the last event of a peer is its
  disconnection.
* **torrentxt**: alerts are never reordered or lost by the buffer boundary; the
  `rp1` queue has the same contract as datachannelxt's without the report event.
* **publisher**: what is published is a state main held, forward only; nothing
  a member committed is lost without its owner's word; one run on main's newest
  state is enough to catch up.
* **nostrxt relay client, onionxt**: after a teardown nothing touches the
  connection again, whoever called it; each command gets its own reply; a
  connection opens or fails by its deadline.
* **holde-em**: chips are conserved, every legal sequence ends the hand, and
  every client folds the same transcript to the same state.

## 2. Modules

    HandleTable ── HandleLifetimes ── HandleTableLemmas ── HandleLifetimesProofs
        │
        └── DataChannelShim ── ShimMC
                │    │
                │    └── DataChannelShimInvariants ── DataChannelShimProofs ── SumTheorems
                └── (implements) EventStream
    HandleTable ── EnetShim ── EnetPump ── EnetPumpProofs
    HandleCodec ── HandleLifetimesProofs

    SeatRing ── BettingEngine ── Settlement ── BettingHand ── BettingMC
                                                    │
                                                    └── BettingHandProofs ── SumTheorems

    PublishMembers ── PublishMembersProofs ── SumTheorems          NostrRelay ── NostrRelayProofs

* **HandleTable** is `dcx_handle_table.h`: a table is a record of slots and a
  free list. `alloc` takes the *last* freed slot first, then grows; `free`
  bumps the generation, wrapping `GEN_MAX` to 1 as the header does. The module
  holds operators only, so that several tables can be variables of one model.
* **HandleLifetimes** drives one table with every sequence of allocations and
  frees and remembers which handles have been freed.
* **HandleCodec** is the bit layout of `encode` and `decode` with the real
  widths, for the proofs only: TLC could not enumerate 2^31 handles, and the
  other modules treat a handle as a pair.
* **DataChannelShim** is `datachannel_shim.cpp` with `dcPoll` on top and the
  part of libdatachannel they rely on around them (section 3).
* **EventStream** is the abstract promise of the drain: a bounded FIFO that sheds
  an event only if that very event does not fit under the caps, discards an
  accepted one only when it comes to the head and a handle it names is dead, and
  reports the number shed once the backlog is gone.
* **DataChannelShimInvariants** states the inductive invariants of the shim by their
  parts; **DataChannelShimProofs** proves them (section 10).
* **ShimMC** names the threads and the symmetry for TLC.
* **EnetShim** is `enet_shim.cpp` with `enPoll` on top and ENet's peer states
  below; **EnetPump** puts the suite's timer pump and an app above it (section 5).
* **PublishMembers** is the publisher between the two repositories it reads and
  writes (section 6).
* **NostrRelay** is the relay client with both of its transports (section 7).
* **SeatRing, BettingEngine, Settlement** are the pure functions of holde-em's
  betting: seats around the table, `heBetNewHand`, `heBetApply`, `heBetLegal` and
  `heTimeoutVerbOf`, and `heSettleOf`.
* **BettingHand** is the state machine of one hand over them, and **BettingMC**
  its tables for TLC (section 4).
* **SumTheorems** proves, for the shim's queue and for the settlement (and for the
  publisher the induction over the naturals they rest on), what the
  library's sum over a set (`SumFunction`) and the sum along a sequence are worth
  when an element comes or goes, and how sums of several functions relate.
* **HandleTableLemmas, HandleLifetimesProofs, DataChannelShimProofs,
  EnetPumpProofs, BettingHandProofs, PublishMembersProofs, NostrRelayProofs** hold
  the lemmas and theorems of section 10.

In each module the definitions marked *Planted bug* are not part of the model.
Each is a plausible mistake in the definition after it, and `mutants` says which
property refutes it.

## 3. The model of the datachannelxt shim

**Threads.** One script thread and any number of library threads (`Workers`).
`th[t]` is where a thread is in the function it runs and the locals it still
needs. A worker is idle or inside a callback; the script is idle, inside one
entry point, or inside `dcPoll`.

**Steps.** `g_mu` is the only lock. A locked section without a loop is one step
that requires the mutex to be free; a locked section with a loop takes the
mutex, does one iteration per step and releases it. A call into
libdatachannel is a step of its own, because the code makes those calls
unlocked; only where an entry point looks one handle up and makes one call on what
it found (`dcx_peer_close`, `dcx_channel_close`, `dcx_set_buffered_low_threshold`,
the beginning of `dcx_channel_new`) are the two one step: the script thread alone
frees handles and deletes what they name, so the object is still there. So `cb_data_channel` is `Lookup`, then `Register`, one `WireChannel`
per callback installed, `CheckOpen`, `AnnounceOpen`, `Revalidate` (or `Orphan`),
and `dcx_peer_free` is `PeerFreeLock`, a `PeerFreeSweep` per channel,
`PeerFreeDone`, then one `ClearCallback` per callback and one `DeleteObject` per
object.

| State | Code |
|---|---|
| `mu` | `g_mu` |
| `peers`, `chans` | `g_peers`, `g_channels` |
| `rtcPeer`, `rtcChan` | `g_rtcPeerToHandle`, `g_rtcChanToHandle` (no entry is `NoHandle`) |
| `shadow` | `g_peerLastState`, `g_peerLastGathering` |
| `orphans` | `g_orphanChans` |
| `queue`, `queueBytes`, `dropped` | `g_queue`, `g_queueBytes`, `g_dropped` |
| `drainCap` | `sDrainCap` of `datachannel.lcb` |
| `rtc`, `wired` | libdatachannel: its objects and the callbacks installed on each |
| `log`, `known`, `gone`, `shed`, `forgotten`, `fires` | history and bounds |

**libdatachannel** is not in this repository; the comments of the shim state the
behaviour it relies on, and the model assumes the same. Ids are never reused (the
head of the shim allows for recycled ids only towards the script, which never
sees one; its own maps and orphan list are keyed by them). A callback runs on a library thread while it is installed and
its object exists; one callback of one object does not run twice at once;
setting or clearing a callback waits for an invocation of it in flight; deleting
an object waits for its callbacks; `rtcCleanup` stops all callbacks and joins.
A channel the far side opens exists before its callback runs and may already be
open. Setting the message callback delivers what was buffered: in the model, a
worker may fire `E_MESSAGE` from that step on.

**Data.** An event keeps its type, its two handles and one number: the size of
its payload, label or text, the state it reports, or the shed count. Costs and
wire sizes are a fixed part plus that size, as `cost()` and the record writer
compute them. Only the sizes matter to the caps and to the buffer. The text of
the error event for an oversized message counts as size 0.

**dcPoll** polls with the buffer it has; on a negative answer it grows the
buffer to the size asked for and polls once more.

## 4. The model of a hand of holde-em

The betting engine is one pure function, `heBetApply`, from a state and a
message to a state; the local table and the online one drive the same function,
and so does the replay that audits a transcript. The model keeps that shape:
`BettingEngine` holds a record and operators on it, and a message is a pair of
them, *Takes...* (would the engine accept it: the guards, whose refusals leave
the state alone) and what it does then. Seat lists that the code keeps in
ascending order are sets; flags by seat are sets of seats; the note the engine
leaves for its caller is kept without the names it carries.

| State | Code |
|---|---|
| `hand` | `gGame["state"]`, field by field |
| `opening` | the stacks the hand was dealt with (history) |

`BettingHand` may apply any message at any time, as far as the engine takes it,
with three restrictions that are its callers' and not the engine's: antes come
before the small blind and that before the big one (`heHandStart` posts them so,
`heNetGameReact` sends each once it has seen the earlier ones), an ante is only
posted at a table that has one, and a board message is sent when a board runs
out (in other phases `heBetApply` ignores it). An act may name any verb with any
amount up to one chip more than the seat has. `HandAssumption` is what the
settings guarantee: at least two seats with chips, and a big blind that is
positive and no less than the small one (`heSettingsApply` raises it if it is).

The settlement is written as what it computes: `heSettleOf` walks the levels of
commitment in order and adds to each winner; the layers do not depend on each
other, so `SettleOf` is a sum over them, and the seats that get the odd chips
are those with few winners ahead of them clockwise. Ranks are numbers: how cards
become ranks is not modelled.

## 5. The model of enetxt and its pump

Everything runs on the script thread, so a call is one step. `enPoll` is
several, because ENet decides between two of them what it gives up next; no
other call runs meanwhile.

| State | Code |
|---|---|
| `inits` | `g_init_count` |
| `hosts`, `peers` | `g_hosts` with each host's stash, `g_peers` |
| `enet`, `up` | ENet: the state of each peer slot, the handle in `ENetPeer.data`, the hosts that exist |
| `poll`, `drainCap` | the locals of `enPoll` and `enx_poll`, `sDrainCap` |
| `list` | the list `enPoll` returned, as far as it is not dispatched yet |
| `pollHosts`, `polling`, `timers` | `sPollHosts`, `sEnPolling`, the `enetPollOnce` messages pending |
| `at`, `pass` | where the script is, and the hosts the running pass has still to poll |
| `story`, `heard`, `serviced`, `gone` | history: what the app was told of each peer, how far the stream of each host was heard and serviced, what the app let go of itself |

**ENet** is external; the comments of the shim quote the peer states it relies on
(`enet_shim.cpp:509-535`), and the model assumes the same. A connection the app
began, or an incoming one, comes up in the first free slot. A connected peer that
is asked to disconnect owes an event, one that is still connecting is reset
without one. A peer can leave, fail or time out whenever the host is serviced
(`PeerLeaves`, `ServiceDisconnect`).

**EnetPump** is the app. `enetPollOnce` polls each host of the list it had when
the pass began (`repeat for each` walks the value the list had), dispatches
events one at a time, and sends itself again unless a handler has stopped it.
`AppCall` lets the app make any call between messages and in any handler, but two:
an `enPoll` of its own beside the pump's, and a handler that waits with messages.
The app starts the pump for a host it holds, and may stop it for any host the pump
still lists, destroyed or not. `enx_deinitialize` frees the peers of all hosts in
one ascending order where the code goes host by host; that decides only which free
slot is used next, and the run has one host at a time.

Events have a size because only the size decides what fits. In the code every
entry is far smaller than `kDrainCap`, so that the growing buffer of `enPoll` is
not reached; the run gives the buffer room for one small event, so that
it is. The checked property is then the one a smaller `kDrainCap` would need too.

## 6. The model of the publisher

The publisher keeps no state: everything it knows is read from the trailers in
two histories. So the state is those histories, and the runs.

| State | Code |
|---|---|
| `main` | the suite's first-parent line: the member's tree at each commit, and the `Mirror-Commit` trailers it brought |
| `repo` | the member repository's default branch, its first-parent line: tree, `Suite-Commit` trailer, the member's own commits that arrived |
| `pr` | the member commits an open port carries |
| `run` | a process between its fetch and its push: the commits it is about to push |

A tree is a set of patches, since the properties ask which contributions a tree
holds. A run reads the clone, the fetch and the plan in one step (`Begin`: it
builds on what was *fetched*, `publish-members.py:512-520`) and pushes in another
(`Push`), which git refuses unless it is a fast-forward; between the two anything
may happen, and the push may fail or the run die (`Fault`). `Plan` is
`publish_one` from the watermark to the commits it would push.

The people are external: in the suite, changes land, are reverted, and ports are
made, opened from a pull request (`--ref`) and merged; in the member repository
there are web edits, reverts, merges with a resolution of their own, published
commits copied with their trailer, and a default branch replaced by a branch that
merged it (so that published commits leave the first-parent line).

## 7. The model of the relay client

The engine runs one message at a time, but the client calls the app in the
middle of its handlers, and the app may call back or *wait with messages*, which
lets the engine run further handlers meanwhile. So the state has an explicit call
stack; each frame holds what its handler has left to do, and everything between
two callbacks is one step.

| State | Code |
|---|---|
| `relays`, `next` | `sNxrRelays` (state and buffer) with `sNxrSockToRelay`, `sNxrNextHandle` |
| `reads`, `deadline` | the reads the engine holds for a socket, the pending `nxrDeadline` messages |
| `page`, `polling`, `polls` | the page's event queues, `sNxrWebPolling`, the pending `nxrWebPoll` messages |
| `stack` | the handlers in progress |
| `told`, `goodbyes`, `sent` | history: the callbacks made, the close frames written; bound |

What a relay sends is a sequence of items (the answer to the upgrade, a message, a
close frame, a violation of the framing): the bytes of frames and the parsing of
messages are not modelled, and a message of several fragments is one item. The
kinds of message differ only in what they tell the app, so one kind stands for
all of them. In a web page the sockets are replaced by queues that a timer drains.
An upgrade request that cannot be built or written (`nxrWsOpened`) fails the relay
before its read is armed: for the relay and the app that is `SocketFails` from
"connecting", and it is not a step of its own.

## 8. Runs

| Run | What it asks | Instance |
|---|---|---|
| `handle_lifetimes` | is a stale handle dead for a whole generation cycle; is the free list exact | 3 slots, generations 1..3, 4 frees |
| `handle_wrap` | is it dead *for ever*, as the header says | the same; violated |
| `shim_lifecycle` | the safety of creation, announcement, close and free | 2 workers, 2 slots, 3 library objects of which 2 connections, 1 callback besides the announcements |
| `shim_queue` | the queue at both caps, the report, the retry, the shadow | 1 worker, 1 slot, 2 objects, 2 events or 4 bytes, sizes 0 and 2, messages over 1 byte oversized, 3 callbacks |
| `shim_liveness` | does everything return, is everything reaped and reported | 1 worker, 1 slot, 3 objects, 1 event, a buffer too small for the first event; the low-buffer callback wired on demand |
| `shim_free_race` | is a deleted object always free of callbacks, as a comment says | as `shim_lifecycle` with 1 worker; violated |
| `shim_shed_incoming` | does the app always learn a channel first, as a comment says | a queue of 1 event; violated |
| `enet_pump` | do handles and ENet's slots agree, is the stream exact, does each peer tell one story, is a goodbye heard | 2 hosts one after the other, 2 peer slots of which the table names one, 3 generations, 2 initialisations, 2 connections, 1 packet of either size |
| `enet_timer` | does only one timer ever run, as the helper's documentation says | 1 host, 2 starts; violated |
| `publish_members` | is only main's line published, forward only; is anything lost; is one run on main's newest state enough | 2 runs, one patch in the suite, one stray, one resolution, 4 commits on main, 2 of the member's own |
| `nostr_relay` | the callback contract under re-entrancy, one listener per relay, the deadline | both transports, 2 relays, 2 items after the answer, callbacks nested 3 deep |
| `betting_hand` | is a hand's money right, is the turn always owed, does the hand end | seats 1, 3 or 1, 2, 3; stacks 1, 3 or 5; blinds 1 and 2; ante 0 or 1; every order of the seats at the showdown |

*Why these bounds are enough.* The lifecycle hazards are between one connection,
one or two channels of it, the script and one or two callbacks: three objects
and two workers let a free, an announcement and an event of the same channel
overlap in every order, and the two-slot tables fill up and reuse a slot. A
queue of two events can be full of either resource (two small events, or one
large one), and two sizes make an event that fits the caps but not the buffer.
Every bound is a constant of the module (`MaxRtcId`, `MaxPeers`, `MaxFires`),
and limits the environment only.

For enetxt, one slot in the peer table and two in the host make the table
overflow while ENet still connects, and the second connection can take over the
slot of the first with the next generation. Three generations are more than the
two hosts and two connections can use up, as `EventsLossless` and
`PeersTellOneStory` suppose (section 10). One small event fits the buffer and no packet
does, so the stash, its replay and the growing buffer are all met, and a disconnect
can be the event that is stashed. Larger instances were run to their end by hand:
two hosts alive at once and two slots in each table (4.1 million states).

For the publisher, two runs are enough for every race between a fetch and a
push, since a third would only repeat one of theirs, and four commits on main are a fold,
a change, a port and one more; two commits of the member are a stray and its
undo, a merge over one, or a copied trailer behind one. For the relay client,
two relays are enough for a callback of one to close or open the other, and three
frames for a handler inside a callback inside a handler.

For a hand of holde-em, three seats are the fewest with a caller between a
raiser and a seat that has acted, and the fewest with a side pot and somebody
who is not in it; two have rules of their own. A stack of 1 is short of every
post and, with the ante, posts nothing at all; 3 is an all-in above the big
blind that is not a full raise; 5 allows a full raise and a short re-raise of
it. The hand itself bounds the number of acts.

*Deadlock* is checked in every run but three: in `betting_hand` a finished hand
takes no message, in `publish_members` the histories are at their bounds and in
step, and in `nostr_relay` the app has used up its relays and all of them are
gone. In the shim, with the app free to poll for ever, a state
without a successor would be a real deadlock.

**Properties.** `MapsAgree` ties the tables to the maps; `NoLeak` accounts for
every channel the library holds; `NoOrphanEntry` is the orphan window;
`HandleFirst` the ordering guarantee of `register_channel`; `OpenOnce` the
dedupe by `openAnnounced`; `NothingAfterFree` the re-validation in the drain;
`QuietDelete` and `LockDiscipline` the two deadlock rules. `QueueAccounts`,
`ShedAccounted` and `FIFO` are the queue's contract, `ShadowTruth` the getters'.
`FIFO` says of each event what becomes of it: it is shed only for its own size and
discarded only for a dead handle, and a drain that loses one it could deliver, or a
cap that turns away one that fits, is no behaviour of `EventStream`.
`CallsReturn`, `OrphansReaped` and `QueueDrains` are the
liveness properties of the shim. For a hand, `StakesMatched` is the rule that
nobody sees a card without matching the bet, `TurnIsOwed` that the table never
waits for the wrong seat, `ReopensOnlyByFullRaise` the rule about short all-ins,
`LegalIsExact` that the offers and the engine agree, `SettlementFair` that side
pots, odd chips and refunds pay nobody more than they matched, and
`EveryHandEnds` its liveness.

For enetxt, `Backlinks` says that the two ends of every handle agree and that no
handle can leak: ENet still owes an event of each live one. `Lossless` is the stash's
contract, each event once, in order and of the host that was polled, `OneStory` what an app may rely on about
one peer, and `GoodbyeHeard` that an owed disconnect reaches it while the pump
runs. For the publisher, `MirrorsSuite` is that only states main held are
published and only forward, `PushSafe` what a push may never do to what the member
holds, `OneRunSettles` that one run is enough. The workflow starts one run for each
green gate run, has neither a schedule nor a retry, and drops a run that waits when a
newer one comes; so whatever was refused, died or was dropped, a run on main's newest
state must find something to push unless the member is up to date or waits for its
owner (`CatchesUp`), must finish what a run on any older state would have (`Covers`),
and must leave the member up to date when its push goes through. It is a safety
property: whether a run starts at all after a failed or held one is left to people and
to the next commit, and nothing is claimed about it. In one case, `OffTheLine`,
`PushSafe` lets a patch go that main has ported, but only after the state the run
publishes: a merge pushed as the default branch took the commit that published it
off the first-parent line, which is all `watermark()` reads, and an old clone's run
goes on from an older one.
The patch is back with the next run. In the run, with one stray, it does not happen;
with two TLC refutes the property without this case. For the relay client,
`Contract` is the documented order of callbacks together with the one listener each
live relay has, and `Settles` that no relay stays on its way and no arrived item stays
unread. Each is stated and commented at its definition.

**Fairness.** For the shim (`FairSpec`, used by `shim_liveness` only): `WF(ScriptStep)`, the
script thread runs what it has begun; `SF(PollStart)`, the app polls from a
timer, so it polls again and again between other calls; `SF(CallbackStep(w))`,
the script re-takes `g_mu` at every poll, so a worker that waits for it is
enabled again and again but not continuously; the operating system's mutex does
not starve it. Nothing is assumed of the library: no callback need ever fire.
For enetxt (`FairSpec`): `WF(PumpStep)`, the engine delivers its timer messages
and runs handlers to their end; `SF` of ENet ending a disconnect, which it does
if the host is serviced often enough, acknowledged or timed out. For the
publisher: nothing, and no liveness is claimed, because nothing starts a run again
after one that failed. For the relay client: `WF` of the client's own
handlers and of the app's returns, `SF` of the two timer messages, which the
engine delivers in the order they are due; nothing of the network.
For a hand: weak fairness of the posts, of the clock (`TimesOut`) and of the
board, and of no player. That is the online table, where the host posts and acts
for a seat that stays silent (`heTimeoutPostOf`, `heTimeoutVerbOf`) and the
dealer's client deals the board. The local table has no clock; there the players
themselves must act for a hand to end.

## 9. Disagreements between the code and its comments

* **`StaleForever`** (`handle_wrap`). `dcx_handle_table.h:4` says a stale handle
  is *always* a harmless no-op. The generation wraps, so after 32767 frees of
  one slot the handle the slot was born with is live again. The free list is
  LIFO, so one slot takes all the traffic of an app that opens and closes one
  object at a time. `StaleWithinCycle` is what does hold, and it is proved.
* **`ClearedBeforeDelete`** (`shim_free_race`). `datachannel_shim.cpp:483`: "With
  the callbacks cleared there is nothing to fire". The app learns of an inbound
  channel from the event queued in `register_channel`'s locked section; if it
  frees the channel at once, `dcx_channel_free` clears callbacks the worker is
  still installing, and one of them is wired when the object is deleted.
  `QuietDelete` shows that this is the only entry point where it can happen.
* **`HandleAlwaysFirst`** (`shim_shed_incoming`). `datachannel_shim.cpp:414`: the
  app "always learns a channel's handle (from INCOMING)" first. INCOMING is shed
  like any event when the queue is full, and later events of the channel need
  not be. `HandleFirst` is what holds.

* **`OneTimer`** (`enet_timer`). `enet-helpers.livecodescript:76`: "only one timer
  ever runs". The guard tests `sEnPolling`, which `enStopPolling` clears without
  cancelling the tick it stops, so a start before that tick is delivered arms a
  second chain, and so does a stop and a start inside one dispatched handler. The
  comment at 226-234 describes the trap and closes the third way into it.

Also met while reading, and not given a run. The publisher's docstring says that
divergence is "refused, not overwritten" (46), but a merge's own resolution is in
no commit `own_commits` lists (290, `--no-merges`), so with nothing else unported
it is overwritten without a word; and a commit that copies a `Suite-Commit`
trailer is taken for the publisher's (303-309). `PushSafe` therefore speaks of the
commits the member made, not of every line of its tree. In enetxt a disconnect
that is stashed retires its handle before the app hears of it, so a call in
between answers that the handle is stale, while `enetxt/docs/api-reference.md:81` lets
the handle retire after the event. `dcx_abi.h` says that events
already queued for freed handles still drain and that accepted events are never
dropped, while the drain discards them (`datachannel_shim.cpp:1323-1327`), which
`NothingAfterFree` shows to be what the app sees; and the comment that the
shadow is always current (152-156) holds only while no state event is shed,
hence the premise of `ShadowTruth`.

## 10. Proofs

| Theorem | Statement | Argument |
|---|---|---|
| `HandleLifetimesProofs!TypeCorrect` | `Spec => []TypeOK` | inductive as it stands |
| `HandleLifetimesProofs!FreeListCorrect` | `Spec => []FreeListExact` | inductive with `TypeOK`: `free` pushes a slot that was live, hence not on the list |
| `HandleLifetimesProofs!StaleHandlesStayDead` | `Spec => []StaleWithinCycle` | needs a strengthening that relates a freed handle's generation to its slot's current one and to the number of frees since |
| `HandleLifetimesProofs!HandlesArePositive`, `RoundTrip`, `NoAliases` | `HandleCodec`'s encoding is positive and inverted by the decoding, hence injective (`RoundTrip`); every positive int encodes what it decodes to, hence no two ints name one slot and generation (`NoAliases`); with the real widths | integer arithmetic |
| `DataChannelShimProofs!TypeCorrect` | `Spec => []TypeOK` | inductive because `ThreadStates` says, label by label, what a thread's locals hold: a worker about to re-validate has a peer handle, a sweep's lists hold object ids |
| `DataChannelShimProofs!LockDisciplined` | `Spec => []LockDiscipline` | inductive with `TypeOK` |
| `DataChannelShimProofs!MapsInvariant`, `MapsCorrect`, `NoOrphans` | `Spec => []MapsInv`, `[]MapsAgree`, `[]NoOrphanEntry` | `MapsInv` (below), inductive with `TypeOK` and `LockDiscipline` |
| `DataChannelShimProofs!StoryInvariant`, `OpensOnce` | `Spec => []StoryInv`, `[]OpenOnce` (+) | from `MapsInv`; an announced open is marked on its channel in the section that queues it |
| `DataChannelShimProofs!FreedStaysSilent` | `Spec => NothingAfterFree` (+) | an action property, from `StoryInv`: a freed handle is dead, and no step makes it live again |
| `DataChannelShimProofs!HandlesFirst` | `Spec => []HandleFirst` (+) | a strengthening that finds, for each event queued and each channel live, the INCOMING ahead of it |
| `DataChannelShimProofs!NothingLeaks` | `Spec => []NoLeak` (+) | a strengthening that names the owner of each channel through every step of a teardown |
| `DataChannelShimProofs!QuietInvariant`, `DeletesQuietly` | `Spec => []QuietInv`, `Spec => QuietDelete` | an action property, from `QuietInv` (below), inductive with `TypeOK`, `LockDiscipline` and `MapsInv` |
| `DataChannelShimProofs!AccountInvariant`, `QueueAccountsExact`, `ShedsAccounted` | `Spec => []AccountInv`, `[]QueueAccounts`, `[]ShedAccounted` | `AccountInv` (below), inductive with `MapsInv` and `QuietInv` |
| `DataChannelShimProofs!DrainIsFIFO` | `Spec => FIFO` | the refinement of `EventStream`: its caps are asked of the true cost of the queue, the shim's of the running count, and `QueueAccounts` says they are one; an event's handles are live for the stream exactly when `event_deliverable_locked` lets it through |
| `DataChannelShimProofs!ShadowInvariant`, `ShadowsTrue` | `Spec => []ShadowInv`, `[]ShadowTruth` | `ShadowInv` (below), inductive with `MapsInv` and `AccountInv`; no premise about wraps |
| `EnetPumpProofs!CoreInvariant`, `PumpTypes`, `BacklinksAgree` | `Spec => []CoreInv`, `[]TypeOK`, `[]Backlinks` | `CoreInv` (below) is inductive as it stands |
| `EnetPumpProofs!LineInvariant` | `Spec => []LineInv` | inductive with `CoreInv` |
| `EnetPumpProofs!NumberInvariant`, `EventsLossless` | `Spec => []NumberInv`, `[]Lossless` (+) | `NumberInv`, inductive with `LineInv` |
| `EnetPumpProofs!StoryInvariant`, `PeersTellOneStory` | `Spec => []StoryInv`, `[]OneStory` (+) | `StoryInv`, inductive with `NumberInv` |
| `BettingHandProofs!HandTypeCorrect` | `Spec => []TypeOK` | from `HandInv` (below): a stack stays a natural number only because no payment exceeds it |
| `BettingHandProofs!HandConservesChips` | `Spec => []ChipsConserved` | from `HandInv`; seat by seat, so no sum over the table is needed |
| `BettingHandProofs!HandKeepsWithinBet` | `Spec => []StreetWithinBet` | from `HandInv`; the big blind's post opens the betting, so the invariant must already bound the streets while blinds are posted |
| `BettingHandProofs!HandTurnIsOwed` | `Spec => []TurnIsOwed` | from `HandInv`; the next seat with something to do exists whenever the street is not closed |
| `BettingHandProofs!HandLegalIsExact` | `Spec => []LegalIsExact` | from `HandInv`, verb by verb: the bounds `heBetLegal` offers against the guards of `heBetApply` |
| `BettingHandProofs!HandReopens` | `Spec => ReopensOnlyByFullRaise` | an action property, from `HandInv` before the step; needs that the least raise never falls below the big blind |
| `BettingHandProofs!HandStaysEven`, `HandStakesMatched` | `Spec => []EvenInv`, `[]StakesMatched` | `EvenInv` (below), inductive with `HandInv` |
| `BettingHandProofs!SharesAddUp`, `SettlesFairly`, `HandSettlesFairly` | `Spec => []SettlementFair` | from `HandInv`, which only has to say that a hand has finitely many seats and natural commitments: the rest is `SettleOf` as a function (below) |
| `PublishMembersProofs!MirrorInvariant`, `RepositoryMirrorsSuite` | `Spec => []MirrorInv`, `[]MirrorsSuite` | `MirrorInv` (below) is inductive as it stands |
| `PublishMembersProofs!PublisherTyped` | `Spec => []TypeOK` | inductive as it stands: the last commit of a replay holds the state that is published, and a port makes a tree of a tree |
| `PublishMembersProofs!PushInvariant`, `PushesLoseNothing` | `Spec => []PushInv`, `PushSafe` | an action property, from `PushInv` (below), which is inductive with `TypeOK` |
| `PublishMembersProofs!OneRunIsEnough` | `Spec => OneRunSettles` | from `MirrorInv`, `PushInv` and `TypeOK`: no invariant of its own, but facts about `replay()` (below) |
| `NostrRelayProofs!RelayTypes` | `Spec => []TypeOK` | from `IInv` (below): a read stays 0 or 1 only because no read is armed while one is being handled |
| `NostrRelayProofs!RelayContract` | `Spec => []Contract` | from `IInv`; the contract is about one relay at a time, but any frame on the stack may belong to another |

Those marked (+) suppose that no generation wraps: `MaxRtcId < GEN_MAX` for the
shim, every host id and, for `OneStory`, `MaxConns` below `GEN_MAX` for enetxt.
That is the code's own premise (32767 generations of a slot) for a bounded
history; after a wrap a stale handle is issued again (`StaleForever`, section 9),
and then an event or a free meant for the first object reaches the second, so
these properties do fail. In the runs the bound holds: 7 generations against at
most 3 objects, and 3 against two hosts and two connections.

`MapsInv`, the inductive invariant of the shim's maps, says which thread stands
between which two of their updates. Outside the sweep of `dcx_cleanup` a live
handle and the map entry of its object name each other (`MapsNamed`,
`MapsPointed`). A callback that has read a peer handle and released the lock may
find it stale; its channel is registered all the same, and is the only kind of
live channel without a live peer until the callback re-validates. `StoryInv` adds
the history: a slot has given out no more handles than the library has made
objects, so no handle is given out twice, and a handle the app freed, or a
thread has seen freed, stays dead. `HandlesFirst` and `NothingLeaks` each
strengthen it once more, by where the INCOMING of an unknown channel is and by who
will free a channel at each label of a teardown.

`QuietInv`, under `QuietDelete`, says why a teardown that clears an object first
may delete it. The danger is a worker in `cb_data_channel`, which can still wire
a channel after the script has cleared it. Such a worker is in the DATA_CHANNEL
callback of a connection, and that connection is mapped or the script has still
to clear, and thereby to join, that callback (`Serves`, `Joins`). So a script that
has a channel on its list to clear while a worker bears it (`Bears`) always
joins the worker's connection first (`TodoOK`); after the join nobody bears
the channel, its own callbacks are cleared, and when its deletion is at the head
of the list it is `Quiet`. `ScriptOK` carries this through the sweeps that draw
up the list, `WorkerOK` through the callback, and `ObjectsOK` says that tables,
orphans and threads hold objects of their kind and no two threads one channel.
`dcx_channel_free` joins no connection: it is the exception in `QuietDelete`,
and `ClearedBeforeDelete` its counterexample. TLC has checked `QuietInv` on the
instance of `shim_lifecycle`.

`AccountInv` is the queue's: `QueueAccounts` and `ShedAccounted` with what they
rest on. `CarryInv` says what a callback may carry, which is what an event may
cost (a channel's callback never reports the state of a connection: `QuietInv`
knows what is wired on which object); `BacklogInv` that the queue never holds
the drain's own report, so delivering an event counts nothing as told. A step does
one of six things to the queue (`QueueMoves`), of which only accepting an event,
popping one, reporting and resetting touch an account. The sums themselves are
`SumTheorems`: the library's `SumFunction` is a recursive function over subsets,
and an induction stated with sets in place of a predicate (`SubsetInduction`: a
family of subsets that has the empty one and grows with every element has them
all) gives its value when an element is added or taken away.

`ShadowInv` says of every shadow that some object is mapped to its peer
(`OnMap`) and that, while nothing has been shed, it is the newest report of its
kind about its peer in the log and the queue together (`Newest`). A callback
refreshes the shadow and queues its event in one locked section; delivery moves
the event from queue to log, which `Newest` does not see; and a discarded event
is no report about a shadowed peer, because that peer is live. It holds across a
wrap too: `dcx_peer_free` erases the shadow in the section that bumps the
generation, so a handle that has come round has none until its own first report.

The enetxt proofs are a chain of four invariants, each using those before it.
`CoreInv` is about tables, slots and backlinks: every ENet host has one owner, a
live peer handle is in the slot that names it, and a slot names no dead handle.
Its steps are the changes a table can undergo (one handle born, one freed, an
object replaced, or many freed at once in the order `collect_live` lists them)
together with what each does to the slots. `LineInv` is about one enPoll: what it
has collected is of the one live host it polls, nothing else is left to be heard,
and the entry it asks room for is the one stashed, so a retry always succeeds.
`NumberInv` numbers what is ahead of the app: the events returned, being
collected and stashed, one after another, are those between the last one heard
and the last one ENet gave up. It needs that a host's handle is never given
out again, since the numbers are kept by handle. `StoryInv` has, for each peer
handle, what was told (`Sound`), what is pending and whether it may be told when
its turn comes (`EventOK`), how two pending events of one peer are ordered
(`PairOK`), and what this says of its slot while it is live and of its goodbye
when it is not (`LiveOK`, `DeadOK`). For it the steps of the pump are sorted into
seven kinds by what they do to stories and pending events (`QuietStep` to
`HearStep`), and each kind has one lemma about the peer it concerns and one about
all the others.

`HandInv` is the inductive invariant of a hand. To the first four of
these properties it adds what ties the blinds phase to the betting: the small and the big blind are
two different seats; until the big blind is in, no street holds more than the
small blind, none at all before that is posted, and the big blind's seat nothing;
and the least raise (`raiseFull`) is at least the big blind. Without these
the post that opens the betting at the big blind could leave a seat above the bet.
Each operator of the engine (`PayDead`, `Pay`, `Cleared`, the closing of a
street, each verb) has a lemma that it keeps the parts of `HandInv`, and a step
of the hand cites the lemmas of the operators it is made of.

`EvenInv` adds the money of the streets that are closed. Some base is what every
seat that can still bet had put in before the open street, and no seat in the hand
had put in more; while blinds are posted the base is the ante, seat by seat as it
is posted, or whatever a seat with less was all-in for. A payment in the street
moves both sides; a street closes when nobody is pending, so that everybody who
can still bet is exactly at the bet, and base and bet together are the next base.

`SettlementFair` needs no step of the hand, only arithmetic about `SettleOf`, which
is a sum over the levels of what each layer pays a seat. Three facts carry it. The
slices one seat puts into the layers up to a level telescope (`ContribsUpTo`, by
induction on the level), so that into the layers another seat reaches it puts
exactly what it matches of that seat's commitment. A layer is paid out whole
(`LayerIsPaid`): the places of its winners, counted clockwise, are 0, 1, 2 and so
on, each of one winner (`PlacesAreDistinct`), so as many of them get an odd chip as
there are odd chips. And the sums over seats and over levels may be taken in
either order (`SumSwap`). What all seats are paid is then what all put in; what
one is paid is at most what the layers it reaches hold, and all of it when nobody
in the hand ranks as high.

`MirrorInv` says of every line of commits that is or may become the repository's,
that is of `repo` and of each line a run has prepared and not pushed yet, what
`MirrorsSuite` says of the first: a published commit holds the tree of the state
of main it names, and between commits nobody copied marks only go forward. A
push that is a fast-forward then makes a sound line the repository's own, however
old the fetch it rests on; one that is not changes nothing. What a run prepares
is sound because its replay starts after the watermark, and the watermark is the
newest mark there (`PlanSound`); everything else appends a commit to a line
(`AppendSound`), takes some away (`PrefixSound`) or adds to main (`MainGrows`).

`PushInv` says where the member's patches are from. A state of main holds one only
if it has been ported by then (`StatesKnown`). On the repository's line one appears
with its own commit or with a later merge that brings it, or main has ported it, or
nobody made it there: it is in a copy (`LineKnown`). A run that waits to push
keeps what it found (`JobSafe`): the line it fetched was in order or the owner named the
member (`Judged`), its commits follow every state they may continue (`Resumed`), and
the repository has gone on from the line it fetched or has left it for good
(`Kept`), for a merge that replaces the default branch begins with a commit of its
own. So a push that is a fast-forward meets one of two lines (`PushKeeps`). It is the
fetched one, and then a patch in its newest tree is in the published state that the
watermark names, or is one of the commits that were found ported, or came between the
two without a commit of the member's, which is `OffTheLine`. Or another run has
pushed the beginning of the same commits meanwhile, and then the newest tree is a
state of main not newer than the target. TLC has checked `PushInv` on the instance
of the run and with two strays.

`OneRunSettles` is about what a run would do, so it needs facts about `Plan` rather
than about steps. `MirrorInv` makes the watermark name a state of main (`MarkHeld`).
From a state that is not the newest the tree changes somewhere on the way, so
`replay()` makes a commit (`ReplayGoes`), and what it makes up to an older state is
the beginning of what it makes up to a newer one (`ReplayPrefix`: the ranks of the
older changes do not move). What was found ported at an older state is ported at the
newest, so a run that would not have refused then does not refuse now
(`NewestCovers`). That the push leaves the newest state on top is `TypeOK`, and that its
commit carries a mark is `PushInv` (`NewestPublishes`).

The publisher's `FlattenSeq` and `FoldLeft` are functions the library defines by
recursion on a length and on a set. What they compute is beyond the prover, but not
what every solution of their equations has: `FlattensExist` and `PortsExist` build
the function step by step, and `FlattenType`, `FlattenRange`, `PortType` and `PortAdds` say of any such
function what types it has and where its elements come from.

`IInv`, the inductive invariant of the relay client, is a conjunction over the
relays. To `Contract` and `TypeOK` it adds what the stack says of a relay's past
(`FailInv`: a failure in progress is the only one, and its "error" was the last
thing told; a handle not given out yet has no history), and what is waiting to be
handled (`BufferInv`, `PageInv`: the answer to the upgrade, or the page's "open",
is at the head of its queue exactly while the relay still waits for it). Without
the latter a "message" could be told before "open". Most of a step's proof is that
it leaves the other relays alone: `Alone` names what that takes, `Same` and
`PolledIn` what a pushed or popped frame may change, and `Carries` what a handler
that has work left puts back. TLC has checked `IInv` on the instance of the run.

The theorems hold for every number of slots, generations, threads, objects and
callbacks, for all caps and sizes, under the assumptions the modules name
(`HandleTableAssumption`, `LifetimesAssumption`, `ShimAssumption`,
`KindsAssumption`): natural bounds, caps of at least one, and threads that are
distinct from `Script` and `Nobody`. Those about a hand hold for every finite set
of seats, all positive stacks and all stakes under `HandAssumption` (section 4);
those about the relay client for every number of relays, items and nested
callbacks and every batch under `RelayAssumption`; those about the publisher for
every number of runs, patches and commits under `PublishAssumption` (main begins with
two commits, so it has room for them; the absence of a tree is no tree; and a patch
is developed in the suite, committed by the member or made by a merge, but only one
of these); those about enetxt for every number of hosts, slots, initialisations, connections, packets
and starts, and all sizes, under `EnetAssumption`.
`HandleTableLemmas` states once what `Alloc`, `Free` and `Put` do to a table;
the proof modules of the tables and of both shims cite it. `SumTheorems` does the
same for sums, for the queue and for the settlement.

Only model-checked: every liveness property (fairness and `ENABLED` are out of
the prover's reach). Every invariant and every safety property over steps that a
passing run checks is also proved, those marked (+) while no generation wraps.

## 11. Not modelled, and why

* In the shim: calls that only forward to libdatachannel (sending, descriptions,
  candidates, buffered amounts, addresses), which change nothing here; the
  last-error text; `DCX_TEST_SEAMS` and the test hooks; allocation failures,
  which the callbacks' catch-all blocks swallow; entry and body lengths that
  wrap at 16 bits, unreachable with the shipped limits.
* `datachannel_web.cpp`, the browser port: single-threaded.
* In enetxt: sends, broadcasts, bandwidth and timeout tuning, addresses and
  counters, which change none of the shim's state; the record encoding; and
  exceptions inside the shim. A handler that throws is caught
  (`enetPollOnce`), and is here one that returns.
* In the publisher: dry runs and `--check-push`, which write nothing; the
  per-member build lanes the workflow waits for; several members in one run
  (each is published on its own, a refused one does not stop the next); the
  texts of commits.
* In the relay client: the verbs that send, subscriptions, pings and pongs, the
  assembly of fragments and the texts of messages.
* torrentxt, onionxt, riptide and nocloud are not modelled yet; the first two are
  in the plan.
* In holde-em: the cards (shuffle, commitments, ranking of hands) are bytes and
  tables; the pacing and the screens of the local table, the signed transcript
  and the online table around the engine are in the plan. The binding of an act
  to its turn (`heActTurnOk`) belongs to those: `BettingHand` keeps the counter
  `actN` it compares, and takes any act the engine takes.
* The cryptographic and numeric libraries (nostrxt's events, coinxt, sodiumxt,
  box2dxt): their behaviour is in bytes and arithmetic that TLC cannot
  enumerate and that known-answer tests cover.
* User interfaces, the launcher, the repository's own tools and tests.

## 12. Plan

In order; each module comes with its MC configuration, mutants and, where noted,
proofs.

1. **HotseatTable**, over `BettingHand`'s operators: several hands in a row at
   the local table, with its phases (`idle`, `hand`, `reveal`, `runout`,
   `showdown`, `between`), its paced beats (`heRevealStep`, `heRunoutStep`,
   `heSettleStep`, `heNextHandTick`, `heBotTick`) and the actions that can
   intervene between two beats. Chips at the table are constant over hands, at
   most one beat is armed, the board matches the street, beats end, the big blind
   moves on. To be examined there: the comment at `heNetParkHotseat` and the
   `bots` flag, which `heTableCreate` and `heTableJoin` do not clear; and
   what the spec says of a blind charged twice when a player is eliminated.
2. **OnlineHand**: the engine behind wires that are in flight, with the posting
   latches, the turn binding (`heActTurnOk`), timeouts that race a late act, and
   a board wire that arrives after the street has moved on. Its abstract
   specification is `BettingHand`, by refinement.
3. **RpQueue** and the **alert pump** (torrentxt): the second implementation of
   the bounded queue, and the FIFO stash.
4. **OnionControl / OnionSocks**: one command in flight, dial deadlines.
5. **Transcript** (holde-em): host sequencing, gaps, replays.
