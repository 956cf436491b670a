-------------------------------- MODULE EnetShim --------------------------------
(***************************************************************************)
(* The native half of enetxt (enetxt/src/enet_shim.cpp) with the polling   *)
(* handler above it (enPoll in enet.lcb).  Everything runs on the engine's *)
(* one script thread, so a call is one step; enPoll, which services ENet   *)
(* until a buffer is full, takes several, and nothing else runs meanwhile. *)
(*                                                                         *)
(* ENet itself is external: it is modelled by the state of each peer slot  *)
(* the shim reads, the int the shim keeps in ENetPeer.data, and the events *)
(* enet_host_service may return in each state.  Sends and tuning calls     *)
(* change nothing the shim keeps and are left out, and so are calls on a   *)
(* stale handle, which return an error and change nothing.                 *)
(*                                                                         *)
(* An event is [type, host, peer, size, no]; peer is NoHandle for the 0 of *)
(* a connection that got no handle, and no numbers the events of one host  *)
(* in the order ENet gave them up.                                         *)
(*                                                                         *)
(* A definition marked "Planted bug" is not part of the model: it is a     *)
(* variant of the next definition that a property must refute.             *)
(***************************************************************************)
EXTENDS HandleTable, FiniteSets

CONSTANTS
    HostIds,       \* bound: the ENet hosts ever created, 1 .. n
    PeerSlots,     \* the peer slots of a host: 1 .. maxPeers
    Sizes,         \* the entry sizes of received packets
    MAX_MESSAGE,   \* the largest entry size under ENX_MAX_MESSAGE
    CtlSize,       \* the entry size of any other event
    DrainCap,      \* kDrainCap, less the 2-byte count
    MaxTries,      \* the retries of enPoll (4)
    MaxInits,      \* bound: initialize calls outstanding
    MaxConns,      \* bound: connections begun
    MaxRecvs       \* bound: packets received

Events == [type : {"CONNECT", "RECEIVE", "ERROR", "DISCONNECT"}, host : Handles,
           peer : Handles \cup {NoHandle}, size : Sizes \cup {CtlSize}, no : Nat]

\* What the tables hold: HostState, whose stash holds one event or none, and
\* PeerRef.
HostObjects == [id : HostIds, stash : Seq(Events)]
PeerObjects == [id : HostIds, slot : PeerSlots, host : Handles]

ASSUME EnetAssumption ==
    /\ HostIds \subseteq Nat
    /\ PeerSlots \subseteq Nat
    /\ Sizes \subseteq Nat \ {0}
    /\ MAX_MESSAGE \in Nat
    /\ CtlSize \in Nat \ {0}
    /\ DrainCap \in Nat
    /\ MaxTries \in Nat
    /\ MaxInits \in Nat
    /\ MaxConns \in Nat
    /\ Null \notin HostObjects \cup PeerObjects

VARIABLES
    inits,      \* g_init_count
    hosts,      \* g_hosts: a table of [id, stash]; stash holds at most one event
    peers,      \* g_peers: a table of [id, slot, host]
    enet,       \* each ENet host's peer slots: [st, data] (external)
    up,         \* the ENet hosts that exist (external)
    poll,       \* the enPoll that is running, and its locals
    drainCap,   \* sDrainCap of enet.lcb
    list,       \* the events enPoll has returned that the app has not heard
    made,       \* ENet hosts created so far (bound)
    conns,      \* connections begun so far (bound)
    recvs,      \* packets received so far (bound)
    serviced,   \* how many events of each host ENet has given up (history)
    heard,      \* the number of the last event of each host heard (history)
    story,      \* what the app has heard of each peer handle (history)
    gone        \* peers the app has let go of or silenced itself (history)

tables == <<inits, hosts, peers, enet, up>>
bounds == <<made, conns, recvs>>
history == <<serviced, heard, story, gone>>
shimVars == <<tables, poll, drainCap, list, bounds, history>>

SlotFree == [st |-> "disconnected", data |-> NoHandle]
AllSlotsFree == [s \in PeerSlots |-> SlotFree]

\* used: the bytes of out.  need: what an entry that fits nothing asks for.
PollOff == [pc |-> "off", host |-> NoHandle, used |-> 0, need |-> 0, tries |-> 0, out |-> <<>>]

Init ==
    /\ inits = 0
    /\ hosts = EmptyTable
    /\ peers = EmptyTable
    /\ enet = [i \in HostIds |-> AllSlotsFree]
    /\ up = {}
    /\ poll = PollOff
    /\ drainCap = DrainCap
    /\ list = <<>>
    /\ made = 0 /\ conns = 0 /\ recvs = 0
    /\ serviced = [h \in Handles |-> 0]
    /\ heard = [h \in Handles |-> 0]
    /\ story = [p \in Handles |-> <<>>]
    /\ gone = {}

\* The peer handles the app has been given, by enConnect or in an event.
Known == {p \in Handles : story[p] # <<>>}

\* The app is told this of a handle; there is nothing to tell of handle 0.
Tell(p, what) ==
    story' = IF p = NoHandle THEN story ELSE [story EXCEPT ![p] = Append(@, what)]

\* ------------------------------------------------------------- retirement

\* The k-th smallest of these slots.
Nth(idxs, k) == CHOOSE i \in idxs : Cardinality({j \in idxs : j < i}) = k - 1

\* free() of each of these live handles, in the order collect_live lists them.
FreeAll(t, hs) ==
    LET idxs == {h.idx : h \in hs} IN
    [gen  |-> [i \in Slots |-> IF i \in idxs THEN BumpGen(t.gen[i]) ELSE t.gen[i]],
     obj  |-> [i \in Slots |-> IF i \in idxs THEN Null ELSE t.obj[i]],
     size |-> t.size,
     free |-> t.free \o [k \in 1 .. Cardinality(idxs) |-> Nth(idxs, k)],
     live |-> t.live - Cardinality(idxs)]

\* The peers whose hostHandle is one of these.
Riding(hs) == {p \in LiveHandles(peers) : Get(peers, p).host \in hs}

\* retire_peer: clear the backlink if it is this handle's, free the slot.
Unlinked(i, s, p) == IF enet[i][s].data = p THEN NoHandle ELSE enet[i][s].data

\* ENet leaves slot s of host i in state st, and the shim retires its handle p.
RetireAs(i, s, p, st) ==
    /\ enet' = [enet EXCEPT ![i][s] = [st |-> st, data |-> Unlinked(i, s, p)]]
    /\ peers' = Free(peers, p)

\* ------------------------------------------------ calls the app may make

Initialize ==
    /\ inits < MaxInits
    /\ inits' = inits + 1
    /\ UNCHANGED <<hosts, peers, enet, up, poll, drainCap, list, bounds, history>>

\* The peers a host's stash names: destroying the host silences them.
StashedOf(h) == LET stash == Get(hosts, h).stash IN {stash[k].peer : k \in DOMAIN stash}

\* Destroying hosts retires every peer riding them; their sockets close.
Teardown(hs) ==
    LET ids == {Get(hosts, h).id : h \in hs} IN
    /\ peers' = FreeAll(peers, Riding(hs))
    /\ hosts' = FreeAll(hosts, hs)
    /\ up' = up \ ids
    /\ enet' = [i \in HostIds |-> IF i \in ids THEN AllSlotsFree ELSE enet[i]]
    /\ gone' = gone \cup Riding(hs) \cup UNION {StashedOf(h) : h \in hs}

\* Planted bug: the count is taken below zero.
OneFewerAlways(n) == n > -1
Outstanding(n) == n > 0

\* enx_deinitialize: the last one destroys every host the app still holds.
Deinitialize ==
    /\ Outstanding(inits)
    /\ inits' = inits - 1
    /\ IF inits = 1 THEN Teardown(LiveHandles(hosts))
                    ELSE UNCHANGED <<hosts, peers, enet, up, gone>>
    /\ UNCHANGED <<poll, drainCap, list, bounds, serviced, heard, story>>

\* host_create_common.  From a full table the new ENet host is destroyed
\* again and nothing has changed.
HostCreate ==
    LET i == made + 1 IN
    /\ inits > 0
    /\ i \in HostIds
    /\ CanAlloc(hosts)
    /\ made' = i
    /\ up' = up \cup {i}
    /\ hosts' = Alloc(hosts, [id |-> i, stash |-> <<>>])
    /\ UNCHANGED <<inits, peers, enet, poll, drainCap, list, conns, recvs, history>>

HostDestroy(h) ==
    /\ IsLive(hosts, h)
    /\ Teardown({h})
    /\ UNCHANGED <<inits, poll, drainCap, list, bounds, serviced, heard, story>>

\* The slot ENet gives a new connection: its first disconnected one.
IsFirstFree(i, s) ==
    /\ enet[i][s].st = "disconnected"
    /\ \A r \in PeerSlots : r < s => enet[i][r].st # "disconnected"

\* enx_connect: the handle is born before anything is known of the far side.
\* From a full table the ENet peer is reset again and nothing has changed.
Connect(h) ==
    LET i == Get(hosts, h).id
        p == AllocHandle(peers)
    IN
    /\ IsLive(hosts, h)
    /\ conns < MaxConns
    /\ CanAlloc(peers)
    /\ \E s \in PeerSlots :
         /\ IsFirstFree(i, s)
         /\ peers' = Alloc(peers, [id |-> i, slot |-> s, host |-> h])
         /\ enet' = [enet EXCEPT ![i][s] = [st |-> "connecting", data |-> p]]
    /\ conns' = conns + 1
    /\ Tell(p, "BORN")
    /\ UNCHANGED <<inits, hosts, up, poll, drainCap, list, made, recvs, serviced, heard, gone>>

\* enet_peer_disconnect (external): an event is owed from a connected peer
\* only; one that is still connecting is reset without one.
AfterDisconnect(st) ==
    CASE st = "connected" -> "disconnecting"
      [] st = "connecting" -> "disconnected"
      [] OTHER -> st

\* Planted bug: the handle is left for an event that may never come.
NothingOwedNever(st) == FALSE
NothingOwed(st) == st = "disconnected"

\* enx_disconnect retires the handle when ENet owes it no event.
Disconnect(p) ==
    LET o == Get(peers, p)
        st == AfterDisconnect(enet[o.id][o.slot].st)
    IN
    /\ IsLive(peers, p)
    /\ IF NothingOwed(st)
       THEN RetireAs(o.id, o.slot, p, st) /\ gone' = gone \cup {p}
       ELSE /\ enet' = [enet EXCEPT ![o.id][o.slot].st = st]
            /\ UNCHANGED <<peers, gone>>
    /\ UNCHANGED <<inits, hosts, up, poll, drainCap, list, bounds, serviced, heard, story>>

\* enx_disconnect_now and enx_reset_peer: event-less, so retired at once.
Abort(p) ==
    LET o == Get(peers, p) IN
    /\ IsLive(peers, p)
    /\ RetireAs(o.id, o.slot, p, "disconnected")
    /\ gone' = gone \cup {p}
    /\ UNCHANGED <<inits, hosts, up, poll, drainCap, list, bounds, serviced, heard, story>>

\* ----------------------------------------------------------------- enPoll

Polling == poll.pc # "off"

\* enx_poll, up to its loop: the stash goes first, or is too big and stays.
EnterWith(h, cap, tries) ==
    LET o == Get(hosts, h) IN
    CASE ~IsLive(hosts, h) ->
           /\ poll' = [PollOff EXCEPT !.pc = "full"]
           /\ UNCHANGED hosts
      [] IsLive(hosts, h) /\ o.stash = <<>> ->
           /\ poll' = [PollOff EXCEPT !.pc = "pump", !.host = h, !.tries = tries]
           /\ UNCHANGED hosts
      [] IsLive(hosts, h) /\ o.stash # <<>> /\ o.stash[1].size <= cap ->
           /\ poll' = [PollOff EXCEPT !.pc = "pump", !.host = h, !.tries = tries,
                                      !.used = o.stash[1].size, !.out = o.stash]
           /\ hosts' = Put(hosts, h, [o EXCEPT !.stash = <<>>])
      [] OTHER ->
           /\ poll' = [PollOff EXCEPT !.pc = "grow", !.host = h, !.tries = tries,
                                      !.need = o.stash[1].size]
           /\ UNCHANGED hosts

PollBegin(h) ==
    /\ ~Polling
    /\ list = <<>>
    /\ EnterWith(h, drainCap, 0)
    /\ UNCHANGED <<inits, peers, enet, up, drainCap, list, bounds, history>>

\* enPoll grows its buffer to what was asked for and polls again.
PollGrow ==
    /\ poll.pc = "grow"
    /\ poll.tries < MaxTries
    /\ drainCap' = IF drainCap < poll.need THEN poll.need ELSE drainCap
    /\ EnterWith(poll.host, drainCap', poll.tries + 1)
    /\ UNCHANGED <<inits, peers, enet, up, list, bounds, history>>

\* The shim stops pumping, or ENet has nothing more to report now.
PollReturn ==
    /\ Polling
    /\ poll.pc = "grow" => poll.tries >= MaxTries
    /\ list' = poll.out
    /\ poll' = PollOff
    /\ UNCHANGED <<tables, drainCap, bounds, history>>

\* Planted bug: pumping goes on past an event that does not fit.
PumpsOn(out) == "pump"
Stops(out) == IF out = <<>> THEN "grow" ELSE "full"

\* The event is written if it fits and goes into the one-slot stash if not.
WriteOrStash(e) ==
    IF poll.used + e.size <= drainCap
    THEN /\ poll' = [poll EXCEPT !.out = Append(@, e), !.used = @ + e.size]
         /\ UNCHANGED hosts
    ELSE /\ poll' = [poll EXCEPT !.pc = Stops(poll.out), !.need = e.size]
         /\ hosts' = Put(hosts, poll.host, [Get(hosts, poll.host) EXCEPT !.stash = <<e>>])

Serviced(e) ==
    /\ serviced' = [serviced EXCEPT ![e.host] = e.no]
    /\ WriteOrStash(e)
    /\ UNCHANGED <<inits, up, drainCap, list, made, heard, story, gone>>

\* The event ENet gives up next, of the host being pumped.
Event(type, p, n) ==
    [type |-> type, host |-> poll.host, peer |-> p, size |-> n, no |-> serviced[poll.host] + 1]

\* The ENet host being pumped.
Pumped(i) == poll.pc = "pump" /\ Get(hosts, poll.host).id = i

\* A connection comes up: one the app began, or an incoming one, whose handle
\* is born in the event that announces it.  A full table has none to give.
ServiceConnect(i, s) ==
    LET mine == enet[i][s].st = "connecting"
        p == IF mine THEN enet[i][s].data ELSE AllocHandle(peers)
    IN
    /\ Pumped(i)
    /\ mine \/ (IsFirstFree(i, s) /\ conns < MaxConns)
    /\ conns' = IF mine THEN conns ELSE conns + 1
    /\ peers' = IF mine THEN peers
                ELSE Alloc(peers, [id |-> i, slot |-> s, host |-> poll.host])
    /\ enet' = [enet EXCEPT ![i][s] = [st |-> "connected", data |-> p]]
    /\ Serviced(Event("CONNECT", p, CtlSize))
    /\ UNCHANGED recvs

\* A packet; one over the budget is dropped whole and becomes an error.
ServiceReceive(i, s, n) ==
    LET p == enet[i][s].data IN
    /\ Pumped(i)
    /\ enet[i][s].st = "connected"
    /\ recvs < MaxRecvs
    /\ recvs' = recvs + 1
    /\ Serviced(IF n > MAX_MESSAGE THEN Event("ERROR", p, CtlSize)
                                   ELSE Event("RECEIVE", p, n))
    /\ UNCHANGED <<peers, enet, made, conns>>

\* Planted bug: the handle is retired only when its event is written.
RetireIfWritten(p, e) == IF poll.used + e.size <= drainCap THEN p ELSE NoHandle
ToRetire(p, e) == p

\* A connection fails, is refused, times out, or has ended.  ENet has already
\* reset the slot; written or stashed, the handle retires now.
ServiceDisconnect(i, s) ==
    LET p == enet[i][s].data
        e == Event("DISCONNECT", p, CtlSize)
    IN
    /\ Pumped(i)
    /\ enet[i][s].st # "disconnected"
    /\ RetireAs(i, s, ToRetire(p, e), "disconnected")
    /\ Serviced(e)
    /\ UNCHANGED <<conns, recvs>>

\* While ENet is serviced it may learn that a peer leaves, and owe the event.
PeerLeaves(i, s) ==
    /\ Pumped(i)
    /\ enet[i][s].st \in {"connecting", "connected"}
    /\ enet' = [enet EXCEPT ![i][s].st = "leaving"]
    /\ UNCHANGED <<inits, hosts, peers, up, poll, drainCap, list, bounds, history>>

Calls ==
    \/ Initialize
    \/ Deinitialize
    \/ HostCreate
    \/ \E h \in LiveHandles(hosts) : HostDestroy(h) \/ Connect(h)
    \/ \E p \in Known \cap LiveHandles(peers) : Disconnect(p) \/ Abort(p)

Pump ==
    \/ PollGrow
    \/ PollReturn
    \/ \E i \in HostIds, s \in PeerSlots :
         \/ ServiceConnect(i, s)
         \/ \E n \in Sizes : ServiceReceive(i, s, n)
         \/ ServiceDisconnect(i, s)
         \/ PeerLeaves(i, s)
================================================================================
