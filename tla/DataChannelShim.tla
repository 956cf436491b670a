---------------------------- MODULE DataChannelShim ----------------------------
(***************************************************************************)
(* The native half of datachannelxt (datachannelxt/src/datachannel_shim.cpp)*)
(* with the polling handler above it (dcPoll in datachannel.lcb): one      *)
(* script thread, the worker threads of libdatachannel whose callbacks     *)
(* enqueue events, and the one mutex g_mu between them.                    *)
(*                                                                         *)
(* A locked section that the code leaves without looping is one step,      *)
(* taken while g_mu is free.  A locked section that loops (the sweeps of   *)
(* dcx_peer_free and dcx_cleanup, the drain of dcx_poll) takes g_mu, does  *)
(* one iteration per step and releases it.  Calls into libdatachannel are  *)
(* steps of their own, so that everything the code leaves unlocked is      *)
(* open to interleaving.                                                   *)
(*                                                                         *)
(* An event is [type, peer, chan, n]: n is the variable-length part (the   *)
(* payload or label size), the state reported, or the shed count.          *)
(*                                                                         *)
(* A definition marked "Planted bug" is not part of the model: it is a     *)
(* variant of the next definition that a property below must refute.       *)
(***************************************************************************)
EXTENDS HandleTable, FiniteSets, Functions

CONSTANTS
    Workers,          \* libdatachannel's callback threads
    Script,           \* the engine's one script thread
    Nobody,           \* the holder of a free mutex
    Kinds,            \* the callbacks this instance's library may fire
    Sizes,            \* payload and label sizes
    States,           \* the connection and gathering states it reports
    MAX_MESSAGE,      \* DCX_MAX_MESSAGE
    MaxQueueEvents,   \* g_maxQueueEvents
    MaxQueueBytes,    \* g_maxQueueBytes
    BaseCost,         \* sizeof(PendingEvent): the fixed part of cost()
    EntryHeader,      \* the fixed part of a drained entry on the wire
    DrainCap,         \* kDrainCap: the poll buffer's first size
    MaxRtcId,         \* bound: libdatachannel objects ever created
    MaxPeers,         \* bound: peer connections among them
    MaxFires          \* bound: callbacks fired

RtcIds == 1 .. MaxRtcId

\* What the tables hold: PeerState and ChannelState.
PeerObjects == [rtc : RtcIds]
ChannelObjects == [rtc : RtcIds, peer : Handles, announced : BOOLEAN]

ASSUME ShimAssumption ==
    /\ Script \notin Workers
    /\ Nobody \notin Workers \cup {Script}
    /\ Sizes \subseteq Nat
    /\ States \subseteq Nat
    /\ MAX_MESSAGE \in Nat
    /\ MaxQueueEvents \in Nat \ {0}
    /\ MaxQueueBytes \in Nat \ {0}
    /\ BaseCost \in Nat \ {0}
    /\ EntryHeader \in Nat \ {0}
    /\ DrainCap \in Nat
    /\ MaxRtcId \in Nat
    /\ Null \notin PeerObjects \cup ChannelObjects

VARIABLES
    mu,          \* g_mu: its holder
    peers,       \* g_peers: a table of [rtc]
    chans,       \* g_channels: a table of [rtc, peer, announced]
    rtcPeer,     \* g_rtcPeerToHandle
    rtcChan,     \* g_rtcChanToHandle
    shadow,      \* g_peerLastState and g_peerLastGathering
    orphans,     \* g_orphanChans
    queue,       \* g_queue
    queueBytes,  \* g_queueBytes
    dropped,     \* g_dropped
    drainCap,    \* sDrainCap of datachannel.lcb
    th,          \* where each thread is, and its locals
    rtc,         \* the objects libdatachannel holds (external)
    wired,       \* the callbacks installed on each object (external)
    fires,       \* callbacks fired so far (bound)
    log,         \* the events the script has received (history)
    known,       \* the channel handles the script has learned (history)
    gone,        \* the handles the script has freed (history)
    shed,        \* how many events enqueue_locked has shed (history)
    refused,     \* the one it shed last, until that is reported (history)
    forgotten    \* how many of them a cleanup forgot to report (history)

shimVars == <<peers, chans, rtcPeer, rtcChan, shadow, orphans>>
queueVars == <<queue, queueBytes, dropped, shed, refused, forgotten>>
rtcVars == <<rtc, wired, fires>>
appVars == <<drainCap, log, known, gone>>
vars == <<mu, shimVars, queueVars, th, rtcVars, appVars>>

Threads == Workers \cup {Script}

\* The callbacks in the order the code sets and clears them.
PeerCallbacks == <<"E_LOCAL_DESCRIPTION", "E_LOCAL_CANDIDATE", "E_STATE_CHANGE",
                   "E_GATHERING_STATE", "DATA_CHANNEL">>
ChannelCallbacks == <<"E_CHANNEL_OPEN", "E_CHANNEL_CLOSED", "E_CHANNEL_ERROR",
                      "E_MESSAGE", "E_BUFFERED_LOW">>
ShadowKinds == {"E_STATE_CHANGE", "E_GATHERING_STATE"}

Elems(s) == {s[i] : i \in DOMAIN s}

CallbackNames == Elems(PeerCallbacks) \cup Elems(ChannelCallbacks)

ASSUME KindsAssumption == Kinds \subseteq CallbackNames

\* The first callback of a set in the order the code walks them.
FirstOf(ks, order) ==
    order[CHOOSE i \in DOMAIN order :
            /\ order[i] \in ks
            /\ \A j \in DOMAIN order : order[j] \in ks => i <= j]

WiredAtBirth(order) == (Elems(order) \cap Kinds) \ {"E_BUFFERED_LOW"}

\* ------------------------------------------------------------ the queue

VarBytes(e) ==
    IF e.type \in {"E_MESSAGE", "E_CHANNEL_INCOMING", "E_CHANNEL_ERROR",
                   "E_LOCAL_DESCRIPTION", "E_LOCAL_CANDIDATE"}
    THEN e.n ELSE 0

Cost(e) == BaseCost + VarBytes(e)
Wire(e) == EntryHeader + VarBytes(e)

Event(type, p, c, n) == [type |-> type, peer |-> p, chan |-> c, n |-> n]

\* enqueue_locked: tail-drop at either cap, counting what is shed.
\* Planted bug: room is asked for the largest event, not for this one.
OverfullAtMost(e) ==
    \/ Len(queue) >= MaxQueueEvents
    \/ \E n \in Sizes : queueBytes + BaseCost + n > MaxQueueBytes
Overfull(e) ==
    \/ Len(queue) >= MaxQueueEvents
    \/ queueBytes + Cost(e) > MaxQueueBytes

\* Planted bug: the shed event is not counted.
ShedUncounted == shed' = shed + 1 /\ UNCHANGED dropped
Shed == shed' = shed + 1 /\ dropped' = dropped + 1

Enqueue(e) ==
    IF Overfull(e)
    THEN Shed /\ refused' = e /\ UNCHANGED <<queue, queueBytes, forgotten>>
    ELSE /\ queue' = Append(queue, e)
         /\ queueBytes' = queueBytes + Cost(e)
         /\ UNCHANGED <<dropped, shed, refused, forgotten>>

\* Planted bug: the drain re-validates the peer of an event only.
DeliverablePeerOnly(e) == e.peer # NoHandle => Get(peers, e.peer) # Null

\* event_deliverable_locked
Deliverable(e) ==
    /\ e.peer # NoHandle => Get(peers, e.peer) # Null
    /\ e.chan # NoHandle => Get(chans, e.chan) # Null

\* ------------------------------------------------------------ threads

\* obj and kind: the callback's object and kind, or the entry point running.
\* dc, peer, chan, n: its locals.  ks: the callbacks still to set or clear.
\* dcs, pcs: the rtc ids a sweep collected.  todo: the rtc calls it owes.
\* used, again: the drain's cursor, and whether dcPoll already retried.
Idle == [pc |-> "idle", obj |-> 0, kind |-> "none", n |-> 0, dc |-> 0,
         peer |-> NoHandle, chan |-> NoHandle, ks |-> {},
         dcs |-> <<>>, pcs |-> <<>>, todo |-> <<>>, used |-> 0, again |-> FALSE]

\* The end of a locked section that loops.
\* Planted bug: g_mu stays locked.
StayLocked == UNCHANGED mu
Unlock == mu' = Nobody

At(t, label) == th[t].pc = label
Goto(t, label) == th' = [th EXCEPT ![t].pc = label]
Return(t) == th' = [th EXCEPT ![t] = Idle]

\* A worker is inside callback k of object id.
InFlight(id, k) ==
    \E w \in Workers : ~At(w, "idle") /\ th[w].obj = id /\ th[w].kind = k

InFlightOn(id) == \E k \in Kinds : InFlight(id, k)

\* g_rtcChanToHandle.erase(d)
\* Planted bug: the mapping stays.
StayPublished(d) == rtcChan
Unpublish(d) == [rtcChan EXCEPT ![d] = NoHandle]

NoMap == [i \in RtcIds |-> NoHandle]
NoShadow == [k \in ShadowKinds |-> <<>>]

\* unordered_map's m[h] = v and m.erase(h)
Assign(m, h, v) == [x \in DOMAIN m \cup {h} |-> IF x = h THEN v ELSE m[x]]
Erase(m, h) == [x \in DOMAIN m \ {h} |-> m[x]]

Init ==
    /\ mu = Nobody
    /\ peers = EmptyTable
    /\ chans = EmptyTable
    /\ rtcPeer = NoMap
    /\ rtcChan = NoMap
    /\ shadow = NoShadow
    /\ orphans = <<>>
    /\ queue = <<>>
    /\ queueBytes = 0
    /\ dropped = 0
    /\ drainCap = DrainCap
    /\ th = [t \in Threads |-> Idle]
    /\ rtc = [i \in RtcIds |-> [kind |-> "none", st |-> "none", pc |-> 0, told |-> {}]]
    /\ wired = [i \in RtcIds |-> {}]
    /\ fires = 0
    /\ log = <<>>
    /\ known = {}
    /\ gone = {}
    /\ shed = 0
    /\ refused = Null
    /\ forgotten = 0

\* ------------------------------------------ libdatachannel (external)

Exists(id) == rtc[id].kind # "none" /\ rtc[id].st # "deleted"
IsPc(id) == rtc[id].kind = "pc"
IsDc(id) == rtc[id].kind = "dc"

\* Ids are a monotonic counter: the next one is the first never used.
IsNewId(id) ==
    /\ rtc[id].kind = "none"
    /\ \A j \in RtcIds : j < id => rtc[j].kind # "none"

Object(kind, st, pc) == [kind |-> kind, st |-> st, pc |-> pc, told |-> {}]

\* A connection and its channels.
Family(p) == {p} \cup {i \in RtcIds : IsDc(i) /\ rtc[i].pc = p}

\* A channel's transport comes up, or its far side closes it.
RtcChannelOpens(d) ==
    /\ IsDc(d) /\ rtc[d].st = "new"
    /\ rtc[rtc[d].pc].st = "open"
    /\ rtc' = [rtc EXCEPT ![d].st = "open"]
    /\ UNCHANGED <<mu, shimVars, queueVars, th, wired, fires, appVars>>

RtcChannelCloses(d) ==
    /\ IsDc(d) /\ rtc[d].st = "open"
    /\ rtc' = [rtc EXCEPT ![d].st = "closed"]
    /\ UNCHANGED <<mu, shimVars, queueVars, th, wired, fires, appVars>>

\* What a callback may carry, and when the library may fire it.
Argument(k) ==
    CASE k \in {"E_MESSAGE", "E_CHANNEL_ERROR", "E_LOCAL_DESCRIPTION", "E_LOCAL_CANDIDATE"} -> Sizes
      [] k \in ShadowKinds -> States
      [] OTHER -> {0}

MayFire(id, k) ==
    CASE k = "E_CHANNEL_OPEN" -> rtc[id].st = "open" /\ k \notin rtc[id].told
      [] k = "E_CHANNEL_CLOSED" -> rtc[id].st = "closed" /\ k \notin rtc[id].told
      [] k = "E_MESSAGE" -> rtc[id].st = "open"
      [] OTHER -> TRUE

\* A channel opens once and closes once.
ToldOnce == {"E_CHANNEL_OPEN", "E_CHANNEL_CLOSED"}

\* A worker enters a callback.  One callback of one object is never entered
\* twice at the same time.
Fire(w, id, k) ==
    /\ At(w, "idle")
    /\ fires < MaxFires
    /\ Exists(id)
    /\ k \in wired[id] \ {"DATA_CHANNEL"}
    /\ ~InFlight(id, k)
    /\ MayFire(id, k)
    /\ fires' = fires + 1
    /\ \E n \in Argument(k) :
         th' = [th EXCEPT ![w] = [Idle EXCEPT !.pc = "body", !.obj = id, !.kind = k, !.n = n]]
    /\ rtc' = [rtc EXCEPT ![id].told = @ \cup ({k} \cap ToldOnce)]
    /\ UNCHANGED <<mu, shimVars, queueVars, wired, appVars>>

\* The far side opens a channel: it exists, often already open, before the
\* callback that announces it runs.  No far side knows of a connection that
\* dcx_peer_new has not yet returned to the app.
FireDataChannel(w, p, d) ==
    /\ At(w, "idle")
    /\ IsPc(p) /\ rtc[p].st = "open"
    /\ "DATA_CHANNEL" \in wired[p]
    /\ ~(At(Script, "pn_wire") /\ th[Script].obj = p)
    /\ ~InFlight(p, "DATA_CHANNEL")
    /\ IsNewId(d)
    /\ \E st \in {"new", "open"} : rtc' = [rtc EXCEPT ![d] = Object("dc", st, p)]
    /\ \E n \in Sizes :
         th' = [th EXCEPT ![w] = [Idle EXCEPT !.pc = "lookup", !.obj = p, !.dc = d,
                                              !.kind = "DATA_CHANNEL", !.n = n]]
    /\ UNCHANGED <<mu, shimVars, queueVars, wired, fires, appVars>>

\* ------------------------------------------------- callbacks (workers)

\* g_peerLastState and g_peerLastGathering, refreshed.
\* Planted bug: only the first report is kept.
FirstShadow(k, h, n) == IF h \in DOMAIN shadow[k] THEN shadow
                        ELSE [shadow EXCEPT ![k] = Assign(@, h, n)]
Refreshed(k, h, n) == [shadow EXCEPT ![k] = Assign(@, h, n)]

\* cb_local_description, cb_local_candidate, cb_state_change and
\* cb_gathering_state: translate the id, refresh the shadow, enqueue.
PeerCallback(w) ==
    LET c == th[w]
        h == rtcPeer[c.obj]
    IN
    /\ At(w, "body") /\ mu = Nobody
    /\ IsPc(c.obj)
    /\ IF h = NoHandle
       THEN UNCHANGED <<shadow, queueVars>>
       ELSE /\ Enqueue(Event(c.kind, h, NoHandle, c.n))
            /\ shadow' = IF c.kind \in ShadowKinds THEN Refreshed(c.kind, h, c.n) ELSE shadow
    /\ Return(w)
    /\ UNCHANGED <<mu, peers, chans, rtcPeer, rtcChan, orphans, rtcVars, appVars>>

\* openAnnounced dedupes the open between cb_channel_open and the already-open
\* check of register_channel.
\* Planted bug: it is not looked at.
MayAnnounceTwice(cs) == cs # Null
MayAnnounce(cs) == IF cs = Null THEN FALSE ELSE ~cs.announced

\* The announcement: made by exactly one of OpenCallback and AnnounceOpen.
Announce(h, cs, peer) ==
    IF MayAnnounce(cs)
    THEN /\ chans' = Put(chans, h, [cs EXCEPT !.announced = TRUE])
         /\ Enqueue(Event("E_CHANNEL_OPEN", peer, h, 0))
    ELSE UNCHANGED <<chans, queueVars>>

\* cb_channel_open
OpenCallback(w) ==
    LET c == th[w]
        h == rtcChan[c.obj]
        cs == Get(chans, h)
    IN
    /\ At(w, "body") /\ mu = Nobody
    /\ IsDc(c.obj) /\ c.kind = "E_CHANNEL_OPEN"
    /\ Announce(h, cs, IF cs = Null THEN NoHandle ELSE cs.peer)
    /\ Return(w)
    /\ UNCHANGED <<mu, peers, rtcPeer, rtcChan, shadow, orphans, rtcVars, appVars>>

\* cb_channel_closed, cb_channel_error, cb_message and cb_buffered_low.  An
\* oversized message is dropped whole and becomes an error event.
ChannelCallback(w) ==
    LET c == th[w]
        h == rtcChan[c.obj]
        cs == Get(chans, h)
        p == IF cs = Null THEN NoHandle ELSE cs.peer
        oversized == c.kind = "E_MESSAGE" /\ c.n > MAX_MESSAGE
    IN
    /\ At(w, "body") /\ mu = Nobody
    /\ IsDc(c.obj) /\ c.kind # "E_CHANNEL_OPEN"
    /\ IF h = NoHandle
       THEN UNCHANGED queueVars
       ELSE Enqueue(IF oversized THEN Event("E_CHANNEL_ERROR", p, h, 0)
                                 ELSE Event(c.kind, p, h, c.n))
    /\ Return(w)
    /\ UNCHANGED <<mu, shimVars, rtcVars, appVars>>

\* Planted bug: a channel for a peer already freed is returned bare.
LookupBare(w) ==
    LET h == rtcPeer[th[w].obj] IN
    /\ At(w, "lookup") /\ mu = Nobody
    /\ IF h = NoHandle THEN Return(w)
       ELSE th' = [th EXCEPT ![w].pc = "register", ![w].peer = h]
    /\ UNCHANGED <<mu, shimVars, queueVars, rtcVars, appVars>>

\* Planted bug: a peer that is gone is not noticed.
LookupUnchecked(w) ==
    /\ At(w, "lookup") /\ mu = Nobody
    /\ th' = [th EXCEPT ![w].pc = "register", ![w].peer = rtcPeer[th[w].obj]]
    /\ UNCHANGED <<mu, shimVars, queueVars, rtcVars, appVars>>

\* cb_data_channel, first locked section: which of our peers is this for?
Lookup(w) ==
    LET h == rtcPeer[th[w].obj] IN
    /\ At(w, "lookup") /\ mu = Nobody
    /\ th' = [th EXCEPT ![w].pc = IF h = NoHandle THEN "orphan" ELSE "register",
                        ![w].peer = h]
    /\ UNCHANGED <<mu, shimVars, queueVars, rtcVars, appVars>>

\* orphan_channel: park a channel nobody will own for the script thread.
Orphan(w) ==
    /\ At(w, "orphan") /\ mu = Nobody
    /\ orphans' = Append(orphans, th[w].dc)
    /\ Return(w)
    /\ UNCHANGED <<mu, peers, chans, rtcPeer, rtcChan, shadow, queueVars, rtcVars, appVars>>

\* Planted bug: the peer is not re-validated.
RevalidateNever(w) ==
    /\ At(w, "revalidate")
    /\ Return(w)
    /\ UNCHANGED <<mu, shimVars, queueVars, rtcVars, appVars>>

\* cb_data_channel, last locked section: the peer may have been freed since
\* Lookup, and its sweep cannot have seen a channel registered after it.
Revalidate(w) ==
    LET c == th[w]
        cs == Get(chans, c.chan)
    IN
    /\ At(w, "revalidate") /\ mu = Nobody
    /\ IF Get(peers, c.peer) # Null
       THEN UNCHANGED <<chans, rtcChan, orphans>>
       ELSE /\ rtcChan' = IF cs # Null THEN Unpublish(cs.rtc) ELSE rtcChan
            /\ chans' = Free(chans, c.chan)
            /\ orphans' = Append(orphans, c.dc)
    /\ Return(w)
    /\ UNCHANGED <<mu, peers, rtcPeer, shadow, queueVars, rtcVars, appVars>>

\* --------------------------- register_channel (a worker or the script)

\* announceIncoming: the callback's registrations are announced.
\* Planted bug: none is.
AnnouncesNothing(t) == FALSE
AnnouncesIncoming(t) == t # Script

\* The locked section: the handle, its mapping and, for a channel the far
\* side opened, E_CHANNEL_INCOMING are born together.
Register(t) ==
    LET c == th[t]
        h == AllocHandle(chans)
    IN
    /\ At(t, "register") /\ mu = Nobody
    /\ IF h = NoHandle
       THEN /\ Goto(t, IF t = Script THEN "refused" ELSE "orphan")
            /\ UNCHANGED <<chans, rtcChan, queueVars>>
       ELSE /\ chans' = Alloc(chans, [rtc |-> c.dc, peer |-> c.peer, announced |-> FALSE])
            /\ rtcChan' = [rtcChan EXCEPT ![c.dc] = h]
            /\ IF AnnouncesIncoming(t)
               THEN Enqueue(Event("E_CHANNEL_INCOMING", c.peer, h, c.n))
               ELSE UNCHANGED queueVars
            /\ th' = [th EXCEPT ![t].pc = "wire", ![t].chan = h,
                                ![t].ks = WiredAtBirth(ChannelCallbacks)]
    /\ UNCHANGED <<mu, peers, rtcPeer, shadow, orphans, rtcVars, appVars>>

\* One rtcSet...Callback call; a setter on a deleted id does nothing.
WireChannel(t) ==
    LET c == th[t]
        k == FirstOf(c.ks, ChannelCallbacks)
    IN
    /\ At(t, "wire")
    /\ IF c.ks = {}
       THEN Goto(t, "isopen") /\ UNCHANGED wired
       ELSE /\ th' = [th EXCEPT ![t].ks = @ \ {k}]
            /\ wired' = IF Exists(c.dc) THEN [wired EXCEPT ![c.dc] = @ \cup {k}] ELSE wired
    /\ UNCHANGED <<mu, shimVars, queueVars, rtc, fires, appVars>>

\* What follows register_channel: the worker re-validates, the script returns
\* the handle to the app.
Registered(t) ==
    IF t = Script
    THEN Return(t) /\ known' = known \cup {th[t].chan}
    ELSE Goto(t, "revalidate") /\ UNCHANGED known

\* rtcIsOpen: an open that came before the callback was wired is announced here.
CheckOpen(t) ==
    /\ At(t, "isopen")
    /\ IF rtc[th[t].dc].st = "open"
       THEN Goto(t, "announce") /\ UNCHANGED known
       ELSE Registered(t)
    /\ UNCHANGED <<mu, shimVars, queueVars, rtcVars, drainCap, log, gone>>

AnnounceOpen(t) ==
    LET c == th[t]
        cs == Get(chans, c.chan)
    IN
    /\ At(t, "announce") /\ mu = Nobody
    /\ Announce(c.chan, cs, c.peer)
    /\ Registered(t)
    /\ UNCHANGED <<mu, peers, rtcPeer, rtcChan, shadow, orphans, rtcVars, drainCap, log, gone>>

\* ------------------------------------------ entry points (the script)

\* dcx_peer_new: create, allocate and map, then wire the callbacks.
PeerNew(p) ==
    /\ At(Script, "idle")
    /\ IsNewId(p)
    /\ Cardinality({i \in RtcIds : IsPc(i)}) < MaxPeers
    /\ rtc' = [rtc EXCEPT ![p] = Object("pc", "open", 0)]
    /\ th' = [th EXCEPT ![Script].pc = "pn_alloc", ![Script].obj = p]
    /\ UNCHANGED <<mu, shimVars, queueVars, wired, fires, appVars>>

PeerAlloc ==
    LET c == th[Script]
        h == AllocHandle(peers)
    IN
    /\ At(Script, "pn_alloc") /\ mu = Nobody
    /\ IF h = NoHandle
       THEN /\ Goto(Script, "pn_refused")
            /\ UNCHANGED <<peers, rtcPeer>>
       ELSE /\ peers' = Alloc(peers, [rtc |-> c.obj])
            /\ rtcPeer' = [rtcPeer EXCEPT ![c.obj] = h]
            /\ th' = [th EXCEPT ![Script].pc = "pn_wire", ![Script].peer = h,
                                ![Script].ks = WiredAtBirth(PeerCallbacks)]
    /\ UNCHANGED <<mu, chans, rtcChan, shadow, orphans, queueVars, rtcVars, appVars>>

PeerRefused ==
    /\ At(Script, "pn_refused")
    /\ rtc' = [rtc EXCEPT ![th[Script].obj].st = "deleted"]
    /\ Return(Script)
    /\ UNCHANGED <<mu, shimVars, queueVars, wired, fires, appVars>>

WirePeer ==
    LET c == th[Script]
        k == FirstOf(c.ks, PeerCallbacks)
    IN
    /\ At(Script, "pn_wire")
    /\ IF c.ks = {}
       THEN Return(Script) /\ UNCHANGED wired
       ELSE /\ th' = [th EXCEPT ![Script].ks = @ \ {k}]
            /\ wired' = [wired EXCEPT ![c.obj] = @ \cup {k}]
    /\ UNCHANGED <<mu, shimVars, queueVars, rtc, fires, appVars>>

\* dcx_peer_close: the connection and its channels close; handles stay.
PeerClose(h) ==
    /\ At(Script, "idle") /\ mu = Nobody
    /\ Get(peers, h) # Null
    /\ LET p == Get(peers, h).rtc IN
       rtc' = [i \in RtcIds |-> IF i \in Family(p) /\ Exists(i)
                                THEN [rtc[i] EXCEPT !.st = "closed"] ELSE rtc[i]]
    /\ UNCHANGED <<mu, shimVars, queueVars, th, wired, fires, appVars>>

\* dcx_channel_new and dcx_channel_new_ex: a closed connection refuses.
ChannelNew(h, d) ==
    /\ At(Script, "idle") /\ mu = Nobody
    /\ Get(peers, h) # Null
    /\ LET p == Get(peers, h).rtc IN
       /\ rtc[p].st = "open"
       /\ IsNewId(d)
       /\ rtc' = [rtc EXCEPT ![d] = Object("dc", "new", p)]
    /\ th' = [th EXCEPT ![Script] = [Idle EXCEPT !.pc = "register", !.dc = d, !.peer = h]]
    /\ UNCHANGED <<mu, shimVars, queueVars, wired, fires, appVars>>

ChannelRefused ==
    /\ At(Script, "refused")
    /\ rtc' = [rtc EXCEPT ![th[Script].dc].st = "deleted"]
    /\ Return(Script)
    /\ UNCHANGED <<mu, shimVars, queueVars, wired, fires, appVars>>

\* dcx_channel_close
ChannelClose(h) ==
    /\ At(Script, "idle") /\ mu = Nobody
    /\ h \in known /\ Get(chans, h) # Null
    /\ LET d == Get(chans, h).rtc IN
       Exists(d) /\ rtc' = [rtc EXCEPT ![d].st = "closed"]
    /\ UNCHANGED <<mu, shimVars, queueVars, th, wired, fires, appVars>>

\* dcx_set_buffered_low_threshold wires the callback on first demand.
SetBufferedLow(h) ==
    /\ At(Script, "idle") /\ mu = Nobody
    /\ h \in known /\ Get(chans, h) # Null
    /\ "E_BUFFERED_LOW" \in Kinds
    /\ LET d == Get(chans, h).rtc IN
       Exists(d) /\ wired' = [wired EXCEPT ![d] = @ \cup {"E_BUFFERED_LOW"}]
    /\ UNCHANGED <<mu, shimVars, queueVars, th, rtc, fires, appVars>>

\* -------------------------------- teardown (the script, g_mu released)

Clear(ids) == [i \in DOMAIN ids |-> [op |-> "clear", id |-> ids[i]]]
Delete(ids) == [i \in DOMAIN ids |-> [op |-> "delete", id |-> ids[i]]]

\* Clear one, delete it, go on to the next.
ClearAndDelete(ids) ==
    [i \in 1 .. 2 * Len(ids) |-> [op |-> IF i % 2 = 1 THEN "clear" ELSE "delete",
                                  id |-> ids[(i + 1) \div 2]]]

Owes(op) == At(Script, "rtc") /\ th[Script].todo # <<>> /\ Head(th[Script].todo).op = op

\* One setter of clear_peer_callbacks or clear_channel_callbacks: it joins an
\* invocation of that callback already in flight.
ClearCallback ==
    LET c == th[Script]
        id == Head(c.todo).id
        order == IF IsPc(id) THEN PeerCallbacks ELSE ChannelCallbacks
        left == c.ks \cap Elems(order)
        k == FirstOf(left, order)
    IN
    /\ Owes("clear")
    /\ IF left = {}
       THEN /\ th' = [th EXCEPT ![Script].todo = Tail(@), ![Script].ks = Kinds]
            /\ UNCHANGED wired
       ELSE /\ ~InFlight(id, k)
            /\ th' = [th EXCEPT ![Script].ks = @ \ {k}]
            /\ wired' = [wired EXCEPT ![id] = @ \ {k}]
    /\ UNCHANGED <<mu, shimVars, queueVars, rtc, fires, appVars>>

\* rtcDelete...: waits for the object's callbacks in flight.  Deleting a
\* connection closes the channels that outlive it.
DeleteObject ==
    LET id == Head(th[Script].todo).id IN
    /\ Owes("delete")
    /\ ~InFlightOn(id)
    /\ rtc' = [i \in RtcIds |->
                 IF i = id THEN [rtc[i] EXCEPT !.st = "deleted"]
                 ELSE IF i \in Family(id) /\ Exists(i) THEN [rtc[i] EXCEPT !.st = "closed"]
                 ELSE rtc[i]]
    /\ wired' = [wired EXCEPT ![id] = {}]
    /\ th' = [th EXCEPT ![Script].todo = Tail(@)]
    /\ UNCHANGED <<mu, shimVars, queueVars, fires, appVars>>

\* rtcCleanup: erases any straggler, then joins the library's threads.
RtcCleanup ==
    /\ Owes("cleanup")
    /\ rtc' = [i \in RtcIds |-> IF Exists(i) THEN [rtc[i] EXCEPT !.st = "deleted"] ELSE rtc[i]]
    /\ wired' = [i \in RtcIds |-> {}]
    /\ th' = [th EXCEPT ![Script].todo = Tail(@)]
    /\ UNCHANGED <<mu, shimVars, queueVars, fires, appVars>>

RtcJoin ==
    /\ Owes("join")
    /\ \A w \in Workers : At(w, "idle")
    /\ th' = [th EXCEPT ![Script].todo = Tail(@)]
    /\ UNCHANGED <<mu, shimVars, queueVars, rtcVars, appVars>>

RtcDone ==
    /\ At(Script, "rtc") /\ th[Script].todo = <<>>
    /\ IF th[Script].kind = "poll" THEN Goto(Script, "drain_lock") ELSE Return(Script)
    /\ UNCHANGED <<mu, shimVars, queueVars, rtcVars, appVars>>

\* dcx_channel_free: unpublish under the lock, tear down outside it.
ChannelFree(h) ==
    LET d == Get(chans, h).rtc IN
    /\ At(Script, "idle") /\ mu = Nobody
    /\ h \in known /\ Get(chans, h) # Null
    /\ rtcChan' = Unpublish(d)
    /\ chans' = Free(chans, h)
    /\ gone' = gone \cup {<<"chan", h>>}
    /\ th' = [th EXCEPT ![Script] = [Idle EXCEPT !.pc = "rtc", !.kind = "channel_free", !.ks = Kinds,
                                                 !.todo = ClearAndDelete(<<d>>)]]
    /\ UNCHANGED <<mu, peers, rtcPeer, shadow, orphans, queueVars, rtcVars, drainCap, log, known>>

\* The live handle collect_live() lists first among those of a set.
FirstHandle(hs) == CHOOSE h \in hs : \A g \in hs : h.idx <= g.idx

ChannelsOf(p) == {h \in LiveHandles(chans) : Get(chans, h).peer = p}

\* dcx_peer_free: take g_mu, sweep the peer's channels one by one, unpublish
\* the peer, release g_mu, then do the blocking teardown.
PeerFreeLock(h) ==
    /\ At(Script, "idle") /\ mu = Nobody
    /\ Get(peers, h) # Null
    /\ mu' = Script
    /\ th' = [th EXCEPT ![Script] = [Idle EXCEPT !.pc = "pf_sweep", !.kind = "peer_free",
                                                 !.obj = Get(peers, h).rtc, !.peer = h]]
    /\ UNCHANGED <<shimVars, queueVars, rtcVars, appVars>>

PeerFreeSweep ==
    LET hs == ChannelsOf(th[Script].peer)
        h == FirstHandle(hs)
        d == Get(chans, h).rtc
    IN
    /\ At(Script, "pf_sweep")
    /\ hs # {}
    /\ th' = [th EXCEPT ![Script].dcs = Append(@, d)]
    /\ rtcChan' = Unpublish(d)
    /\ chans' = Free(chans, h)
    /\ gone' = gone \cup {<<"chan", h>>}
    /\ UNCHANGED <<mu, peers, rtcPeer, shadow, orphans, queueVars, rtcVars, drainCap, log, known>>

\* Planted bug: the connection is deleted with its callbacks wired.
WiredTeardown(p, ds) == ClearAndDelete(ds) \o Delete(<<p>>)
Teardown(p, ds) == Clear(<<p>>) \o ClearAndDelete(ds) \o Delete(<<p>>)

PeerFreeDone ==
    LET c == th[Script] IN
    /\ At(Script, "pf_sweep")
    /\ ChannelsOf(c.peer) = {}
    /\ rtcPeer' = [rtcPeer EXCEPT ![c.obj] = NoHandle]
    /\ shadow' = [k \in ShadowKinds |-> Erase(shadow[k], c.peer)]
    /\ peers' = Free(peers, c.peer)
    /\ gone' = gone \cup {<<"peer", c.peer>>}
    /\ Unlock
    /\ th' = [th EXCEPT ![Script].pc = "rtc", ![Script].ks = Kinds,
                        ![Script].todo = Teardown(c.obj, c.dcs)]
    /\ UNCHANGED <<chans, rtcChan, orphans, queueVars, rtcVars, drainCap, log, known>>

\* dcx_cleanup: snapshot and clear our world under g_mu, then tear down.
CleanupLock ==
    /\ At(Script, "idle") /\ mu = Nobody
    /\ mu' = Script
    /\ th' = [th EXCEPT ![Script].pc = "cl_sweep", ![Script].kind = "cleanup"]
    /\ UNCHANGED <<shimVars, queueVars, rtcVars, appVars>>

CleanupChannel ==
    LET h == FirstHandle(LiveHandles(chans)) IN
    /\ At(Script, "cl_sweep")
    /\ LiveHandles(chans) # {}
    /\ th' = [th EXCEPT ![Script].dcs = Append(@, Get(chans, h).rtc)]
    /\ chans' = Free(chans, h)
    /\ gone' = gone \cup {<<"chan", h>>}
    /\ UNCHANGED <<mu, peers, rtcPeer, rtcChan, shadow, orphans, queueVars, rtcVars, drainCap, log, known>>

CleanupPeer ==
    LET h == FirstHandle(LiveHandles(peers)) IN
    /\ At(Script, "cl_sweep")
    /\ LiveHandles(chans) = {} /\ LiveHandles(peers) # {}
    /\ th' = [th EXCEPT ![Script].pcs = Append(@, Get(peers, h).rtc)]
    /\ peers' = Free(peers, h)
    /\ gone' = gone \cup {<<"peer", h>>}
    /\ UNCHANGED <<mu, chans, rtcPeer, rtcChan, shadow, orphans, queueVars, rtcVars, drainCap, log, known>>

CleanupReset ==
    LET c == th[Script]
        dcs == c.dcs \o orphans
    IN
    /\ At(Script, "cl_sweep")
    /\ LiveHandles(chans) = {} /\ LiveHandles(peers) = {}
    /\ orphans' = <<>>
    /\ rtcPeer' = NoMap
    /\ rtcChan' = NoMap
    /\ shadow' = NoShadow
    /\ queue' = <<>>
    /\ queueBytes' = 0
    /\ dropped' = 0
    /\ forgotten' = forgotten + dropped
    /\ refused' = Null
    /\ Unlock
    /\ th' = [th EXCEPT ![Script].pc = "rtc", ![Script].ks = Kinds,
                        ![Script].todo = Clear(c.pcs) \o Clear(dcs) \o Delete(dcs) \o Delete(c.pcs)
                                           \o <<[op |-> "cleanup", id |-> 0], [op |-> "join", id |-> 0]>>]
    /\ UNCHANGED <<peers, chans, shed, rtcVars, appVars>>

\* ------------------------------------------------ the drain (the script)

\* Planted bug: the drain does not reap.
PollUnreaped(again) ==
    /\ mu = Nobody
    /\ th' = [th EXCEPT ![Script] = [Idle EXCEPT !.pc = "drain_lock", !.kind = "poll", !.again = again]]
    /\ UNCHANGED <<mu, shimVars, queueVars, rtcVars, appVars>>

\* reap_orphan_channels, at the start of every dcx_poll.
Poll(again) ==
    /\ mu = Nobody
    /\ th' = [th EXCEPT ![Script] = [Idle EXCEPT !.pc = "rtc", !.kind = "poll", !.ks = Kinds,
                                                 !.todo = ClearAndDelete(orphans), !.again = again]]
    /\ orphans' = <<>>
    /\ UNCHANGED <<mu, peers, chans, rtcPeer, rtcChan, shadow, queueVars, rtcVars, appVars>>

PollStart == At(Script, "idle") /\ Poll(FALSE)
PollRetry == At(Script, "retry") /\ Poll(TRUE)

\* The record's u16 count comes first.
DrainLock ==
    /\ At(Script, "drain_lock") /\ mu = Nobody
    /\ mu' = Script
    /\ th' = [th EXCEPT ![Script].pc = "drain", ![Script].used = 2]
    /\ UNCHANGED <<shimVars, queueVars, rtcVars, appVars>>

\* Planted bug: the byte account is not credited.
PopFrontUncredited ==
    /\ queue' = Tail(queue)
    /\ UNCHANGED queueBytes

PopFront ==
    /\ queue' = Tail(queue)
    /\ queueBytes' = queueBytes - Cost(Head(queue))

Fits(e) == th[Script].used + Wire(e) <= drainCap

\* An event that names a freed handle is discarded as it is met.
\* Planted bug: so is one that does not fit the app's buffer.
DrainDiscardUnfit ==
    /\ At(Script, "drain")
    /\ queue # <<>>
    /\ ~Deliverable(Head(queue)) \/ ~Fits(Head(queue))
    /\ PopFront
    /\ UNCHANGED <<mu, shimVars, dropped, shed, refused, forgotten, th, rtcVars, appVars>>
DrainDiscard ==
    /\ At(Script, "drain")
    /\ queue # <<>>
    /\ ~Deliverable(Head(queue))
    /\ PopFront
    /\ UNCHANGED <<mu, shimVars, dropped, shed, refused, forgotten, th, rtcVars, appVars>>

DrainDeliver ==
    LET e == Head(queue) IN
    /\ At(Script, "drain")
    /\ queue # <<>>
    /\ Deliverable(e) /\ Fits(e)
    /\ PopFront
    /\ log' = Append(log, e)
    /\ known' = IF e.type = "E_CHANNEL_INCOMING" THEN known \cup {e.chan} ELSE known
    /\ th' = [th EXCEPT ![Script].used = @ + Wire(e), ![Script].n = @ + 1]
    /\ UNCHANGED <<mu, shimVars, dropped, shed, refused, forgotten, rtcVars, drainCap, gone>>

EventReport(count) == Event("E_QUEUE_OVERFLOW", NoHandle, NoHandle, count)
OverflowReport == EventReport(dropped)

\* The shed count is owed once the backlog is gone.
OwesReport == queue = <<>> /\ dropped > 0

Reports == OwesReport /\ Fits(OverflowReport)

\* Not even one entry fitted: the caller must grow its buffer and retry.
\* Planted bug: it is told that nothing waits.
NeverShort == FALSE
Short == th[Script].n = 0 /\ ~Reports /\ (queue # <<>> \/ OwesReport)

Need == 2 + Wire(IF queue = <<>> THEN OverflowReport ELSE Head(queue))

\* The end of a pass.
DrainEnd ==
    /\ At(Script, "drain")
    /\ queue # <<>> => Deliverable(Head(queue)) /\ ~Fits(Head(queue))
    /\ Unlock
    /\ IF Reports
       THEN log' = Append(log, OverflowReport) /\ dropped' = 0 /\ refused' = Null
       ELSE UNCHANGED <<log, dropped, refused>>
    /\ IF Short /\ ~th[Script].again
       THEN /\ Goto(Script, "retry")
            /\ drainCap' = IF drainCap < Need THEN Need ELSE drainCap
       ELSE /\ Return(Script)
            /\ UNCHANGED drainCap
    /\ UNCHANGED <<shimVars, queue, queueBytes, shed, forgotten, rtcVars, known, gone>>

\* ------------------------------------------------------- specification

Library ==
    \/ \E d \in RtcIds : RtcChannelOpens(d) \/ RtcChannelCloses(d)
    \/ \E w \in Workers, id \in RtcIds, k \in Kinds : Fire(w, id, k)
    \/ \E w \in Workers, p, d \in RtcIds : FireDataChannel(w, p, d)

CallbackStep(w) ==
    \/ PeerCallback(w) \/ OpenCallback(w) \/ ChannelCallback(w)
    \/ Lookup(w) \/ Orphan(w) \/ Revalidate(w)
    \/ Register(w) \/ WireChannel(w) \/ CheckOpen(w) \/ AnnounceOpen(w)

\* What the app asks for.
Call ==
    \/ \E id \in RtcIds : PeerNew(id)
    \/ \E h \in LiveHandles(peers) :
         \/ PeerClose(h) \/ PeerFreeLock(h)
         \/ \E d \in RtcIds : ChannelNew(h, d)
    \/ \E h \in LiveHandles(chans) : ChannelClose(h) \/ SetBufferedLow(h) \/ ChannelFree(h)
    \/ CleanupLock

\* The rest of an entry point already running.
ScriptStep ==
    \/ PeerAlloc \/ PeerRefused \/ WirePeer
    \/ Register(Script) \/ WireChannel(Script) \/ CheckOpen(Script) \/ AnnounceOpen(Script)
    \/ ChannelRefused
    \/ ClearCallback \/ DeleteObject \/ RtcCleanup \/ RtcJoin \/ RtcDone
    \/ PeerFreeSweep \/ PeerFreeDone
    \/ CleanupChannel \/ CleanupPeer \/ CleanupReset
    \/ PollRetry \/ DrainLock \/ DrainDiscard \/ DrainDeliver \/ DrainEnd

Next ==
    \/ Library
    \/ \E w \in Workers : CallbackStep(w)
    \/ Call \/ PollStart \/ ScriptStep

Spec == Init /\ [][Next]_vars

\* The operating system runs every thread and g_mu starves none of them; the
\* app polls on a timer.
Fairness ==
    /\ \A w \in Workers : SF_vars(CallbackStep(w))
    /\ WF_vars(ScriptStep)
    /\ SF_vars(PollStart)

FairSpec == Spec /\ Fairness

\* -------------------------------------------------------- type invariant

Runs == {"none", "peer_free", "channel_free", "cleanup", "poll"}
AnyHandle == Handles \cup {NoHandle}
AnyRtcId == RtcIds \cup {0}

Events == [type : CallbackNames \cup {"E_CHANNEL_INCOMING", "E_QUEUE_OVERFLOW"},
           peer : AnyHandle, chan : AnyHandle, n : Nat]

Calls == [op : {"clear", "delete", "cleanup", "join"}, id : AnyRtcId]

\* The labels of a thread that creates a connection; of one with a channel in
\* its hands; and of one that knows which peer the channel is for.
PeerLabels == {"pn_alloc", "pn_refused", "pn_wire"}
RegisterLabels == {"register", "wire", "isopen", "announce", "revalidate"}
ChannelLabels == RegisterLabels \cup {"lookup", "orphan", "refused"}
LoopLabels == {"pf_sweep", "cl_sweep", "drain"}
Labels == PeerLabels \cup ChannelLabels \cup LoopLabels
            \cup {"idle", "body", "rtc", "drain_lock", "retry"}

Locals == [pc : Labels, obj : AnyRtcId, kind : CallbackNames \cup Runs, n : Nat,
           dc : AnyRtcId, peer : AnyHandle, chan : AnyHandle, ks : SUBSET CallbackNames,
           dcs : Seq(RtcIds), pcs : Seq(RtcIds), todo : Seq(Calls), used : Nat, again : BOOLEAN]

\* What a thread's locals hold where its code uses them.
ThreadStates ==
    {c \in Locals : /\ c.pc = "body" => c.kind \in CallbackNames
                    /\ c.pc \in PeerLabels \cup {"body", "lookup"} => c.obj \in RtcIds
                    /\ c.pc \in ChannelLabels => c.dc \in RtcIds
                    /\ c.pc \in RegisterLabels => c.peer \in Handles
                    /\ c.pc = "pn_wire" => c.ks \subseteq Elems(PeerCallbacks)
                    /\ c.pc = "wire" => c.ks \subseteq Elems(ChannelCallbacks)}

RtcObjects == [kind : {"none", "pc", "dc"}, st : {"none", "new", "open", "closed", "deleted"},
               pc : AnyRtcId, told : SUBSET CallbackNames]

ShadowOK ==
    /\ DOMAIN shadow = ShadowKinds
    /\ \A k \in ShadowKinds : /\ DOMAIN shadow[k] \subseteq Handles
                              /\ \A h \in DOMAIN shadow[k] : shadow[k][h] \in Nat

TablesOK ==
    /\ TableOK(peers, PeerObjects)
    /\ TableOK(chans, ChannelObjects)
    /\ rtcPeer \in [RtcIds -> AnyHandle]
    /\ rtcChan \in [RtcIds -> AnyHandle]
    /\ orphans \in Seq(RtcIds)

QueueOK ==
    /\ queue \in Seq(Events)
    /\ queueBytes \in Int
    /\ dropped \in Nat /\ shed \in Nat /\ forgotten \in Nat
    /\ refused \in Events \cup {Null}

LibraryOK ==
    /\ rtc \in [RtcIds -> RtcObjects]
    /\ wired \in [RtcIds -> SUBSET CallbackNames]
    /\ fires \in Nat

AppOK ==
    /\ drainCap \in Nat
    /\ log \in Seq(Events)
    /\ known \subseteq AnyHandle
    /\ gone \subseteq {"peer", "chan"} \X AnyHandle

\* Every variable keeps its type: no table, map, queue or local of the shim
\* ever holds something its code could not store there.
TypeOK ==
    /\ mu \in {Nobody, Script}
    /\ TablesOK
    /\ ShadowOK
    /\ QueueOK
    /\ th \in [Threads -> ThreadStates]
    /\ LibraryOK
    /\ AppOK

\* ------------------------------------------------------------ properties

\* g_mu is held across steps by exactly the loops that run under it, so no
\* blocking rtc call is ever made with it held (the deadlock rule 4 exists for).
LockDiscipline ==
    /\ mu = Script <=> th[Script].pc \in LoopLabels
    /\ \A w \in Workers : th[w].pc \notin LoopLabels \cup {"rtc"}

\* The two translation maps and the two tables name each other: a mapped id
\* resolves to the live entry that owns it, and a live entry is mapped.  Only
\* inside dcx_cleanup's locked section do the maps lag behind the tables.
MapsAgree ==
    At(Script, "cl_sweep") \/
      /\ \A d \in RtcIds : rtcChan[d] # NoHandle =>
            Get(chans, rtcChan[d]) # Null /\ Get(chans, rtcChan[d]).rtc = d
      /\ \A h \in LiveHandles(chans) : rtcChan[Get(chans, h).rtc] = h
      /\ \A p \in RtcIds : rtcPeer[p] # NoHandle =>
            Get(peers, rtcPeer[p]) # Null /\ Get(peers, rtcPeer[p]).rtc = p
      /\ \A h \in LiveHandles(peers) : rtcPeer[Get(peers, h).rtc] = h

\* The channels a thread is in the middle of: its own dc, and what it owes.
InHand(d) ==
    \E t \in Threads :
       /\ ~At(t, "idle")
       /\ \/ th[t].dc = d
          \/ d \in Elems(th[t].dcs)
          \/ [op |-> "delete", id |-> d] \in Elems(th[t].todo)

\* No rtc channel leaks: one that libdatachannel still holds is owned by a live
\* handle, parked for the reaper, or in the hands of a thread that will do one
\* or the other.
NoLeak ==
    \A d \in RtcIds : IsDc(d) /\ Exists(d) =>
       \/ rtcChan[d] # NoHandle
       \/ d \in Elems(orphans)
       \/ InHand(d)

\* A live channel outlives its peer only while the callback that registered it
\* has yet to re-validate (the orphan window).
NoOrphanEntry ==
    At(Script, "cl_sweep") \/
      \A h \in LiveHandles(chans) :
         \/ Get(peers, Get(chans, h).peer) # Null
         \/ \E w \in Workers : ~At(w, "idle") /\ th[w].chan = h

SumOf(s, f(_)) == SumFunction([i \in DOMAIN s |-> f(s[i])])

\* The byte count the cap is charged against is what the queued events cost,
\* and neither cap is ever passed.
QueueAccounts ==
    /\ queueBytes = SumOf(queue, Cost)
    /\ queueBytes <= MaxQueueBytes
    /\ Len(queue) <= MaxQueueEvents

ShedTold(e) == IF e.type = "E_QUEUE_OVERFLOW" THEN e.n ELSE 0

\* Every event shed is reported to the app exactly once, is waiting to be
\* reported, or was forgotten by a cleanup.
ShedAccounted == shed = dropped + forgotten + SumOf(log, ShedTold)

\* What the app has been told or will be.
Told == log \o queue

StateOf(e, k, h) == e.type = k /\ e.peer = h

\* The newest event of kind k about peer h reports v.
LastTold(k, h, v) ==
    \E i \in DOMAIN Told :
       /\ StateOf(Told[i], k, h) /\ Told[i].n = v
       /\ \A j \in DOMAIN Told : StateOf(Told[j], k, h) => j <= i

\* No shadow outlives its peer, and while nothing has been shed the state
\* getters answer with the newest state the event stream has told the app, or
\* will.
ShadowTruth ==
    mu = Nobody => \A k \in ShadowKinds : \A h \in DOMAIN shadow[k] :
                     /\ Get(peers, h) # Null
                     /\ shed = 0 => LastTold(k, h, shadow[k][h])

\* While nothing has been shed, the app learns a channel's handle (from
\* dcx_channel_new's result or from INCOMING) before any event names it.
HandleFirst == shed = 0 => \A i \in DOMAIN log : log[i].chan # NoHandle => log[i].chan \in known

\* The open callback and the already-open check never both announce an open.
OpenOnce ==
    \A i, j \in DOMAIN Told :
       Told[i].type = "E_CHANNEL_OPEN" /\ Told[j].type = "E_CHANNEL_OPEN"
         /\ Told[i].chan = Told[j].chan => i = j

\* Once a peer or a channel has been freed, nothing more is delivered for it.
NothingAfterFree ==
    [][\A i \in DOMAIN log' \ DOMAIN log :
          <<"peer", log'[i].peer>> \notin gone /\ <<"chan", log'[i].chan>> \notin gone]_vars

\* Outside dcx_channel_free, an object is deleted only with every callback
\* cleared and none in flight (the capi self-deadlock guard).
QuietDelete ==
    [][\A id \in RtcIds :
          rtc[id].st # "deleted" /\ rtc'[id].st = "deleted" /\ ~Owes("cleanup")
            /\ th[Script].kind # "channel_free" => wired[id] = {} /\ ~InFlightOn(id)]_vars

\* The drain is a bounded FIFO (see EventStream).  An event is shed only if its
\* own cost does not fit: the running byte count g_mu guards decides as the true
\* cost of the queue would.  An accepted event is delivered in its turn, or
\* discarded in its turn because event_deliverable_locked finds one of its
\* handles dead; which of the two, the tables decide at that moment.
EventNames(e) ==
    {<<"peer", h>> : h \in {e.peer} \ {NoHandle}} \cup {<<"chan", h>> : h \in {e.chan} \ {NoHandle}}

LiveNames == {<<"peer", h>> : h \in LiveHandles(peers)} \cup {<<"chan", h>> : h \in LiveHandles(chans)}

Stream == INSTANCE EventStream WITH
    pending <- queue, delivered <- log, lost <- dropped, live <- LiveNames,
    Names <- EventNames, Report <- EventReport, None <- Null,
    MaxEvents <- MaxQueueEvents, MaxBytes <- MaxQueueBytes

FIFO == Stream!Spec

\* Every entry point and every callback returns: no rtc call waits for a
\* callback that waits for the script, or for the mutex it holds.
CallsReturn == \A t \in Threads : ~At(t, "idle") ~> At(t, "idle")

\* An orphaned channel is deleted.
OrphansReaped == \A d \in RtcIds : d \in Elems(orphans) ~> ~Exists(d)

\* The app is told: again and again nothing waits in the queue and no shed
\* count waits to be reported.
QueueDrains == []<>(queue = <<>> /\ dropped = 0)

\* ------------------------------------- what the comments say, unqualified

\* clear_channel_callbacks: "With the callbacks cleared there is nothing to
\* fire": whoever deletes an object, no callback of it is wired any more.
ClearedBeforeDelete ==
    [][\A id \in RtcIds :
          rtc[id].st # "deleted" /\ rtc'[id].st = "deleted" /\ ~Owes("cleanup")
            => wired[id] = {}]_vars

\* register_channel: "the app always learns a channel's handle (from INCOMING)
\* before any OPEN/MESSAGE event names it", whether or not the queue overflowed.
HandleAlwaysFirst == \A i \in DOMAIN log : log[i].chan # NoHandle => log[i].chan \in known
================================================================================
