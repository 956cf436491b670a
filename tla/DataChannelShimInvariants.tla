---------------------- MODULE DataChannelShimInvariants ----------------------
(***************************************************************************)
(* The inductive invariants of DataChannelShim, by their parts: what holds  *)
(* of the maps and the tables, of the object each thread is at work on, of *)
(* what the app has been told, of the queue's account and of the shadows a *)
(* script binding keeps.  DataChannelShimProofs proves them.               *)
(***************************************************************************)
EXTENDS DataChannelShim, HandleTableLemmas

\* ----------------------------------------------------------------------- g_mu

\* A thread outside the loops moves on outside them and leaves g_mu alone.
MovesOutside(t) ==
    /\ th[t].pc \notin LoopLabels
    /\ th'[t].pc \notin LoopLabels
    /\ t # Script => th'[t].pc # "rtc"
    /\ \A u \in Threads \ {t} : th'[u] = th[u]
    /\ UNCHANGED mu

\* ---------------------------------------------------- the maps and the tables

\* The labels of a thread whose channel has no handle yet; and of one that has
\* registered it and is still at work on it.
Unregistered == {"lookup", "orphan", "register", "refused"}
AfterRegister == {"wire", "isopen", "announce", "revalidate"}

\* A mapped id resolves to the live entry that owns it.
Pointed(m, t) == \A d \in RtcIds : m[d] # NoHandle => Get(t, m[d]) # Null /\ Get(t, m[d]).rtc = d

\* A live entry is mapped.
Named(m, t) == \A h \in Handles : Get(t, h) # Null => m[Get(t, h).rtc] = h

\* An object libdatachannel has not made is mapped nowhere.
UnmadeUnmapped ==
    \A i \in RtcIds : rtc[i].kind = "none" => rtcPeer[i] = NoHandle /\ rtcChan[i] = NoHandle

\* A channel not yet registered is mapped nowhere, and one thread has it.
FreshInHand ==
    \A t \in Threads : th[t].pc \in Unregistered =>
       /\ rtc[th[t].dc].kind = "dc"
       /\ rtcChan[th[t].dc] = NoHandle
       /\ \A u \in Threads : th[u].pc \in Unregistered /\ th[u].dc = th[t].dc => u = t

\* The peer the script is making is mapped nowhere; the one it frees, and the
\* one it makes a channel for, are live.
PeerInHand ==
    /\ At(Script, "pn_alloc") => /\ rtc[th[Script].obj].kind = "pc"
                                 /\ rtcPeer[th[Script].obj] = NoHandle
    /\ At(Script, "pf_sweep") => /\ Get(peers, th[Script].peer) # Null
                                 /\ Get(peers, th[Script].peer).rtc = th[Script].obj
    /\ At(Script, "register") => Get(peers, th[Script].peer) # Null

MapsNamed == Named(rtcPeer, peers) /\ Named(rtcChan, chans)

\* dcx_cleanup empties the tables before it resets the maps.
MapsPointed == At(Script, "cl_sweep") \/ (Pointed(rtcPeer, peers) /\ Pointed(rtcChan, chans))

\* Worker w registered the channel h names and has still to re-validate.
Covers(w, h) ==
    /\ th[w].pc \in AfterRegister
    /\ th[w].chan = h
    /\ th[w].dc = Get(chans, h).rtc
    /\ th[w].peer = Get(chans, h).peer

\* A channel outlives its peer only while its worker has yet to re-validate.
Covered ==
    At(Script, "cl_sweep") \/
      \A h \in Handles : Get(chans, h) # Null =>
         Get(peers, Get(chans, h).peer) # Null \/ \E w \in Workers : Covers(w, h)

\* MapsAgree and NoOrphanEntry are not inductive: a registration keeps the maps
\* exact because the channel it publishes was mapped nowhere and in nobody
\* else's hands, and a freed peer leaves no orphan because the sweep saw every
\* channel but those whose worker has still to re-validate.
MapsInv ==
    /\ FreeListOK(peers) /\ FreeListOK(chans)
    /\ UnmadeUnmapped
    /\ FreshInHand
    /\ PeerInHand
    /\ MapsNamed
    /\ MapsPointed
    /\ Covered

\* The fields a thread's code reads of its channel.
SameHand(r, c) == r.chan = c.chan /\ r.dc = c.dc /\ r.peer = c.peer

\* A thread t moves to r and neither takes up nor lets go of anything the
\* invariant speaks of.
Steady(t, r) ==
    /\ r.pc \in Unregistered => th[t].pc \in Unregistered /\ r.dc = th[t].dc
    /\ t # Script /\ th[t].pc \in AfterRegister => r.pc \in AfterRegister /\ SameHand(r, th[t])
    /\ t = Script => /\ r.pc \in {"pn_alloc", "register", "pf_sweep"} =>
                          r.pc = th[t].pc /\ r.obj = th[t].obj /\ r.peer = th[t].peer
                     /\ th[t].pc = "cl_sweep" => r.pc = "cl_sweep"

\* The channels' table names the same channels, of the same peers.
SameChannels ==
    \A h : /\ Get(chans', h) = Null <=> Get(chans, h) = Null
           /\ Get(chans', h) # Null => /\ Get(chans', h).rtc = Get(chans, h).rtc
                                       /\ Get(chans', h).peer = Get(chans, h).peer

SameKinds == \A i \in RtcIds : rtc'[i].kind = rtc[i].kind

\* --------------------------------------------------- an object a thread holds

\* What a thread holds of an object the library has just made.
Holds(t, r, id, k) ==
    \/ k = "dc" /\ r.dc = id /\ r.pc = "lookup" /\ t # Script
    \/ k = "dc" /\ r.dc = id /\ r.pc = "register" /\ t = Script /\ Get(peers, r.peer) # Null
    \/ k = "pc" /\ r.obj = id /\ r.pc = "pn_alloc" /\ t = Script

\* --------------------------------------------- what a step does to the tables

\* An announcement marks the live channel it is about.
Marks(h) ==
    /\ IsLive(chans, h) /\ ~Get(chans, h).announced
    /\ chans' = Put(chans, h, [Get(chans, h) EXCEPT !.announced = TRUE])

\* The channels' table grows in register_channel alone.
Registers(t) == Register(t) /\ CanAlloc(chans)

ChannelsKept ==
    \/ UNCHANGED chans
    \/ \E h : chans' = Free(chans, h)
    \/ \E h : Marks(h)

ChannelsMove == ChannelsKept \/ \E t \in Threads : Registers(t)

\* The peers' table grows in dcx_peer_new alone.
Mints == PeerAlloc /\ CanAlloc(peers)

PeersMove == UNCHANGED peers \/ (\E h : peers' = Free(peers, h)) \/ Mints

\* -------------------------------------------- what a step does to the threads

\* Labels at which a thread has no channel and no connection in its hands.
Plain == {"idle", "rtc", "drain_lock", "retry", "drain", "pn_wire", "pn_refused",
          "pf_sweep", "cl_sweep"}

KindsGrow == \A i \in RtcIds : rtc[i].kind # "none" => rtc'[i].kind = rtc[i].kind

\* A thread t that moves to r takes up only an object just made, or what it
\* already had; it gets a handle only from register_channel, and it enters only a
\* callback that is wired.
TakesUp(t, r) ==
    /\ r.pc \in Unregistered => \/ th[t].pc \in Unregistered /\ r.dc = th[t].dc
                                \/ rtc[r.dc].kind = "none"
    /\ r.pc = "register" => \/ th[t].pc = "register" /\ r.peer = th[t].peer
                            \/ Get(peers, r.peer) # Null
                            \/ mu = Nobody /\ r.peer # NoHandle /\ \E i \in RtcIds : rtcPeer[i] = r.peer
    /\ r.pc \in AfterRegister => \/ th[t].pc \in AfterRegister /\ SameHand(r, th[t])
                                 \/ Registers(t)
    /\ r.pc = "pn_alloc" => \/ th[t].pc = "pn_alloc" /\ r.obj = th[t].obj
                            \/ rtc[r.obj].kind = "none"
    /\ r.pc = "body" => \/ th[t].pc = "body" /\ r.obj = th[t].obj /\ r.kind = th[t].kind
                        \/ r.obj \in RtcIds /\ r.kind \in wired[r.obj]

HandsMove == KindsGrow /\ \A t \in Threads : TakesUp(t, th'[t])

\* A step of the script at a plain label to a plain label.
PlainStep == \E r : th' = [th EXCEPT ![Script] = r] /\ r.pc \in Plain

\* ---------------------------------------------------------------- generations

\* The channels that were registered, refused or orphaned, and the connections
\* that were given a handle or refused one.
Settled == {d \in RtcIds : IsDc(d) /\ \A t \in Threads : ~(th[t].pc \in Unregistered /\ th[t].dc = d)}
Minted == {p \in RtcIds : IsPc(p) /\ ~(At(Script, "pn_alloc") /\ th[Script].obj = p)}

\* A slot's generation counts the handles it has given out, so it never passes
\* the number of objects libdatachannel has made.
GensInv ==
    /\ GenBound(chans, Cardinality(Settled))
    /\ GenBound(peers, Cardinality(Minted))

\* ------------------------------------------------------ handles across a step

\* h names the channel d, of the peer p.
Names(h, d, p) == Get(chans, h) # Null /\ Get(chans, h).rtc = d /\ Get(chans, h).peer = p

\* A thread that has registered its channel holds the channel's handle, or a
\* dead one: another thread freed it meanwhile.
HoldsItsOwn(c) ==
    /\ c.dc \in RtcIds /\ IsDc(c.dc)
    /\ Names(c.chan, c.dc, c.peer) \/ Dead(chans, c.chan)

HandInv == \A t \in Threads : th[t].pc \in AfterRegister => HoldsItsOwn(th[t])

\* What the script has freed is dead.
GoneInv ==
    \A h : /\ <<"peer", h>> \in gone => Dead(peers, h)
           /\ <<"chan", h>> \in gone => Dead(chans, h)

\* A step that frees something frees a live handle of its table.
FreesOne ==
    \/ UNCHANGED gone
    \/ \E h : Get(chans, h) # Null /\ chans' = Free(chans, h) /\ gone' = gone \cup {<<"chan", h>>}
    \/ \E h : Get(peers, h) # Null /\ peers' = Free(peers, h) /\ gone' = gone \cup {<<"peer", h>>}

\* ------------------------------------------------------- what the app is told

\* Only a channel reports an open.
OpensChannel(c) == c.pc = "body" /\ c.kind = "E_CHANNEL_OPEN" => c.obj \in RtcIds /\ IsDc(c.obj)

WiredInv ==
    /\ \A i \in RtcIds : "E_CHANNEL_OPEN" \in wired[i] => IsDc(i)
    /\ \A t \in Threads : OpensChannel(th[t])

WiresOpen == \A i \in RtcIds : "E_CHANNEL_OPEN" \in wired'[i] => "E_CHANNEL_OPEN" \in wired[i] \/ IsDc(i)

\* Where an event comes from: a callback of a live peer or channel, or one of
\* the two announcements.
FromPeer(e) ==
    /\ e.type \notin {"E_CHANNEL_OPEN", "E_CHANNEL_INCOMING"} /\ e.chan = NoHandle
    /\ Get(peers, e.peer) # Null /\ UNCHANGED <<chans, known>>

FromChannel(e) ==
    /\ e.type \notin {"E_CHANNEL_OPEN", "E_CHANNEL_INCOMING"}
    /\ Get(chans, e.chan) # Null /\ e.peer = Get(chans, e.chan).peer /\ UNCHANGED <<chans, known>>

FromOpen(e) ==
    /\ e.type = "E_CHANNEL_OPEN" /\ Marks(e.chan) /\ e.peer = Get(chans, e.chan).peer

FromRegister(e) ==
    /\ e.type = "E_CHANNEL_INCOMING" /\ UNCHANGED known
    /\ \E t \in Threads : Registers(t) /\ e.chan = AllocHandle(chans) /\ e.peer = th[t].peer

Says == \E e \in Events : /\ Enqueue(e) /\ UNCHANGED log
                          /\ FromPeer(e) \/ FromChannel(e) \/ FromOpen(e) \/ FromRegister(e)

Reported == DrainEnd /\ queue = <<>> /\ queue' = <<>> /\ log' = Append(log, OverflowReport)

StoryMoves ==
    \/ UNCHANGED <<queue, log, shed>>
    \/ Says
    \/ DrainDiscard \/ DrainDeliver \/ Reported \/ CleanupReset

\* ------------------------------------------------------- one open per channel

\* r is s with some of its elements left out.
Thins(s, r) ==
    \E f \in [DOMAIN r -> DOMAIN s] :
       /\ \A i, j \in DOMAIN r : f[i] = f[j] => i = j
       /\ \A i \in DOMAIN r : r[i] = s[f[i]]

\* A channel whose open was announced is marked so, or its handle is dead.
Announced(h) == Dead(chans, h) \/ (Get(chans, h) # Null /\ Get(chans, h).announced)

IsOpen(e) == e.type = "E_CHANNEL_OPEN"

OpenInv ==
    /\ \A i \in DOMAIN Told : IsOpen(Told[i]) => Announced(Told[i].chan)
    /\ OpenOnce

\* ------------------------------------- what the app is told, in one invariant

\* What the threads hold, what was freed and what was told, against the tables.
StoryInv == GensInv /\ HandInv /\ WiredInv /\ GoneInv /\ OpenInv

\* ------------------------------------------------------ handles before events

NamesIssued(e) ==
    /\ e.peer # NoHandle => Issued(peers, e.peer)
    /\ e.chan # NoHandle => Issued(chans, e.chan)

\* The peer of a channel, or of a channel about to be registered, and what the
\* queue names were given out.
QueuedInv ==
    /\ \A h \in Handles : Get(chans, h) # Null => Issued(peers, Get(chans, h).peer)
    /\ \A t \in Threads : th[t].pc = "register" => Issued(peers, th[t].peer)
    /\ \A e \in Elems(queue) : NamesIssued(e)

\* The app has the handle, or the call that will return it has.
ScriptHolds(h) == th[Script].pc \in AfterRegister /\ th[Script].chan = h
Learnt(h) == h \in known \/ ScriptHolds(h)

\* Nothing more of channel h, of peer p, will be delivered before it is learnt.
Safe(h, p) == Learnt(h) \/ Dead(peers, p) \/ Dead(chans, h)

Tells(e, h, p) == e.type = "E_CHANNEL_INCOMING" /\ e.chan = h /\ e.peer = p

\* An INCOMING of channel h, of peer p, is among the first n of the queue q.
Foretold(q, n, h, p) == \E j \in 1 .. n : j \in DOMAIN q /\ Tells(q[j], h, p)

EventFirst(q, i) ==
    q[i].chan # NoHandle => \/ Safe(q[i].chan, q[i].peer)
                            \/ Foretold(q, i, q[i].chan, q[i].peer)

EntryFirst(q, h, p) == Safe(h, p) \/ Foretold(q, Len(q), h, p)

LogFirst == \A i \in DOMAIN log : log[i].chan # NoHandle => log[i].chan \in known
QueueFirst == \A i \in DOMAIN queue : EventFirst(queue, i)
TableFirst == \A h \in Handles : Get(chans, h) # Null => EntryFirst(queue, h, Get(chans, h).peer)

\* While nothing has been shed, an event of a channel the app does not know
\* has the INCOMING ahead of it in the queue.
FirstInv == shed = 0 => LogFirst /\ QueueFirst /\ TableFirst

\* The script lets go of a channel by returning its handle.
StaysLearnt(h) == Learnt(h)' /\ known \subseteq known'

SameEntry(o, n) == o.rtc = n.rtc /\ o.peer = n.peer

\* What is assumed of the state before a step that leaves nothing shed.
FirstState ==
    /\ TypeOK /\ LockDiscipline /\ MapsInv /\ GensInv /\ HandInv /\ WiredInv
    /\ QueuedInv /\ LogFirst /\ QueueFirst /\ TableFirst

\* A queue r that still announces, or no longer needs to announce, what q did.
StillForetold(q, r) ==
    \A h : \A p : h # NoHandle /\ Foretold(q, Len(q), h, p) => Safe(h, p)' \/ Foretold(r, Len(r), h, p)

\* ------------------------------------------------------- no channel is leaked

DeleteOf(d) == [op |-> "delete", id |-> d]

\* Whose a channel is: a handle's, the reaper's, a teardown's of the script, or
\* a thread's that is about to register it.
Owned(d) == \E h \in Handles : Get(chans, h) # Null /\ Get(chans, h).rtc = d
Parked(d) == d \in Elems(orphans)

Sweeps == {"pf_sweep", "cl_sweep"}

Owed(c, d) ==
    \/ c.pc \in Sweeps /\ d \in Elems(c.dcs)
    \/ c.pc = "rtc" /\ DeleteOf(d) \in Elems(c.todo)

Fresh(c, d) == c.pc \in Unregistered /\ c.dc = d

Held(d) ==
    \/ Owned(d) \/ Parked(d)
    \/ Owed(th[Script], d)
    \/ \E t \in Threads : Fresh(th[t], d)

HeldInv == \A d \in RtcIds : IsDc(d) /\ Exists(d) => Held(d)

\* The channels libdatachannel holds; and a new one, in the hands of a thread.
Lives(d) == IsDc(d) /\ Exists(d)
Rises(d) == Lives(d)' => Lives(d) \/ \E t \in Threads : Fresh(th'[t], d)

\* ------------------------------------------------- an object is deleted quiet

\* The callbacks an object of its kind can have.
Order(id) == IF IsPc(id) THEN PeerCallbacks ELSE ChannelCallbacks

ClearOf(id) == [op |-> "clear", id |-> id]

ClearsPc(call) == call.op = "clear" /\ call.id \in RtcIds /\ IsPc(call.id)

\* The script of locals c still has to clear (and so to join) DATA_CHANNEL of
\* connection p, and clears nothing but connections until then.
Joins(c, p) ==
    /\ c.pc = "rtc"
    /\ \E j \in DOMAIN c.todo :
          /\ c.todo[j] = ClearOf(p)
          /\ \A i \in 1 .. j : ClearsPc(c.todo[i])
          /\ j = 1 => "DATA_CHANNEL" \in c.ks

\* A connection whose far side can open channels is mapped, or about to be joined.
Serves(p) == rtcPeer[p] # NoHandle \/ Joins(th[Script], p)

\* Worker w is in cb_data_channel, with channel d in its hands.
Bears(w, d) == th[w].pc \in ChannelLabels /\ th[w].dc = d

\* No worker can wire a callback of d, and none is wired.
Quiet(d) == wired[d] = {} /\ \A w \in Workers : ~Bears(w, d)

\* Nobody but the script that made it has seen the object.
Untouched(id) == wired[id] = {} /\ \A w \in Workers : th[w].pc # "idle" => th[w].obj # id

WiresOK ==
    \A i \in RtcIds :
       /\ wired[i] \subseteq Kinds \cap Elems(Order(i))
       /\ rtc[i].kind = "none" => wired[i] = {}
       /\ "DATA_CHANNEL" \in wired[i] => Serves(i)

ObjectsOK ==
    /\ \A d \in Elems(orphans) : IsDc(d)
    /\ \A h : Get(chans, h) # Null => IsDc(Get(chans, h).rtc)
    /\ \A h : Get(peers, h) # Null => IsPc(Get(peers, h).rtc)
    /\ \A t \in Threads : th[t].pc \in ChannelLabels => IsDc(th[t].dc)
    /\ \A t, u \in Threads : th[t].pc \in ChannelLabels /\ th[u].pc \in ChannelLabels
                               /\ th[t].dc = th[u].dc => t = u

\* A worker of locals c is in a callback of an object that was made; in
\* cb_data_channel, of a connection that is mapped or about to be joined, with a
\* channel that is not parked; and an entry for that channel names the peer it
\* found.
WorkerOK(c) ==
    /\ c.pc \in {"idle", "body"} \cup ChannelLabels
    /\ c.pc # "idle" => c.obj \in RtcIds /\ rtc[c.obj].kind # "none"
    /\ c.pc = "wire" => c.ks \subseteq Kinds
    /\ c.pc \in ChannelLabels =>
          /\ c.kind = "DATA_CHANNEL" /\ "DATA_CHANNEL" \in Kinds
          /\ IsPc(c.obj) /\ Serves(c.obj)
          /\ c.dc \notin Elems(orphans)
    /\ c.pc \in RegisterLabels => rtcPeer[c.obj] = c.peer \/ Joins(th[Script], c.obj)
    /\ c.pc \in AfterRegister =>
          \A h : Get(chans, h) # Null /\ Get(chans, h).rtc = c.dc => Get(chans, h).peer = c.peer

\* What the script makes is untouched, and what it sweeps is of its kind: of
\* the connection it frees, or of some connection it will join.
ScriptOK(c) ==
    /\ c.pc = "idle" => c = Idle
    /\ c.pc \in {"wire", "pn_wire"} => c.ks \subseteq Kinds
    /\ c.pc \in {"pn_alloc", "pn_refused"} => IsPc(c.obj) /\ Untouched(c.obj)
    /\ c.pc = "pn_wire" => IsPc(c.obj) /\ rtcPeer[c.obj] # NoHandle
    /\ c.pc \in {"register", "refused"} => Untouched(c.dc)
    /\ c.pc = "pf_sweep" =>
          /\ c.kind = "peer_free" /\ IsPc(c.obj) /\ rtcPeer[c.obj] = c.peer
          /\ \A d \in Elems(c.dcs) :
                IsDc(d) /\ \A w \in Workers : Bears(w, d) => th[w].obj = c.obj
    /\ c.pc = "cl_sweep" =>
          /\ c.kind = "cleanup"
          /\ \A d \in Elems(c.dcs) : IsDc(d)
          /\ \A p \in Elems(c.pcs) : IsPc(p)
          /\ \A p \in RtcIds : rtcPeer[p] # NoHandle =>
                \/ p \in Elems(c.pcs)
                \/ Get(peers, rtcPeer[p]) # Null /\ Get(peers, rtcPeer[p]).rtc = p

\* What a teardown clears and deletes was made; and one other than
\* dcx_channel_free's clears what it deletes first, after it has joined the
\* connection whose callback could still wire it.
TodoOK(c) ==
    c.pc = "rtc" =>
       /\ \A i \in DOMAIN c.todo : c.todo[i].op \in {"clear", "delete"} =>
             c.todo[i].id \in RtcIds /\ rtc[c.todo[i].id].kind # "none"
       /\ c.kind # "channel_free" =>
             /\ \A i \in DOMAIN c.todo : c.todo[i].op = "delete" =>
                   \/ \E j \in 1 .. i - 1 : c.todo[j] = ClearOf(c.todo[i].id)
                   \/ Quiet(c.todo[i].id)
             /\ \A i \in DOMAIN c.todo, w \in Workers :
                   c.todo[i].op \in {"clear", "delete"} /\ Bears(w, c.todo[i].id)
                      => Joins(c, th[w].obj)
             /\ c.todo # <<>> => IF Head(c.todo).op = "clear"
                                 THEN wired[Head(c.todo).id] \subseteq c.ks
                                 ELSE c.ks = Kinds

QuietInv ==
    /\ WiresOK
    /\ ObjectsOK
    /\ \A w \in Workers : WorkerOK(th[w])
    /\ ScriptOK(th[Script])
    /\ TodoOK(th[Script])

\* What a worker has in its hands.
SameGrip(r, c) == r.obj = c.obj /\ r.kind = c.kind /\ r.dc = c.dc

\* What a worker of locals c may be at after a step (r): a callback it entered,
\* whose object is wired; or the same channel as before.
EntersBody(r) == r.pc = "body" /\ r.obj \in RtcIds /\ rtc[r.obj].kind # "none" /\ wired[r.obj] # {}

EntersDataChannel(r) ==
    /\ r.pc = "lookup" /\ r.kind = "DATA_CHANNEL"
    /\ r.obj \in RtcIds /\ IsPc(r.obj) /\ r.kind \in wired[r.obj]
    /\ r.dc \in RtcIds /\ rtc[r.dc].kind = "none"

GoesOn(c, r) ==
    /\ c.pc \in ChannelLabels /\ r.pc \in ChannelLabels /\ SameGrip(r, c)
    /\ r.pc \in RegisterLabels =>
          \/ c.pc \in RegisterLabels /\ r.peer = c.peer
          \/ r.peer # NoHandle /\ r.peer = rtcPeer[r.obj]
    /\ r.pc = "wire" => r.ks \subseteq Kinds \/ (c.pc = "wire" /\ r.ks \subseteq c.ks)

Grasps(c, r) ==
    r = c \/ r.pc = "idle" \/ EntersBody(r) \/ EntersDataChannel(r) \/ GoesOn(c, r)

\* A channel is parked by the worker that leaves it.
Parks(w, d) == th[w].pc \in ChannelLabels /\ th[w].dc = d /\ th'[w].pc = "idle"

\* A callback is installed by the thread that registers a channel, by the
\* script on a connection, or by dcx_set_buffered_low_threshold.
Wires(i, k) ==
    \/ \E t \in Threads : th[t].pc = "wire" /\ th[t].dc = i /\ k \in th[t].ks
    \/ th[Script].pc = "pn_wire" /\ th[Script].obj = i /\ k \in th[Script].ks /\ UNCHANGED rtcPeer
    \/ /\ At(Script, "idle") /\ k = "E_BUFFERED_LOW" /\ k \in Kinds
       /\ \E h : Get(chans, h) # Null /\ Get(chans, h).rtc = i

WiresMove == \A i \in RtcIds : \A k \in wired'[i] : k \in wired[i] \/ Wires(i, k)

\* ------------------------------------------------------- what a teardown owes

\* Every deletion comes after the clearing of the same object.
Prepared(calls) ==
    \A i \in DOMAIN calls : calls[i].op = "delete" => \E j \in 1 .. i - 1 : calls[j] = ClearOf(calls[i].id)

\* Nothing but objects of a set is cleared and deleted.
Concerns(calls, ids) ==
    \A i \in DOMAIN calls : calls[i].op \in {"clear", "delete"} => calls[i].id \in ids

CleanupCalls(ps, ds) ==
    Clear(ps) \o Clear(ds) \o Delete(ds) \o Delete(ps)
      \o <<[op |-> "cleanup", id |-> 0], [op |-> "join", id |-> 0]>>

\* ----------------------------------- a connection that is needed stays joined

\* The far side of p can open a channel, or has and its callback is under way.
Needs(p) ==
    \/ "DATA_CHANNEL" \in wired[p]
    \/ \E w \in Workers : th[w].pc \in ChannelLabels /\ th[w].obj = p

\* One setter of the clearing of object id takes the script's locals from c to r.
Finishes(c, r, id) ==
    /\ c.ks \cap Elems(Order(id)) = {}
    /\ r.todo = Tail(c.todo) /\ r.ks = Kinds /\ UNCHANGED wired

ClearsOne(c, r, id, k) ==
    /\ k \in c.ks \cap Elems(Order(id)) /\ ~InFlight(id, k)
    /\ r.todo = c.todo /\ r.ks = c.ks \ {k} /\ wired' = [wired EXCEPT ![id] = @ \ {k}]

\* ---------------------------------------------------------- a teardown begins

\* A script step that wires nothing and makes nothing.
Ordinary(r) ==
    /\ th' = [th EXCEPT ![Script] = r]
    /\ \A w \in Workers : th'[w] = th[w]
    /\ th'[Script] = r
    /\ UNCHANGED <<rtc, wired>>

\* ------------------------------------------ the invariant of a quiet deletion

\* An object is deleted by a refusal, by a teardown or by rtcCleanup.
Deletes(id) ==
    \/ PeerRefused /\ th[Script].obj = id
    \/ ChannelRefused /\ th[Script].dc = id
    \/ DeleteObject /\ Head(th[Script].todo).id = id
    \/ RtcCleanup

\* ---------------------------------------------------- what a callback carries

\* A worker in a callback has an argument of that callback, and a channel never
\* reports a connection's state; in cb_data_channel it has a label until the
\* channel is registered.
CarryOK(c) ==
    /\ c.pc = "body" => c.n \in Argument(c.kind) /\ (IsDc(c.obj) => c.kind \notin ShadowKinds)
    /\ c.pc \in {"lookup", "register"} => c.n \in Sizes

CarryInv == \A w \in Workers : CarryOK(th[w])

\* ---------------------------------------------- what a step does to the queue

\* A callback or an announcement offers event e, of one of the costs; a state
\* report of a live peer refreshes the shadow it is read from.
Offers(e) ==
    /\ Enqueue(e) /\ UNCHANGED <<log, peers, rtcPeer>>
    /\ e.type # "E_QUEUE_OVERFLOW" /\ VarBytes(e) \in Sizes \cup {0}
    /\ IF e.type \in ShadowKinds
       THEN /\ e.chan = NoHandle /\ e.peer \in Handles /\ Get(peers, e.peer) # Null
            /\ shadow' = Refreshed(e.type, e.peer, e.n)
       ELSE UNCHANGED shadow

\* The drain reports the shed events behind the backlog.
ReportsShed ==
    /\ DrainEnd /\ queue = <<>> /\ dropped > 0
    /\ log' = Append(log, OverflowReport) /\ dropped' = 0 /\ refused' = Null
    /\ UNCHANGED <<queue, queueBytes, shed, forgotten, shadow>>

QueueMoves ==
    \/ UNCHANGED <<queueVars, log>> /\ (UNCHANGED shadow \/ PeerFreeDone)
    \/ \E e \in Events : Offers(e)
    \/ DrainDiscard \/ DrainDeliver \/ ReportsShed \/ CleanupReset

\* --------------------------------------------------- the caps and the account

\* An event in the queue is not the drain's own report, and one of a
\* connection's state names no channel.
BacklogOK(e) == e.type # "E_QUEUE_OVERFLOW" /\ (e.type \in ShadowKinds => e.chan = NoHandle)

BacklogInv == \A i \in DOMAIN queue : BacklogOK(queue[i])

\* The account of the queue rests on what its callbacks carry, that on the
\* callbacks wired to each object (QuietInv), and on the maps naming live
\* handles (MapsInv).
AccountInv == CarryInv /\ BacklogInv /\ QueueAccounts /\ ShedAccounted

\* -------------------------------------------- the shadows are the newest told

\* The newest report s has of kind k about peer h is v.
Newest(s, k, h, v) ==
    \E i \in DOMAIN s :
       /\ StateOf(s[i], k, h) /\ s[i].n = v
       /\ \A j \in DOMAIN s : StateOf(s[j], k, h) => j <= i

\* A shadow is of a live connection, and while nothing has been shed it holds
\* the newest state the story tells of it.
OnMap(h) == \E p \in RtcIds : rtcPeer[p] = h

Shadowed(k, h) == OnMap(h) /\ (shed = 0 => Newest(Told, k, h, shadow[k][h]))

ShadowInv == \A k \in ShadowKinds : \A h \in DOMAIN shadow[k] : Shadowed(k, h)

\* What a step that leaves the shadow of h alone must do to the story.
StoryKeeps(k, h) == \A v : Newest(Told, k, h, v) => Newest(Told, k, h, v)'

==============================================================================
