------------------------- MODULE DataChannelShimProofs -------------------------
(***************************************************************************)
(* Theorems about DataChannelShim for every number of workers, slots,      *)
(* generations, library objects and callbacks, and every pair of caps:     *)
(* type correctness, the discipline of the one mutex, the agreement of the *)
(* maps with the tables, the queue's account and its order, the shadows of *)
(* a script binding and, while no generation wraps (MaxRtcId < GEN_MAX),   *)
(* what the app is told, and when, and that no channel leaks.              *)
(***************************************************************************)
EXTENDS DataChannelShimInvariants, SumTheorems

\* ---------------------------------------------------- the model's own helpers

\* FirstHandle picks a member.
LEMMA FirstHandleMember ==
    ASSUME NEW hs, hs \subseteq Handles, hs # {}
    PROVE  FirstHandle(hs) \in hs
<1> DEFINE S == {h.idx : h \in hs}
<1>1. S \subseteq Nat /\ S # {}  BY HandleTableAssumption DEF Handles, Slots
<1>2. PICK m \in S : \A n \in S : m <= n  BY <1>1, LeastNatural
<1>3. \E h \in hs : \A g \in hs : h.idx <= g.idx  BY <1>2
<1> QED BY <1>3 DEF FirstHandle

\* The live handles of a table are live.
LEMMA LiveHandlesLive ==
    ASSUME NEW Objects, Null \notin Objects, NEW t, TableOK(t, Objects), NEW h \in LiveHandles(t)
    PROVE  h \in Handles /\ IsLive(t, h) /\ Get(t, h) \in Objects
<1>1. PICK i \in Slots : h = [gen |-> t.gen[i], idx |-> i] /\ i < t.size /\ t.obj[i] # Null
  BY DEF LiveHandles
<1>2. t.gen[i] \in 1 .. GEN_MAX /\ t.obj[i] \in Objects
  BY <1>1, HandleTableAssumption DEF TableOK
<1>3. h \in Handles /\ h.idx = i /\ h.gen = t.gen[i]  BY <1>1, <1>2 DEF Handles
<1> QED BY <1>1, <1>2, <1>3 DEF IsLive, Get

LEMMA PeerEntry ==
    ASSUME TypeOK, NEW h, Get(peers, h) # Null
    PROVE  h \in Handles /\ IsLive(peers, h) /\ Get(peers, h).rtc \in RtcIds
<1>1. h \in Handles /\ IsLive(peers, h) /\ Get(peers, h) \in PeerObjects
  BY GetTyped DEF TypeOK, TablesOK
<1> QED BY <1>1 DEF PeerObjects

LEMMA ChannelEntry ==
    ASSUME TypeOK, NEW h, Get(chans, h) # Null
    PROVE  /\ h \in Handles /\ IsLive(chans, h) /\ Get(chans, h) \in ChannelObjects
           /\ Get(chans, h).rtc \in RtcIds /\ Get(chans, h).peer \in Handles
<1>1. h \in Handles /\ IsLive(chans, h) /\ Get(chans, h) \in ChannelObjects
  BY GetTyped DEF TypeOK, TablesOK
<1> QED BY <1>1 DEF ChannelObjects

\* A live handle is one get() finds an object for.
LEMMA LivePeers ==
    ASSUME TypeOK, NEW h \in LiveHandles(peers)
    PROVE  h \in Handles /\ Get(peers, h) # Null
<1>1. h \in Handles /\ Get(peers, h) \in PeerObjects
  BY LiveHandlesLive, ShimAssumption DEF TypeOK, TablesOK
<1> QED BY <1>1, ShimAssumption

LEMMA LiveChannels ==
    ASSUME TypeOK, NEW h \in LiveHandles(chans)
    PROVE  h \in Handles /\ Get(chans, h) # Null
<1>1. h \in Handles /\ Get(chans, h) \in ChannelObjects
  BY LiveHandlesLive, ShimAssumption DEF TypeOK, TablesOK
<1> QED BY <1>1, ShimAssumption

\* The first callback of a set that is not empty is in it.
LEMMA FirstOfMember ==
    ASSUME NEW order \in {PeerCallbacks, ChannelCallbacks},
           NEW ks, ks \subseteq Elems(order), ks # {}
    PROVE  FirstOf(ks, order) \in ks
<1> DEFINE D == {i \in 1 .. 5 : order[i] \in ks}
<1>1. DOMAIN order = 1 .. 5  BY DEF PeerCallbacks, ChannelCallbacks
<1>2. D \subseteq Nat /\ D # {}  BY <1>1 DEF Elems
<1>3. PICK m \in D : \A n \in D : m <= n  BY <1>2, LeastNatural
<1>4. \E i \in DOMAIN order : order[i] \in ks /\ \A j \in DOMAIN order : order[j] \in ks => i <= j
  BY <1>1, <1>3
<1> QED BY <1>4 DEF FirstOf

\* What g_mu's holders enqueue keeps the queue well typed.
LEMMA EnqueueTyped ==
    ASSUME QueueOK, NEW e \in Events, Enqueue(e)
    PROVE  QueueOK'
<1>1. Cost(e) \in Nat  BY ShimAssumption DEF Cost, VarBytes, Events
<1>2. CASE Overfull(e)  BY <1>2 DEF Enqueue, Shed, QueueOK
<1>3. CASE ~Overfull(e)
  <2>1. /\ queue' = Append(queue, e) /\ queueBytes' = queueBytes + Cost(e)
        /\ UNCHANGED <<dropped, shed, refused, forgotten>>
    BY <1>3 DEF Enqueue
  <2> QED BY <1>1, <2>1 DEF QueueOK
<1> QED BY <1>2, <1>3

LEMMA PopTyped ==
    ASSUME QueueOK, queue # <<>>, PopFront, UNCHANGED <<dropped, shed, refused, forgotten>>
    PROVE  QueueOK' /\ Head(queue) \in Events
<1>1. Head(queue) \in Events /\ Tail(queue) \in Seq(Events)  BY DEF QueueOK
<1>2. Cost(Head(queue)) \in Nat  BY <1>1, ShimAssumption DEF Cost, VarBytes, Events
<1> QED BY <1>1, <1>2 DEF PopFront, QueueOK

LEMMA WireTyped ==
    ASSUME NEW e \in Events
    PROVE  Wire(e) \in Nat
  BY ShimAssumption DEF Wire, VarBytes, Events

\* The announcement of an open.
LEMMA AnnounceTyped ==
    ASSUME TypeOK, NEW h \in AnyHandle, NEW p \in AnyHandle, Announce(h, Get(chans, h), p)
    PROVE  TableOK(chans', ChannelObjects) /\ QueueOK'
<1> DEFINE cs == Get(chans, h)
<1>1. CASE MayAnnounce(cs)
  <2>1. cs # Null  BY <1>1 DEF MayAnnounce
  <2>2. IsLive(chans, h) /\ cs \in ChannelObjects  BY <2>1, ChannelEntry
  <2>3. [cs EXCEPT !.announced = TRUE] \in ChannelObjects  BY <2>2 DEF ChannelObjects
  <2>4. TableOK(chans', ChannelObjects)
    BY <1>1, <2>2, <2>3, PutTyped DEF Announce, TypeOK, TablesOK
  <2>5. Event("E_CHANNEL_OPEN", p, h, 0) \in Events
    BY DEF Event, Events, CallbackNames, Elems, ChannelCallbacks
  <2> QED BY <1>1, <2>4, <2>5, EnqueueTyped DEF Announce, TypeOK
<1>2. CASE ~MayAnnounce(cs)  BY <1>2 DEF Announce, TypeOK, TablesOK, QueueOK, queueVars
<1> QED BY <1>1, <1>2

\* ----------------------------------------------------------- type correctness

LEMMA IdleTyped == Idle \in ThreadStates /\ Idle \in Locals
  BY DEF Idle, ThreadStates, Locals, Labels, PeerLabels, ChannelLabels, RegisterLabels,
         LoopLabels, Runs, AnyRtcId, AnyHandle

\* A thread that enters a callback.
LEMMA EnteredTyped ==
    ASSUME NEW l \in {"body", "lookup"}, NEW id \in RtcIds, NEW d \in RtcIds \cup {0},
           NEW k \in CallbackNames, NEW n \in Nat, l = "lookup" => d \in RtcIds
    PROVE  [Idle EXCEPT !.pc = l, !.obj = id, !.dc = d, !.kind = k, !.n = n] \in ThreadStates
<1> DEFINE r == [Idle EXCEPT !.pc = l, !.obj = id, !.dc = d, !.kind = k, !.n = n]
<1>1. l \in Labels /\ l \notin RegisterLabels \cup {"pn_wire"}
      /\ (l \in ChannelLabels => l = "lookup")
  BY DEF Labels, PeerLabels, ChannelLabels, RegisterLabels, LoopLabels
<1>2. r \in Locals  BY <1>1, IdleTyped DEF Locals, AnyRtcId
<1>3. r.pc = l /\ r.obj = id /\ r.dc = d /\ r.kind = k  BY DEF Idle
<1> QED BY <1>1, <1>2, <1>3 DEF ThreadStates, RegisterLabels

\* Each thread is in a state of its own program.
LEMMA ThreadTyped ==
    ASSUME TypeOK, NEW t \in Threads, NEW r \in ThreadStates, th' = [th EXCEPT ![t] = r]
    PROVE  th' \in [Threads -> ThreadStates]
  BY DEF TypeOK

\* What a step leaves alone stays well typed.
LEMMA Kept ==
    ASSUME TypeOK
    PROVE  /\ UNCHANGED mu => mu' \in {Nobody, Script}
           /\ UNCHANGED <<peers, chans, rtcPeer, rtcChan, orphans>> => TablesOK'
           /\ UNCHANGED shadow => ShadowOK'
           /\ UNCHANGED queueVars => QueueOK'
           /\ UNCHANGED th => th' \in [Threads -> ThreadStates]
           /\ UNCHANGED rtcVars => LibraryOK'
           /\ UNCHANGED appVars => AppOK'
  BY DEF TypeOK, TablesOK, ShadowOK, QueueOK, LibraryOK, AppOK, queueVars, rtcVars, appVars

LEMMA Local ==
    ASSUME TypeOK, NEW t \in Threads
    PROVE  /\ th[t] \in ThreadStates
           /\ th[t] \in Locals
           /\ th[t].obj \in AnyRtcId /\ th[t].n \in Nat /\ th[t].dc \in AnyRtcId
           /\ th[t].peer \in AnyHandle /\ th[t].chan \in AnyHandle
           /\ th[t].dcs \in Seq(RtcIds) /\ th[t].pcs \in Seq(RtcIds)
           /\ th[t].todo \in Seq(Calls)
           /\ At(t, "body") => th[t].kind \in CallbackNames
           /\ (th[t].pc \in PeerLabels \cup {"body", "lookup"}) => th[t].obj \in RtcIds
           /\ th[t].pc \in ChannelLabels => th[t].dc \in RtcIds
           /\ th[t].pc \in RegisterLabels => th[t].peer \in Handles
           /\ At(t, "pn_wire") => th[t].ks \subseteq Elems(PeerCallbacks)
           /\ At(t, "wire") => th[t].ks \subseteq Elems(ChannelCallbacks)
<1>1. th[t] \in ThreadStates  BY DEF TypeOK
<1> QED BY <1>1 DEF ThreadStates, Locals, At

\* -------------------------------------------------------- the library's steps

LEMMA LibraryTyped ==
    ASSUME TypeOK, NEW d \in RtcIds, RtcChannelOpens(d) \/ RtcChannelCloses(d)
    PROVE  TypeOK'
<1>1. LibraryOK'  BY DEF RtcChannelOpens, RtcChannelCloses, TypeOK, LibraryOK, RtcObjects
<1> QED BY <1>1, Kept DEF RtcChannelOpens, RtcChannelCloses, TypeOK, shimVars

LEMMA FireTyped ==
    ASSUME TypeOK, NEW w \in Workers, NEW id \in RtcIds, NEW k \in Kinds, Fire(w, id, k)
    PROVE  TypeOK'
<1>1. k \in CallbackNames  BY KindsAssumption
<1>2. PICK n \in Argument(k) :
         th' = [th EXCEPT ![w] = [Idle EXCEPT !.pc = "body", !.obj = id, !.kind = k, !.n = n]]
  BY Zenon DEF Fire
<1>3. n \in Nat  BY ShimAssumption DEF Argument, ShadowKinds
<1>4. [Idle EXCEPT !.pc = "body", !.obj = id, !.kind = k, !.n = n] \in ThreadStates
  <2> DEFINE r == [Idle EXCEPT !.pc = "body", !.obj = id, !.kind = k, !.n = n]
  <2>1. r \in Locals  BY <1>1, <1>3, IdleTyped DEF Locals, Labels, AnyRtcId
  <2>2. r.pc = "body" /\ r.obj = id /\ r.kind = k  BY DEF Idle
  <2>3. ASSUME NEW s \in Locals, s.pc = "body", s.obj = id, s.kind = k
        PROVE  s \in ThreadStates
    BY <1>1, <2>3 DEF ThreadStates, ChannelLabels, RegisterLabels
  <2> QED BY <2>1, <2>2, <2>3
<1>5. th' \in [Threads -> ThreadStates]  BY <1>2, <1>4, ThreadTyped DEF Threads
<1>6. LibraryOK'  BY <1>1 DEF Fire, TypeOK, LibraryOK, RtcObjects, ToldOnce
<1> QED BY <1>5, <1>6, Kept DEF Fire, TypeOK, shimVars

LEMMA FireDataChannelTyped ==
    ASSUME TypeOK, NEW w \in Workers, NEW p \in RtcIds, NEW d \in RtcIds, FireDataChannel(w, p, d)
    PROVE  TypeOK'
<1>1. PICK n \in Sizes :
         th' = [th EXCEPT ![w] = [Idle EXCEPT !.pc = "lookup", !.obj = p, !.dc = d,
                                            !.kind = "DATA_CHANNEL", !.n = n]]
  BY Zenon DEF FireDataChannel
<1>2. "DATA_CHANNEL" \in CallbackNames  BY DEF CallbackNames, Elems, PeerCallbacks
<1>3. [Idle EXCEPT !.pc = "lookup", !.obj = p, !.dc = d, !.kind = "DATA_CHANNEL", !.n = n]
        \in ThreadStates
  BY <1>2, ShimAssumption, EnteredTyped, Zenon
<1>4. th' \in [Threads -> ThreadStates]  BY <1>1, <1>3, ThreadTyped DEF Threads
<1>5. LibraryOK'  BY DEF FireDataChannel, TypeOK, LibraryOK, RtcObjects, Object, AnyRtcId
<1> QED BY <1>4, <1>5, Kept DEF FireDataChannel, TypeOK, shimVars

\* ------------------------------------------------------------------ callbacks

LEMMA PeerCallbackTyped ==
    ASSUME TypeOK, NEW w \in Workers, PeerCallback(w)
    PROVE  TypeOK'
<1> DEFINE c == th[w]
           h == rtcPeer[c.obj]
<1>1. w \in Threads  BY DEF Threads
<1>2. c.kind \in CallbackNames /\ c.obj \in RtcIds /\ c.n \in Nat
  BY <1>1, Local DEF PeerCallback, At
<1>3. th' \in [Threads -> ThreadStates]
  BY <1>1, IdleTyped, ThreadTyped DEF PeerCallback, Return
<1>4. CASE h = NoHandle  BY <1>3, <1>4, Kept DEF PeerCallback, TypeOK
<1>5. CASE h # NoHandle
  <2>1. h \in Handles  BY <1>2, <1>5 DEF TypeOK, TablesOK, AnyHandle
  <2>2. QueueOK'
    <3>1. Event(c.kind, h, NoHandle, c.n) \in Events
      BY <1>2, <2>1 DEF Event, Events, AnyHandle
    <3> QED BY <1>5, <3>1, EnqueueTyped DEF PeerCallback, TypeOK
  <2>3. ShadowOK'
    BY <1>2, <1>5, <2>1 DEF PeerCallback, TypeOK, ShadowOK, Refreshed, Assign
  <2> QED BY <1>3, <2>2, <2>3, Kept DEF PeerCallback, TypeOK
<1> QED BY <1>4, <1>5

LEMMA OpenCallbackTyped ==
    ASSUME TypeOK, NEW w \in Workers, OpenCallback(w)
    PROVE  TypeOK'
<1> DEFINE h == rtcChan[th[w].obj]
           cs == Get(chans, h)
           p == IF cs = Null THEN NoHandle ELSE cs.peer
<1>1. w \in Threads /\ th[w].obj \in RtcIds  BY Local DEF Threads, OpenCallback, At
<1>2. h \in AnyHandle  BY <1>1 DEF TypeOK, TablesOK
<1>3. p \in AnyHandle  BY ChannelEntry DEF AnyHandle
<1>4. TableOK(chans', ChannelObjects) /\ QueueOK'
  BY <1>2, <1>3, AnnounceTyped DEF OpenCallback
<1>5. th' \in [Threads -> ThreadStates]
  BY <1>1, IdleTyped, ThreadTyped DEF OpenCallback, Return
<1>6. TablesOK'  BY <1>4 DEF OpenCallback, TypeOK, TablesOK
<1> QED BY <1>4, <1>5, <1>6, Kept DEF OpenCallback, TypeOK

LEMMA ChannelCallbackTyped ==
    ASSUME TypeOK, NEW w \in Workers, ChannelCallback(w)
    PROVE  TypeOK'
<1> DEFINE c == th[w]
           h == rtcChan[c.obj]
           cs == Get(chans, h)
           p == IF cs = Null THEN NoHandle ELSE cs.peer
           oversized == c.kind = "E_MESSAGE" /\ c.n > MAX_MESSAGE
           e == IF oversized THEN Event("E_CHANNEL_ERROR", p, h, 0) ELSE Event(c.kind, p, h, c.n)
<1>1. w \in Threads  BY DEF Threads
<1>2. c.kind \in CallbackNames /\ c.obj \in RtcIds /\ c.n \in Nat
  BY <1>1, Local DEF ChannelCallback, At
<1>3. h \in AnyHandle /\ p \in AnyHandle
  BY <1>2, ChannelEntry DEF TypeOK, TablesOK, AnyHandle
<1>4. e \in Events
  BY <1>2, <1>3 DEF Event, Events, CallbackNames, Elems, ChannelCallbacks
<1>5. QueueOK'
  <2>1. CASE h = NoHandle  BY <2>1, Kept DEF ChannelCallback
  <2>2. CASE h # NoHandle
    <3>1. Enqueue(e)  BY <2>2 DEF ChannelCallback
    <3> QED BY <3>1, <1>4, EnqueueTyped DEF TypeOK
  <2> QED BY <2>1, <2>2
<1>6. th' \in [Threads -> ThreadStates]
  BY <1>1, IdleTyped, ThreadTyped DEF ChannelCallback, Return
<1> QED BY <1>5, <1>6, Kept DEF ChannelCallback, TypeOK, shimVars

LEMMA LookupTyped ==
    ASSUME TypeOK, NEW w \in Workers, Lookup(w)
    PROVE  TypeOK'
<1> DEFINE h == rtcPeer[th[w].obj]
           r == [th[w] EXCEPT !.pc = IF h = NoHandle THEN "orphan" ELSE "register", !.peer = h]
<1>1. w \in Threads  BY DEF Threads
<1>2. th[w] \in Locals /\ th[w].obj \in RtcIds /\ th[w].dc \in RtcIds
  BY <1>1, Local DEF Lookup, At, ChannelLabels
<1>3. h \in AnyHandle  BY <1>2 DEF TypeOK, TablesOK
<1>4. r \in ThreadStates
  <2>1. r \in Locals  BY <1>2, <1>3 DEF Locals, Labels, ChannelLabels, RegisterLabels
  <2>2. r.pc = (IF h = NoHandle THEN "orphan" ELSE "register") /\ r.peer = h /\ r.dc \in RtcIds
    BY <1>2 DEF Locals
  <2>3. r.pc = "register" => r.peer \in Handles  BY <1>3, <2>2 DEF AnyHandle
  <2> HIDE DEF r
  <2> QED BY <2>1, <2>2, <2>3 DEF ThreadStates, PeerLabels, RegisterLabels
<1>5. th' = [th EXCEPT ![w] = r]  BY DEF Lookup
<1>6. th' \in [Threads -> ThreadStates]  BY <1>1, <1>4, <1>5, ThreadTyped
<1> QED BY <1>6, Kept DEF Lookup, TypeOK, shimVars

LEMMA OrphanTyped ==
    ASSUME TypeOK, NEW w \in Workers, Orphan(w)
    PROVE  TypeOK'
<1>1. w \in Threads  BY DEF Threads
<1>2. th[w].dc \in RtcIds  BY <1>1, Local DEF Orphan, At, ChannelLabels
<1>3. TablesOK'  BY <1>2 DEF Orphan, TypeOK, TablesOK
<1>4. th' \in [Threads -> ThreadStates]
  BY <1>1, IdleTyped, ThreadTyped DEF Orphan, Return
<1> QED BY <1>3, <1>4, Kept DEF Orphan, TypeOK

LEMMA RevalidateTyped ==
    ASSUME TypeOK, NEW w \in Workers, Revalidate(w)
    PROVE  TypeOK'
<1> DEFINE c == th[w]
           cs == Get(chans, c.chan)
<1>1. w \in Threads  BY DEF Threads
<1>2. c.dc \in RtcIds  BY <1>1, Local DEF Revalidate, At, ChannelLabels, RegisterLabels
<1>3. TablesOK'
  <2>1. CASE Get(peers, c.peer) # Null  BY <2>1, Kept DEF Revalidate
  <2>2. CASE Get(peers, c.peer) = Null
    <3>1. TableOK(chans', ChannelObjects)
      BY <2>2, FreeTyped DEF Revalidate, TypeOK, TablesOK
    <3>2. rtcChan' \in [RtcIds -> AnyHandle]
      BY <2>2 DEF Revalidate, TypeOK, TablesOK, Unpublish, AnyHandle
    <3> QED BY <2>2, <1>2, <3>1, <3>2, SMTT(30) DEF Revalidate, TypeOK, TablesOK
  <2> QED BY <2>1, <2>2
<1>4. th' \in [Threads -> ThreadStates]
  BY <1>1, IdleTyped, ThreadTyped DEF Revalidate, Return
<1> QED BY <1>3, <1>4, Kept DEF Revalidate, TypeOK

\* ----------------------------------------------------------- register_channel

LEMMA RegisterTyped ==
    ASSUME TypeOK, NEW t \in Threads, Register(t)
    PROVE  TypeOK'
<1> DEFINE c == th[t]
           h == AllocHandle(chans)
           o == [rtc |-> c.dc, peer |-> c.peer, announced |-> FALSE]
<1>1. /\ c \in Locals /\ c.dc \in RtcIds /\ c.peer \in Handles /\ c.n \in Nat
      /\ c.pc = "register"
  BY Local DEF Register, At, ChannelLabels, RegisterLabels
<1>2. CASE h = NoHandle
  <2> DEFINE l == IF t = Script THEN "refused" ELSE "orphan"
             r == [c EXCEPT !.pc = l]
  <2>1. r \in Locals /\ r.pc = l /\ r.dc \in RtcIds
    BY <1>1 DEF Locals, Labels, ChannelLabels
  <2>2. ASSUME NEW s \in Locals, s.pc \in {"refused", "orphan"}, s.dc \in RtcIds
        PROVE  s \in ThreadStates
    BY <2>2 DEF ThreadStates, PeerLabels, RegisterLabels
  <2>3. r \in ThreadStates  BY <2>1, <2>2
  <2>4. th' = [th EXCEPT ![t] = r]  BY <1>2 DEF Register, Goto
  <2>5. th' \in [Threads -> ThreadStates]  BY <2>3, <2>4, ThreadTyped
  <2> QED BY <1>2, <2>5, Kept DEF Register, TypeOK
<1>3. CASE h # NoHandle
  <2> DEFINE r == [c EXCEPT !.pc = "wire", !.chan = h, !.ks = WiredAtBirth(ChannelCallbacks)]
             e == Event("E_CHANNEL_INCOMING", c.peer, h, c.n)
  <2>1. h \in Handles  BY <1>3, AllocSlot DEF AllocHandle, TypeOK, TablesOK
  <2>2. WiredAtBirth(ChannelCallbacks) \subseteq Elems(ChannelCallbacks)
        /\ WiredAtBirth(ChannelCallbacks) \subseteq CallbackNames
    BY DEF WiredAtBirth, CallbackNames
  <2>3. r \in Locals
    BY <1>1, <2>1, <2>2 DEF Locals, Labels, ChannelLabels, RegisterLabels, AnyHandle
  <2>4. r.pc = "wire" /\ r.ks = WiredAtBirth(ChannelCallbacks) /\ r.dc = c.dc /\ r.peer = c.peer
    BY <1>1 DEF Locals
  <2>5. ASSUME NEW s \in Locals, s.pc = "wire", s.ks \subseteq Elems(ChannelCallbacks),
               s.dc \in RtcIds, s.peer \in Handles
        PROVE  s \in ThreadStates
    BY <2>5 DEF ThreadStates, PeerLabels
  <2>6. r \in ThreadStates  BY <1>1, <2>2, <2>3, <2>4, <2>5
  <2>7. th' = [th EXCEPT ![t] = r]  BY <1>3 DEF Register
  <2>8. th' \in [Threads -> ThreadStates]  BY <2>6, <2>7, ThreadTyped
  <2>9. TablesOK'
    <3>1. o \in ChannelObjects  BY <1>1 DEF ChannelObjects
    <3>2. TableOK(chans', ChannelObjects)
      BY <1>3, <3>1, AllocTyped DEF Register, TypeOK, TablesOK
    <3>3. rtcChan' \in [RtcIds -> AnyHandle]
      BY <1>3, <2>1 DEF Register, TypeOK, TablesOK, AnyHandle
    <3> QED BY <3>2, <3>3 DEF Register, TypeOK, TablesOK
  <2>10. QueueOK'
    <3>1. e \in Events  BY <1>1, <2>1 DEF Event, Events, AnyHandle
    <3>2. CASE AnnouncesIncoming(t)
      BY <1>3, <3>1, <3>2, EnqueueTyped DEF Register, TypeOK
    <3>3. CASE ~AnnouncesIncoming(t)  BY <1>3, <3>3, Kept DEF Register
    <3> QED BY <3>2, <3>3
  <2> QED BY <2>8, <2>9, <2>10, Kept DEF Register, TypeOK
<1> QED BY <1>2, <1>3

\* A thread that goes on to another label of register_channel.
LEMMA RegisterGoto ==
    ASSUME TypeOK, NEW t \in Threads, th[t].pc \in RegisterLabels,
           NEW l \in RegisterLabels \ {"wire"}, Goto(t, l)
    PROVE  th' \in [Threads -> ThreadStates]
<1> DEFINE c == th[t]
           r == [c EXCEPT !.pc = l]
<1>1. c \in Locals /\ c.dc \in RtcIds /\ c.peer \in Handles  BY Local DEF ChannelLabels
<1>2. r \in Locals /\ r.pc = l /\ r.dc \in RtcIds /\ r.peer \in Handles
  BY <1>1 DEF Locals, Labels, ChannelLabels
<1>3. ASSUME NEW s \in Locals, s.pc = l, s.dc \in RtcIds, s.peer \in Handles
      PROVE  s \in ThreadStates
  BY <1>3 DEF ThreadStates, PeerLabels, RegisterLabels
<1>4. r \in ThreadStates  BY <1>2, <1>3
<1> QED BY <1>4, ThreadTyped DEF Goto

LEMMA RegisteredTyped ==
    ASSUME TypeOK, NEW t \in Threads, th[t].pc \in RegisterLabels, Registered(t),
           UNCHANGED <<drainCap, log, gone>>
    PROVE  th' \in [Threads -> ThreadStates] /\ AppOK'
<1>1. CASE t = Script
  <2>1. th' \in [Threads -> ThreadStates]
    BY <1>1, IdleTyped, ThreadTyped DEF Registered, Return
  <2>2. known' \subseteq AnyHandle  BY <1>1, Local DEF Registered, TypeOK, AppOK
  <2> QED BY <2>1, <2>2 DEF TypeOK, AppOK
<1>2. CASE t # Script
  <2>1. Goto(t, "revalidate") /\ UNCHANGED known  BY <1>2 DEF Registered
  <2>2. th' \in [Threads -> ThreadStates]  BY <2>1, RegisterGoto DEF RegisterLabels
  <2> QED BY <2>1, <2>2 DEF TypeOK, AppOK
<1> QED BY <1>1, <1>2

LEMMA WireChannelTyped ==
    ASSUME TypeOK, NEW t \in Threads, WireChannel(t)
    PROVE  TypeOK'
<1> DEFINE c == th[t]
           k == FirstOf(c.ks, ChannelCallbacks)
<1>1. /\ c \in Locals /\ c.dc \in RtcIds /\ c.peer \in Handles
      /\ c.pc = "wire" /\ c.ks \subseteq Elems(ChannelCallbacks)
  BY Local DEF WireChannel, At, ChannelLabels, RegisterLabels
<1>2. CASE c.ks = {}
  <2>1. th' \in [Threads -> ThreadStates]
    BY <1>1, <1>2, RegisterGoto DEF WireChannel, RegisterLabels
  <2>2. UNCHANGED rtcVars  BY <1>2 DEF WireChannel, rtcVars
  <2> QED BY <2>1, <2>2, Kept DEF WireChannel, TypeOK, shimVars
<1>3. CASE c.ks # {}
  <2> DEFINE r == [c EXCEPT !.ks = @ \ {k}]
  <2>1. k \in CallbackNames  BY <1>1, <1>3, FirstOfMember DEF CallbackNames
  <2>2. r \in Locals /\ r.pc = "wire" /\ r.dc \in RtcIds /\ r.peer \in Handles
          /\ r.ks \subseteq Elems(ChannelCallbacks)
    BY <1>1 DEF Locals
  <2>3. ASSUME NEW s \in Locals, s.pc = "wire", s.dc \in RtcIds, s.peer \in Handles,
               s.ks \subseteq Elems(ChannelCallbacks)
        PROVE  s \in ThreadStates
    BY <2>3 DEF ThreadStates, PeerLabels
  <2>4. r \in ThreadStates  BY <2>2, <2>3
  <2>5. th' = [th EXCEPT ![t] = r]  BY <1>3 DEF WireChannel
  <2>6. th' \in [Threads -> ThreadStates]  BY <2>4, <2>5, ThreadTyped
  <2>7. LibraryOK'  BY <1>3, <2>1 DEF WireChannel, TypeOK, LibraryOK
  <2> QED BY <2>6, <2>7, Kept DEF WireChannel, TypeOK, shimVars
<1> QED BY <1>2, <1>3

LEMMA CheckOpenTyped ==
    ASSUME TypeOK, NEW t \in Threads, CheckOpen(t)
    PROVE  TypeOK'
<1>1. th[t].pc \in RegisterLabels  BY DEF CheckOpen, At, RegisterLabels
<1>2. th' \in [Threads -> ThreadStates] /\ AppOK'
  <2>1. CASE rtc[th[t].dc].st = "open"
    <3>1. th' \in [Threads -> ThreadStates]
      BY <1>1, <2>1, RegisterGoto DEF CheckOpen, RegisterLabels
    <3> QED BY <2>1, <3>1 DEF CheckOpen, TypeOK, AppOK
  <2>2. CASE rtc[th[t].dc].st # "open"  BY <1>1, <2>2, RegisteredTyped DEF CheckOpen
  <2> QED BY <2>1, <2>2
<1> QED BY <1>2, Kept DEF CheckOpen, TypeOK, shimVars

LEMMA AnnounceOpenTyped ==
    ASSUME TypeOK, NEW t \in Threads, AnnounceOpen(t)
    PROVE  TypeOK'
<1>1. th[t].pc \in RegisterLabels /\ th[t].chan \in AnyHandle /\ th[t].peer \in AnyHandle
  BY Local DEF AnnounceOpen, At, RegisterLabels
<1>2. TableOK(chans', ChannelObjects) /\ QueueOK'  BY <1>1, AnnounceTyped DEF AnnounceOpen
<1>3. th' \in [Threads -> ThreadStates] /\ AppOK'
  BY <1>1, RegisteredTyped DEF AnnounceOpen
<1>4. TablesOK'  BY <1>2 DEF AnnounceOpen, TypeOK, TablesOK
<1> QED BY <1>2, <1>3, <1>4, Kept DEF AnnounceOpen, TypeOK

\* -------------------------------------------------- entry points (the script)

LEMMA ScriptThread == Script \in Threads
  BY DEF Threads

\* The script at a label that promises nothing of its locals.
LEMMA ScriptTyped ==
    ASSUME TypeOK, NEW r \in Locals, th' = [th EXCEPT ![Script] = r],
           r.pc \in LoopLabels \cup {"idle", "rtc", "drain_lock", "retry"}
    PROVE  th' \in [Threads -> ThreadStates]
<1>1. r \in ThreadStates
  BY DEF ThreadStates, LoopLabels, PeerLabels, ChannelLabels, RegisterLabels
<1> QED BY <1>1, ScriptThread, ThreadTyped

LEMMA ScriptReturned ==
    ASSUME TypeOK, Return(Script)
    PROVE  th' \in [Threads -> ThreadStates]
  BY IdleTyped, ScriptThread, ThreadTyped DEF Return

LEMMA PeerNewTyped ==
    ASSUME TypeOK, NEW p \in RtcIds, PeerNew(p)
    PROVE  TypeOK'
<1> DEFINE r == [th[Script] EXCEPT !.pc = "pn_alloc", !.obj = p]
<1>1. r \in Locals /\ r.pc = "pn_alloc" /\ r.obj \in RtcIds
  BY ScriptThread, Local, ZenonT(60) DEF Locals, Labels, PeerLabels, AnyRtcId
<1>2. ASSUME NEW s \in Locals, s.pc = "pn_alloc", s.obj \in RtcIds
      PROVE  s \in ThreadStates
  BY <1>2 DEF ThreadStates, ChannelLabels, RegisterLabels
<1>3. r \in ThreadStates  BY <1>1, <1>2
<1>4. th' \in [Threads -> ThreadStates]
  BY <1>3, ScriptThread, ThreadTyped, ZenonT(60) DEF PeerNew
<1>5. LibraryOK'  BY DEF PeerNew, TypeOK, LibraryOK, RtcObjects, Object, AnyRtcId
<1> QED BY <1>4, <1>5, Kept DEF PeerNew, TypeOK, shimVars

LEMMA PeerAllocTyped ==
    ASSUME TypeOK, PeerAlloc
    PROVE  TypeOK'
<1> DEFINE c == th[Script]
           h == AllocHandle(peers)
<1>1. c \in Locals /\ c.obj \in RtcIds
  BY ScriptThread, Local DEF PeerAlloc, At, PeerLabels
<1>2. CASE h = NoHandle
  <2> DEFINE r == [c EXCEPT !.pc = "pn_refused"]
  <2>1. r \in Locals /\ r.pc = "pn_refused" /\ r.obj \in RtcIds
    BY <1>1 DEF Locals, Labels, PeerLabels
  <2>2. ASSUME NEW s \in Locals, s.pc = "pn_refused", s.obj \in RtcIds
        PROVE  s \in ThreadStates
    BY <2>2 DEF ThreadStates, ChannelLabels, RegisterLabels
  <2>3. r \in ThreadStates  BY <2>1, <2>2
  <2>4. th' \in [Threads -> ThreadStates]
    BY <1>2, <2>3, ScriptThread, ThreadTyped DEF PeerAlloc, Goto
  <2> QED BY <1>2, <2>4, Kept DEF PeerAlloc, TypeOK
<1>3. CASE h # NoHandle
  <2> DEFINE r == [c EXCEPT !.pc = "pn_wire", !.peer = h, !.ks = WiredAtBirth(PeerCallbacks)]
  <2>1. h \in Handles  BY <1>3, AllocSlot DEF AllocHandle, TypeOK, TablesOK
  <2>2. WiredAtBirth(PeerCallbacks) \subseteq Elems(PeerCallbacks)
        /\ WiredAtBirth(PeerCallbacks) \subseteq CallbackNames
    BY DEF WiredAtBirth, CallbackNames
  <2>3. r \in Locals /\ r.pc = "pn_wire" /\ r.obj \in RtcIds
          /\ r.ks = WiredAtBirth(PeerCallbacks)
    BY <1>1, <2>1, <2>2 DEF Locals, Labels, PeerLabels, AnyHandle
  <2>4. ASSUME NEW s \in Locals, s.pc = "pn_wire", s.obj \in RtcIds,
               s.ks \subseteq Elems(PeerCallbacks)
        PROVE  s \in ThreadStates
    BY <2>4 DEF ThreadStates, ChannelLabels, RegisterLabels
  <2>5. r \in ThreadStates  BY <2>2, <2>3, <2>4
  <2>10. th' = [th EXCEPT ![Script] = r]  BY <1>3 DEF PeerAlloc
  <2>6. th' \in [Threads -> ThreadStates]  BY <2>5, <2>10, ScriptThread, ThreadTyped
  <2>7. [rtc |-> c.obj] \in PeerObjects  BY <1>1 DEF PeerObjects
  <2>8. TableOK(peers', PeerObjects)
    BY <1>3, <2>7, AllocTyped DEF PeerAlloc, TypeOK, TablesOK
  <2>9. TablesOK'  BY <1>3, <2>1, <2>8 DEF PeerAlloc, TypeOK, TablesOK, AnyHandle
  <2> QED BY <2>6, <2>9, Kept DEF PeerAlloc, TypeOK
<1> QED BY <1>2, <1>3

LEMMA PeerRefusedTyped ==
    ASSUME TypeOK, PeerRefused
    PROVE  TypeOK'
<1>1. LibraryOK'  BY ZenonT(60) DEF PeerRefused, TypeOK, LibraryOK, RtcObjects
<1>2. th' \in [Threads -> ThreadStates]  BY ScriptReturned DEF PeerRefused
<1> QED BY <1>1, <1>2, Kept DEF PeerRefused, TypeOK, shimVars

LEMMA WirePeerTyped ==
    ASSUME TypeOK, WirePeer
    PROVE  TypeOK'
<1> DEFINE c == th[Script]
           k == FirstOf(c.ks, PeerCallbacks)
<1>1. c \in Locals /\ c.obj \in RtcIds /\ c.pc = "pn_wire" /\ c.ks \subseteq Elems(PeerCallbacks)
  BY ScriptThread, Local DEF WirePeer, At, PeerLabels
<1>2. CASE c.ks = {}
  <2>1. th' \in [Threads -> ThreadStates]  BY <1>2, ScriptReturned DEF WirePeer
  <2>2. UNCHANGED rtcVars  BY <1>2 DEF WirePeer, rtcVars
  <2> QED BY <2>1, <2>2, Kept DEF WirePeer, TypeOK, shimVars
<1>3. CASE c.ks # {}
  <2> DEFINE r == [c EXCEPT !.ks = @ \ {k}]
  <2>1. k \in CallbackNames  BY <1>1, <1>3, FirstOfMember DEF CallbackNames
  <2>2. r \in Locals /\ r.pc = "pn_wire" /\ r.obj \in RtcIds /\ r.ks \subseteq Elems(PeerCallbacks)
    BY <1>1 DEF Locals
  <2>3. ASSUME NEW s \in Locals, s.pc = "pn_wire", s.obj \in RtcIds,
               s.ks \subseteq Elems(PeerCallbacks)
        PROVE  s \in ThreadStates
    BY <2>3 DEF ThreadStates, ChannelLabels, RegisterLabels
  <2>4. r \in ThreadStates  BY <2>2, <2>3
  <2>5. th' \in [Threads -> ThreadStates]
    BY <1>3, <2>4, ScriptThread, ThreadTyped DEF WirePeer
  <2>6. LibraryOK'  BY <1>3, <2>1 DEF WirePeer, TypeOK, LibraryOK
  <2> QED BY <2>5, <2>6, Kept DEF WirePeer, TypeOK, shimVars
<1> QED BY <1>2, <1>3

LEMMA PeerCloseTyped ==
    ASSUME TypeOK, NEW h, PeerClose(h)
    PROVE  TypeOK'
<1>1. LibraryOK'  BY DEF PeerClose, TypeOK, LibraryOK, RtcObjects
<1> QED BY <1>1, Kept DEF PeerClose, TypeOK, shimVars

LEMMA ChannelNewTyped ==
    ASSUME TypeOK, NEW h, NEW d \in RtcIds, ChannelNew(h, d)
    PROVE  TypeOK'
<1> DEFINE p == Get(peers, h).rtc
           r == [Idle EXCEPT !.pc = "register", !.dc = d, !.peer = h]
<1>1. h \in Handles /\ p \in RtcIds  BY PeerEntry DEF ChannelNew
<1>2. r \in Locals /\ r.pc = "register" /\ r.dc \in RtcIds /\ r.peer \in Handles
  BY <1>1, IdleTyped DEF Locals, Labels, ChannelLabels, RegisterLabels, AnyRtcId, AnyHandle
<1>3. ASSUME NEW s \in Locals, s.pc = "register", s.dc \in RtcIds, s.peer \in Handles
      PROVE  s \in ThreadStates
  BY <1>3 DEF ThreadStates, PeerLabels
<1>4. r \in ThreadStates  BY <1>2, <1>3
<1>5. th' \in [Threads -> ThreadStates]  BY <1>4, ScriptThread, ThreadTyped DEF ChannelNew
<1>6. LibraryOK'  BY <1>1 DEF ChannelNew, TypeOK, LibraryOK, RtcObjects, Object, AnyRtcId
<1> QED BY <1>5, <1>6, Kept DEF ChannelNew, TypeOK, shimVars

LEMMA ChannelRefusedTyped ==
    ASSUME TypeOK, ChannelRefused
    PROVE  TypeOK'
<1>1. LibraryOK'  BY ZenonT(60) DEF ChannelRefused, TypeOK, LibraryOK, RtcObjects
<1>2. th' \in [Threads -> ThreadStates]  BY ScriptReturned DEF ChannelRefused
<1> QED BY <1>1, <1>2, Kept DEF ChannelRefused, TypeOK, shimVars

LEMMA ChannelCloseTyped ==
    ASSUME TypeOK, NEW h, ChannelClose(h)
    PROVE  TypeOK'
<1>1. LibraryOK'  BY ZenonT(60) DEF ChannelClose, TypeOK, LibraryOK, RtcObjects
<1> QED BY <1>1, Kept DEF ChannelClose, TypeOK, shimVars

LEMMA SetBufferedLowTyped ==
    ASSUME TypeOK, NEW h, SetBufferedLow(h)
    PROVE  TypeOK'
<1>1. LibraryOK'  BY KindsAssumption DEF SetBufferedLow, TypeOK, LibraryOK
<1> QED BY <1>1, Kept DEF SetBufferedLow, TypeOK, shimVars

\* ------------------------------------------------------------------- teardown

LEMMA AnyCallsTyped ==
    ASSUME NEW ids \in Seq(AnyRtcId)
    PROVE  Clear(ids) \in Seq(Calls) /\ Delete(ids) \in Seq(Calls) /\ ClearAndDelete(ids) \in Seq(Calls)
<1>1. Len(ids) \in Nat /\ DOMAIN ids = 1 .. Len(ids) /\ \A i \in 1 .. Len(ids) : ids[i] \in AnyRtcId
  OBVIOUS
<1>2. \A id \in AnyRtcId, op \in {"clear", "delete"} : [op |-> op, id |-> id] \in Calls
  BY DEF Calls
<1>3. Clear(ids) \in Seq(Calls) /\ Delete(ids) \in Seq(Calls)
  <2>1. \A i \in 1 .. Len(ids) : [op |-> "clear", id |-> ids[i]] \in Calls  BY <1>1, <1>2
  <2>2. \A i \in 1 .. Len(ids) : [op |-> "delete", id |-> ids[i]] \in Calls  BY <1>1, <1>2
  <2>3. Clear(ids) \in Seq(Calls)  BY <1>1, <2>1 DEF Clear
  <2>4. Delete(ids) \in Seq(Calls)  BY <1>1, <2>2 DEF Delete
  <2> QED BY <2>3, <2>4
<1>4. ClearAndDelete(ids) \in Seq(Calls)
  <2>1. \A i \in 1 .. 2 * Len(ids) : (i + 1) \div 2 \in 1 .. Len(ids)  BY <1>1
  <2>2. \A i \in 1 .. 2 * Len(ids) :
          [op |-> IF i % 2 = 1 THEN "clear" ELSE "delete", id |-> ids[(i + 1) \div 2]] \in Calls
    BY <1>1, <1>2, <2>1
  <2>3. 2 * Len(ids) \in Nat  BY <1>1
  <2> QED BY <2>2, <2>3 DEF ClearAndDelete
<1> QED BY <1>3, <1>4

LEMMA CallsTyped ==
    ASSUME NEW ids \in Seq(RtcIds)
    PROVE  Clear(ids) \in Seq(Calls) /\ Delete(ids) \in Seq(Calls) /\ ClearAndDelete(ids) \in Seq(Calls)
<1>1. RtcIds \subseteq AnyRtcId  BY DEF AnyRtcId
<1>2. ids \in Seq(AnyRtcId)  BY <1>1
<1> QED BY <1>2, AnyCallsTyped

\* What the script owes, and the rest of it.
LEMMA OwedTyped ==
    ASSUME TypeOK, NEW op, Owes(op)
    PROVE  /\ At(Script, "rtc") /\ th[Script].todo # <<>>
           /\ Head(th[Script].todo).id \in AnyRtcId /\ Tail(th[Script].todo) \in Seq(Calls)
<1>1. At(Script, "rtc") /\ th[Script].todo # <<>>  BY DEF Owes
<1>2. th[Script].todo \in Seq(Calls)  BY ScriptThread, Local
<1>3. Head(th[Script].todo) \in Calls /\ Tail(th[Script].todo) \in Seq(Calls)
  BY <1>1, <1>2
<1> QED BY <1>1, <1>3 DEF Calls

LEMMA TodoTyped ==
    ASSUME TypeOK, NEW op, Owes(op), th' = [th EXCEPT ![Script].todo = Tail(@)]
    PROVE  th' \in [Threads -> ThreadStates]
<1> DEFINE c == th[Script]
           r == [c EXCEPT !.todo = Tail(c.todo)]
<1>1. c \in Locals /\ Tail(c.todo) \in Seq(Calls) /\ c.pc = "rtc"
  BY OwedTyped, ScriptThread, Local DEF At
<1>2. r \in Locals /\ r.pc = "rtc"  BY <1>1 DEF Locals
<1>3. th' = [th EXCEPT ![Script] = r]  OBVIOUS
<1> QED BY <1>2, <1>3, ScriptTyped

LEMMA ClearCallbackTyped ==
    ASSUME TypeOK, ClearCallback
    PROVE  TypeOK'
<1> DEFINE c == th[Script]
           id == Head(c.todo).id
           order == IF IsPc(id) THEN PeerCallbacks ELSE ChannelCallbacks
           left == c.ks \cap Elems(order)
           k == FirstOf(left, order)
<1>1. c.pc = "rtc" /\ c \in Locals /\ Tail(c.todo) \in Seq(Calls)
  BY OwedTyped, ScriptThread, Local DEF ClearCallback, At
<1>2. CASE left = {}
  <2> DEFINE r == [c EXCEPT !.todo = Tail(@), !.ks = Kinds]
  <2>1. r \in Locals /\ r.pc = "rtc"  BY <1>1, KindsAssumption DEF Locals
  <2>2. th' = [th EXCEPT ![Script] = r]  BY <1>2 DEF ClearCallback
  <2>3. th' \in [Threads -> ThreadStates]  BY <2>1, <2>2, ScriptTyped
  <2>4. UNCHANGED rtcVars  BY <1>2 DEF ClearCallback, rtcVars
  <2> QED BY <2>3, <2>4, Kept DEF ClearCallback, TypeOK, shimVars
<1>3. CASE left # {}
  <2> DEFINE r == [c EXCEPT !.ks = @ \ {k}]
  <2>1. r \in Locals /\ r.pc = "rtc"  BY <1>1 DEF Locals
  <2>2. th' = [th EXCEPT ![Script] = r]  BY <1>3 DEF ClearCallback
  <2>3. th' \in [Threads -> ThreadStates]  BY <2>1, <2>2, ScriptTyped
  <2>4. LibraryOK'  BY <1>3 DEF ClearCallback, TypeOK, LibraryOK
  <2> QED BY <2>3, <2>4, Kept DEF ClearCallback, TypeOK, shimVars
<1> QED BY <1>2, <1>3

LEMMA DeleteObjectTyped ==
    ASSUME TypeOK, DeleteObject
    PROVE  TypeOK'
<1>1. th' \in [Threads -> ThreadStates]  BY TodoTyped DEF DeleteObject
<1>2. LibraryOK'  BY DEF DeleteObject, TypeOK, LibraryOK, RtcObjects
<1> QED BY <1>1, <1>2, Kept DEF DeleteObject, TypeOK, shimVars

LEMMA RtcCleanupTyped ==
    ASSUME TypeOK, RtcCleanup
    PROVE  TypeOK'
<1>1. th' \in [Threads -> ThreadStates]  BY TodoTyped DEF RtcCleanup
<1>2. LibraryOK'  BY DEF RtcCleanup, TypeOK, LibraryOK, RtcObjects
<1> QED BY <1>1, <1>2, Kept DEF RtcCleanup, TypeOK, shimVars

LEMMA RtcJoinTyped ==
    ASSUME TypeOK, RtcJoin
    PROVE  TypeOK'
<1>1. th' \in [Threads -> ThreadStates]  BY TodoTyped DEF RtcJoin
<1> QED BY <1>1, Kept DEF RtcJoin, TypeOK, shimVars

\* The script goes on to a label that promises nothing of its locals.
LEMMA ScriptGoto ==
    ASSUME TypeOK, NEW l \in LoopLabels \cup {"idle", "rtc", "drain_lock", "retry"}, Goto(Script, l)
    PROVE  th' \in [Threads -> ThreadStates]
<1> DEFINE r == [th[Script] EXCEPT !.pc = l]
<1>1. r \in Locals /\ r.pc = l  BY ScriptThread, Local, ZenonT(60) DEF Locals, Labels
<1> QED BY <1>1, ScriptTyped DEF Goto

LEMMA RtcDoneTyped ==
    ASSUME TypeOK, RtcDone
    PROVE  TypeOK'
<1>1. th' \in [Threads -> ThreadStates]  BY ScriptGoto, ScriptReturned DEF RtcDone
<1> QED BY <1>1, Kept DEF RtcDone, TypeOK, shimVars

LEMMA ChannelFreeTyped ==
    ASSUME TypeOK, NEW h, ChannelFree(h)
    PROVE  TypeOK'
<1> DEFINE d == Get(chans, h).rtc
           r == [Idle EXCEPT !.pc = "rtc", !.kind = "channel_free", !.ks = Kinds,
                             !.todo = ClearAndDelete(<<d>>)]
<1>1. h \in Handles /\ d \in RtcIds  BY ChannelEntry DEF ChannelFree
<1>2. ClearAndDelete(<<d>>) \in Seq(Calls)
  <2>1. <<d>> \in Seq(RtcIds)  BY <1>1
  <2> QED BY <2>1, CallsTyped
<1>3. r \in Locals /\ r.pc = "rtc"
  BY <1>2, IdleTyped, KindsAssumption DEF Locals, Labels, Runs
<1>4. th' \in [Threads -> ThreadStates]  BY <1>3, ScriptTyped DEF ChannelFree
<1>5. TableOK(chans', ChannelObjects)  BY FreeTyped DEF ChannelFree, TypeOK, TablesOK
<1>6. TablesOK'  BY <1>5 DEF ChannelFree, TypeOK, TablesOK, Unpublish, AnyHandle
<1>7. AppOK'  BY <1>1 DEF ChannelFree, TypeOK, AppOK, AnyHandle
<1> QED BY <1>4, <1>6, <1>7, Kept DEF ChannelFree, TypeOK

LEMMA PeerFreeLockTyped ==
    ASSUME TypeOK, NEW h, PeerFreeLock(h)
    PROVE  TypeOK'
<1> DEFINE r == [Idle EXCEPT !.pc = "pf_sweep", !.kind = "peer_free",
                             !.obj = Get(peers, h).rtc, !.peer = h]
<1>1. h \in Handles /\ Get(peers, h).rtc \in RtcIds  BY PeerEntry DEF PeerFreeLock
<1>2. r \in Locals /\ r.pc = "pf_sweep"
  BY <1>1, IdleTyped DEF Locals, Labels, LoopLabels, Runs, AnyRtcId, AnyHandle
<1>3. th' \in [Threads -> ThreadStates]  BY <1>2, ScriptTyped DEF PeerFreeLock, LoopLabels
<1> QED BY <1>3, Kept DEF PeerFreeLock, TypeOK, shimVars

\* The channel a sweep comes to: its handle and its rtc id.
LEMMA SweptTyped ==
    ASSUME TypeOK, NEW hs \in SUBSET LiveHandles(chans), hs # {}
    PROVE  FirstHandle(hs) \in Handles /\ Get(chans, FirstHandle(hs)).rtc \in RtcIds
<1>1. hs \subseteq Handles  BY LiveChannels
<1>2. FirstHandle(hs) \in hs  BY <1>1, FirstHandleMember
<1>3. Get(chans, FirstHandle(hs)) # Null  BY <1>2, LiveChannels
<1> QED BY <1>3, ChannelEntry

LEMMA PeerFreeSweepTyped ==
    ASSUME TypeOK, PeerFreeSweep
    PROVE  TypeOK'
<1> DEFINE c == th[Script]
           hs == ChannelsOf(c.peer)
           h == FirstHandle(hs)
           d == Get(chans, h).rtc
           r == [c EXCEPT !.dcs = Append(c.dcs, d)]
<1>1. h \in Handles /\ d \in RtcIds  BY SweptTyped DEF PeerFreeSweep, ChannelsOf
<1>2. c \in Locals /\ c.pc = "pf_sweep" /\ c.dcs \in Seq(RtcIds)
  BY ScriptThread, Local DEF PeerFreeSweep, At
<1>3. Append(c.dcs, d) \in Seq(RtcIds)  BY <1>1, <1>2
<1>4. r \in Locals /\ r.pc = "pf_sweep"  BY <1>2, <1>3 DEF Locals
<1>5. th' = [th EXCEPT ![Script] = r]  BY DEF PeerFreeSweep
<1>6. th' \in [Threads -> ThreadStates]  BY <1>4, <1>5, ScriptTyped DEF LoopLabels
<1>7. TableOK(chans', ChannelObjects)  BY FreeTyped DEF PeerFreeSweep, TypeOK, TablesOK
<1>8. TablesOK'  BY <1>7 DEF PeerFreeSweep, TypeOK, TablesOK, Unpublish, AnyHandle
<1>9. AppOK'  BY <1>1 DEF PeerFreeSweep, TypeOK, AppOK, AnyHandle
<1> QED BY <1>6, <1>8, <1>9, Kept DEF PeerFreeSweep, TypeOK

LEMMA PeerFreeDoneTyped ==
    ASSUME TypeOK, PeerFreeDone
    PROVE  TypeOK'
<1> DEFINE c == th[Script]
           todo == Teardown(c.obj, c.dcs)
           r == [c EXCEPT !.pc = "rtc", !.ks = Kinds, !.todo = todo]
<1>1. c \in Locals /\ c.dcs \in Seq(RtcIds) /\ c.obj \in AnyRtcId /\ c.peer \in AnyHandle
  BY ScriptThread, Local
<1>2. todo \in Seq(Calls)
  <2>1. Clear(<<c.obj>>) \in Seq(Calls) /\ Delete(<<c.obj>>) \in Seq(Calls)
    <3>1. <<c.obj>> \in Seq(AnyRtcId)  BY <1>1
    <3> QED BY <3>1, AnyCallsTyped
  <2>2. ClearAndDelete(c.dcs) \in Seq(Calls)  BY <1>1, CallsTyped
  <2> QED BY <2>1, <2>2 DEF Teardown
<1>3. r \in Locals /\ r.pc = "rtc"  BY <1>1, <1>2, KindsAssumption DEF Locals, Labels
<1>4. th' = [th EXCEPT ![Script] = r]  BY DEF PeerFreeDone
<1>5. th' \in [Threads -> ThreadStates]  BY <1>3, <1>4, ScriptTyped
<1>6. TableOK(peers', PeerObjects)  BY FreeTyped DEF PeerFreeDone, TypeOK, TablesOK
<1>7. TablesOK'  BY <1>6 DEF PeerFreeDone, TypeOK, TablesOK, AnyHandle
<1>8. ShadowOK'  BY DEF PeerFreeDone, TypeOK, ShadowOK, Erase
<1>9. AppOK'  BY <1>1 DEF PeerFreeDone, TypeOK, AppOK
<1> QED BY <1>5, <1>7, <1>8, <1>9, Kept DEF PeerFreeDone, TypeOK, Unlock

LEMMA CleanupLockTyped ==
    ASSUME TypeOK, CleanupLock
    PROVE  TypeOK'
<1> DEFINE r == [th[Script] EXCEPT !.pc = "cl_sweep", !.kind = "cleanup"]
<1>1. r \in Locals /\ r.pc = "cl_sweep"
  BY ScriptThread, Local, ZenonT(60) DEF Locals, Labels, LoopLabels, Runs
<1>2. th' \in [Threads -> ThreadStates]  BY <1>1, ScriptTyped DEF CleanupLock, LoopLabels
<1> QED BY <1>2, Kept DEF CleanupLock, TypeOK, shimVars

LEMMA CleanupChannelTyped ==
    ASSUME TypeOK, CleanupChannel
    PROVE  TypeOK'
<1> DEFINE c == th[Script]
           h == FirstHandle(LiveHandles(chans))
           d == Get(chans, h).rtc
           r == [c EXCEPT !.dcs = Append(c.dcs, d)]
<1>1. h \in Handles /\ d \in RtcIds  BY SweptTyped DEF CleanupChannel
<1>2. c \in Locals /\ c.pc = "cl_sweep" /\ c.dcs \in Seq(RtcIds)
  BY ScriptThread, Local DEF CleanupChannel, At
<1>3. Append(c.dcs, d) \in Seq(RtcIds)  BY <1>1, <1>2
<1>4. r \in Locals /\ r.pc = "cl_sweep"  BY <1>2, <1>3 DEF Locals
<1>5. th' = [th EXCEPT ![Script] = r]  BY DEF CleanupChannel
<1>6. th' \in [Threads -> ThreadStates]  BY <1>4, <1>5, ScriptTyped DEF LoopLabels
<1>7. TableOK(chans', ChannelObjects)  BY FreeTyped DEF CleanupChannel, TypeOK, TablesOK
<1>8. TablesOK'  BY <1>7 DEF CleanupChannel, TypeOK, TablesOK
<1>9. AppOK'  BY <1>1 DEF CleanupChannel, TypeOK, AppOK, AnyHandle
<1> QED BY <1>6, <1>8, <1>9, Kept DEF CleanupChannel, TypeOK

LEMMA CleanupPeerTyped ==
    ASSUME TypeOK, CleanupPeer
    PROVE  TypeOK'
<1> DEFINE c == th[Script]
           h == FirstHandle(LiveHandles(peers))
           p == Get(peers, h).rtc
           r == [c EXCEPT !.pcs = Append(c.pcs, p)]
<1>1. h \in Handles /\ p \in RtcIds
  <2>1. LiveHandles(peers) \subseteq Handles /\ LiveHandles(peers) # {}
    BY LivePeers DEF CleanupPeer
  <2>2. h \in LiveHandles(peers)  BY <2>1, FirstHandleMember
  <2>3. Get(peers, h) # Null  BY <2>2, LivePeers
  <2> QED BY <2>3, PeerEntry
<1>2. c \in Locals /\ c.pc = "cl_sweep" /\ c.pcs \in Seq(RtcIds)
  BY ScriptThread, Local DEF CleanupPeer, At
<1>3. Append(c.pcs, p) \in Seq(RtcIds)  BY <1>1, <1>2
<1>4. r \in Locals /\ r.pc = "cl_sweep"  BY <1>2, <1>3 DEF Locals
<1>5. th' = [th EXCEPT ![Script] = r]  BY DEF CleanupPeer
<1>6. th' \in [Threads -> ThreadStates]  BY <1>4, <1>5, ScriptTyped DEF LoopLabels
<1>7. TableOK(peers', PeerObjects)  BY FreeTyped DEF CleanupPeer, TypeOK, TablesOK
<1>8. TablesOK'  BY <1>7 DEF CleanupPeer, TypeOK, TablesOK
<1>9. AppOK'  BY <1>1 DEF CleanupPeer, TypeOK, AppOK, AnyHandle
<1> QED BY <1>6, <1>8, <1>9, Kept DEF CleanupPeer, TypeOK

LEMMA CleanupResetTyped ==
    ASSUME TypeOK, CleanupReset
    PROVE  TypeOK'
<1> DEFINE c == th[Script]
           dcs == c.dcs \o orphans
           last == <<[op |-> "cleanup", id |-> 0], [op |-> "join", id |-> 0]>>
           todo == Clear(c.pcs) \o Clear(dcs) \o Delete(dcs) \o Delete(c.pcs) \o last
           r == [c EXCEPT !.pc = "rtc", !.ks = Kinds, !.todo = todo]
<1>1. c \in Locals /\ c.dcs \in Seq(RtcIds) /\ c.pcs \in Seq(RtcIds)
  BY ScriptThread, Local
<1>2. dcs \in Seq(RtcIds)  BY <1>1 DEF TypeOK, TablesOK
<1>3. last \in Seq(Calls)
  <2>1. [op |-> "cleanup", id |-> 0] \in Calls /\ [op |-> "join", id |-> 0] \in Calls
    BY DEF Calls, AnyRtcId
  <2> QED BY <2>1
<1>4. /\ Clear(c.pcs) \in Seq(Calls) /\ Delete(c.pcs) \in Seq(Calls)
      /\ Clear(dcs) \in Seq(Calls) /\ Delete(dcs) \in Seq(Calls)
  BY <1>1, <1>2, CallsTyped
<1>5. todo \in Seq(Calls)
  <2>1. ASSUME NEW a \in Seq(Calls), NEW b \in Seq(Calls) PROVE a \o b \in Seq(Calls)
    OBVIOUS
  <2> QED BY <1>3, <1>4, <2>1
<1>6. r \in Locals /\ r.pc = "rtc"  BY <1>1, <1>5, KindsAssumption DEF Locals, Labels
<1>7. th' = [th EXCEPT ![Script] = r]  BY DEF CleanupReset
<1>8. th' \in [Threads -> ThreadStates]  BY <1>6, <1>7, ScriptTyped
<1>9. TablesOK'  BY DEF CleanupReset, TypeOK, TablesOK, NoMap, AnyHandle
<1>10. ShadowOK'  BY DEF CleanupReset, ShadowOK, NoShadow
<1>11. QueueOK'  BY DEF CleanupReset, TypeOK, QueueOK
<1> QED BY <1>8, <1>9, <1>10, <1>11, Kept DEF CleanupReset, TypeOK, Unlock

\* ------------------------------------------------------------------ the drain

LEMMA PollTyped ==
    ASSUME TypeOK, NEW again \in BOOLEAN, Poll(again)
    PROVE  TypeOK'
<1> DEFINE r == [Idle EXCEPT !.pc = "rtc", !.kind = "poll", !.ks = Kinds,
                             !.todo = ClearAndDelete(orphans), !.again = again]
<1>1. ClearAndDelete(orphans) \in Seq(Calls)  BY CallsTyped DEF TypeOK, TablesOK
<1>2. r \in Locals /\ r.pc = "rtc"
  BY <1>1, IdleTyped, KindsAssumption DEF Locals, Labels, Runs
<1>3. th' \in [Threads -> ThreadStates]  BY <1>2, ScriptTyped DEF Poll
<1>4. TablesOK'  BY DEF Poll, TypeOK, TablesOK
<1> QED BY <1>3, <1>4, Kept DEF Poll, TypeOK

LEMMA DrainLockTyped ==
    ASSUME TypeOK, DrainLock
    PROVE  TypeOK'
<1> DEFINE r == [th[Script] EXCEPT !.pc = "drain", !.used = 2]
<1>1. r \in Locals /\ r.pc = "drain"
  BY ScriptThread, Local, ZenonT(60) DEF Locals, Labels, LoopLabels
<1>2. th' \in [Threads -> ThreadStates]  BY <1>1, ScriptTyped DEF DrainLock, LoopLabels
<1> QED BY <1>2, Kept DEF DrainLock, TypeOK, shimVars

LEMMA DrainDiscardTyped ==
    ASSUME TypeOK, DrainDiscard
    PROVE  TypeOK'
<1>1. QueueOK'  BY PopTyped DEF DrainDiscard, TypeOK
<1> QED BY <1>1, Kept DEF DrainDiscard, TypeOK, shimVars

LEMMA DrainDeliverTyped ==
    ASSUME TypeOK, DrainDeliver
    PROVE  TypeOK'
<1> DEFINE c == th[Script]
           e == Head(queue)
           used == c.used + Wire(e)
           n == c.n + 1
           r == [c EXCEPT !.used = used, !.n = n]
<1>1. QueueOK' /\ e \in Events  BY PopTyped DEF DrainDeliver, TypeOK
<1>2. Wire(e) \in Nat /\ e.chan \in AnyHandle  BY <1>1, WireTyped DEF Events
<1>3. c \in Locals /\ c.pc = "drain" /\ c.used \in Nat /\ c.n \in Nat
  BY ScriptThread, Local DEF DrainDeliver, At, Locals
<1>4. r \in Locals /\ r.pc = "drain"
  <2>1. used \in Nat /\ n \in Nat  BY <1>2, <1>3
  <2> HIDE DEF used, n
  <2> QED BY <1>3, <2>1 DEF Locals
<1>5. th' = [th EXCEPT ![Script] = r]  BY DEF DrainDeliver
<1>6. th' \in [Threads -> ThreadStates]  BY <1>4, <1>5, ScriptTyped DEF LoopLabels
<1>7. AppOK'  BY <1>1, <1>2 DEF DrainDeliver, TypeOK, AppOK
<1> QED BY <1>1, <1>6, <1>7, Kept DEF DrainDeliver, TypeOK, shimVars

LEMMA DrainEndTyped ==
    ASSUME TypeOK, DrainEnd
    PROVE  TypeOK'
<1>1. OverflowReport \in Events
  BY DEF OverflowReport, EventReport, Event, Events, AnyHandle, TypeOK, QueueOK
<1>2. Need \in Nat
  <2>1. Wire(IF queue = <<>> THEN OverflowReport ELSE Head(queue)) \in Nat
    BY <1>1, WireTyped DEF TypeOK, QueueOK
  <2> QED BY <2>1 DEF Need
<1>3. QueueOK'  BY DEF DrainEnd, TypeOK, QueueOK
<1>4. log' \in Seq(Events)  BY <1>1, SMTT(30) DEF DrainEnd, TypeOK, AppOK
<1>5. th' \in [Threads -> ThreadStates] /\ drainCap' \in Nat
  <2>1. CASE Short /\ ~th[Script].again
    BY <1>2, <2>1, ScriptGoto DEF DrainEnd, TypeOK, AppOK
  <2>2. CASE ~(Short /\ ~th[Script].again)
    BY <2>2, ScriptReturned DEF DrainEnd, TypeOK, AppOK
  <2> QED BY <2>1, <2>2
<1>6. AppOK'  BY <1>4, <1>5 DEF DrainEnd, TypeOK, AppOK
<1> QED BY <1>3, <1>5, <1>6, Kept DEF DrainEnd, TypeOK, Unlock, shimVars

\* --------------------------------------------------------------- the theorems

LEMMA InitTyped ==
    Init => TypeOK
<1>1. TableOK(EmptyTable, PeerObjects) /\ TableOK(EmptyTable, ChannelObjects)
  BY EmptyTableOK
<1> SUFFICES ASSUME Init PROVE TypeOK  OBVIOUS
<1>2. TablesOK  BY <1>1 DEF Init, TablesOK, NoMap, AnyHandle
<1>3. ShadowOK /\ QueueOK  BY DEF Init, ShadowOK, NoShadow, QueueOK
<1>4. th \in [Threads -> ThreadStates]  BY IdleTyped DEF Init
<1>5. LibraryOK  BY DEF Init, LibraryOK, RtcObjects, AnyRtcId
<1>6. AppOK  BY ShimAssumption DEF Init, AppOK
<1> QED BY <1>2, <1>3, <1>4, <1>5, <1>6 DEF Init, TypeOK

LEMMA CallbackStepTyped ==
    ASSUME TypeOK, NEW w \in Workers, CallbackStep(w)
    PROVE  TypeOK'
<1>1. w \in Threads  BY DEF Threads
<1> QED
  BY <1>1, PeerCallbackTyped, OpenCallbackTyped, ChannelCallbackTyped, LookupTyped, OrphanTyped,
     RevalidateTyped, RegisterTyped, WireChannelTyped, CheckOpenTyped, AnnounceOpenTyped
     DEF CallbackStep

LEMMA CallTyped ==
    ASSUME TypeOK, Call
    PROVE  TypeOK'
  BY PeerNewTyped, PeerCloseTyped, PeerFreeLockTyped, ChannelNewTyped, ChannelCloseTyped,
     SetBufferedLowTyped, ChannelFreeTyped, CleanupLockTyped DEF Call

LEMMA ScriptStepTyped ==
    ASSUME TypeOK, ScriptStep
    PROVE  TypeOK'
<1>1. CASE \/ Register(Script) \/ WireChannel(Script) \/ CheckOpen(Script) \/ AnnounceOpen(Script)
  BY <1>1, ScriptThread, RegisterTyped, WireChannelTyped, CheckOpenTyped, AnnounceOpenTyped
<1>2. CASE PollRetry  BY <1>2, PollTyped DEF PollRetry
<1> QED
  BY <1>1, <1>2, PeerAllocTyped, PeerRefusedTyped, WirePeerTyped, ChannelRefusedTyped,
     ClearCallbackTyped, DeleteObjectTyped, RtcCleanupTyped, RtcJoinTyped, RtcDoneTyped,
     PeerFreeSweepTyped, PeerFreeDoneTyped, CleanupChannelTyped, CleanupPeerTyped,
     CleanupResetTyped, DrainLockTyped, DrainDiscardTyped, DrainDeliverTyped, DrainEndTyped
     DEF ScriptStep

LEMMA NextTyped ==
    ASSUME TypeOK, [Next]_vars
    PROVE  TypeOK'
<1>1. CASE Library  BY <1>1, LibraryTyped, FireTyped, FireDataChannelTyped DEF Library
<1>2. CASE \E w \in Workers : CallbackStep(w)  BY <1>2, CallbackStepTyped
<1>3. CASE Call  BY <1>3, CallTyped
<1>4. CASE PollStart  BY <1>4, PollTyped DEF PollStart
<1>5. CASE ScriptStep  BY <1>5, ScriptStepTyped
<1>6. CASE UNCHANGED vars  BY <1>6, Kept DEF vars, TypeOK, shimVars
<1> QED BY <1>1, <1>2, <1>3, <1>4, <1>5, <1>6 DEF Next

\* Whatever the number of workers, slots and objects and whatever the caps, no
\* interleaving of callbacks, entry points, teardowns and drains stores a value
\* of the wrong kind: in particular every handle the shim maps or reports is a
\* handle, and every rtc id it frees or parks is an rtc id.
THEOREM TypeCorrect == Spec => []TypeOK
  BY InitTyped, NextTyped, PTL DEF Spec

\* ----------------------------------------------------------------------- g_mu

LEMMA OutsideKeeps ==
    ASSUME LockDiscipline, NEW t \in Threads, MovesOutside(t)
    PROVE  LockDiscipline'
<1>1. th'[Script].pc \in LoopLabels <=> th[Script].pc \in LoopLabels
  BY DEF MovesOutside, Threads
<1>2. ASSUME NEW w \in Workers PROVE th'[w].pc \notin LoopLabels \cup {"rtc"}
  <2>1. w \in Threads /\ w # Script  BY ShimAssumption DEF Threads
  <2> QED BY <2>1 DEF MovesOutside, LockDiscipline
<1>3. mu' = mu  BY DEF MovesOutside
<1> QED BY <1>1, <1>2, <1>3 DEF LockDiscipline

\* The script moves, and holds g_mu afterwards exactly if it is in a loop.
LEMMA ScriptKeeps ==
    ASSUME LockDiscipline, \A w \in Workers : th'[w] = th[w],
           (mu' = Script) <=> (th'[Script].pc \in LoopLabels)
    PROVE  LockDiscipline'
  BY DEF LockDiscipline

LEMMA IdleOutside == Idle.pc = "idle" /\ Idle.pc \notin LoopLabels
  BY DEF Idle, LoopLabels

LEMMA CallbackOutside ==
    ASSUME TypeOK, NEW w \in Workers,
           \/ PeerCallback(w) \/ OpenCallback(w) \/ ChannelCallback(w)
           \/ Lookup(w) \/ Orphan(w) \/ Revalidate(w)
    PROVE  MovesOutside(w)
<1>1. w \in Threads /\ th[w] \in Locals /\ th \in [Threads -> ThreadStates]
  BY Local DEF Threads, TypeOK
<1>2. CASE Lookup(w)  BY <1>1, <1>2 DEF Lookup, MovesOutside, At, LoopLabels, Locals
<1>3. CASE ~Lookup(w)
  <2>1. Return(w) /\ UNCHANGED mu /\ th[w].pc \notin LoopLabels
    BY <1>3 DEF PeerCallback, OpenCallback, ChannelCallback, Orphan, Revalidate, At, LoopLabels
  <2> QED BY <1>1, <2>1, IdleOutside DEF Return, MovesOutside
<1> QED BY <1>2, <1>3

LEMMA GotoOutside ==
    ASSUME TypeOK, NEW t \in Threads, NEW l, Goto(t, l), th[t].pc \notin LoopLabels,
           l \notin LoopLabels \cup {"rtc"}, UNCHANGED mu
    PROVE  MovesOutside(t)
<1>1. th[t] \in Locals /\ th \in [Threads -> ThreadStates]  BY Local DEF TypeOK
<1> QED BY <1>1 DEF Goto, MovesOutside, Locals

LEMMA ReturnOutside ==
    ASSUME TypeOK, NEW t \in Threads, Return(t), th[t].pc \notin LoopLabels, UNCHANGED mu
    PROVE  MovesOutside(t)
  BY IdleOutside DEF TypeOK, Return, MovesOutside

LEMMA RegisteredOutside ==
    ASSUME TypeOK, NEW t \in Threads, Registered(t), th[t].pc \notin LoopLabels, UNCHANGED mu
    PROVE  MovesOutside(t)
  BY GotoOutside, ReturnOutside DEF Registered, LoopLabels

LEMMA RegisterOutside ==
    ASSUME TypeOK, NEW t \in Threads,
           Register(t) \/ WireChannel(t) \/ CheckOpen(t) \/ AnnounceOpen(t)
    PROVE  MovesOutside(t)
<1>1. th[t].pc \in {"register", "wire", "isopen", "announce"} /\ UNCHANGED mu
  BY DEF Register, WireChannel, CheckOpen, AnnounceOpen, At
<1>2. th[t].pc \notin LoopLabels  BY <1>1 DEF LoopLabels
<1>3. th[t] \in Locals /\ th \in [Threads -> ThreadStates]  BY Local DEF TypeOK
<1>4. CASE Register(t)
  <2>1. CASE AllocHandle(chans) = NoHandle
    BY <1>1, <1>2, <1>4, <2>1, GotoOutside DEF Register, LoopLabels
  <2>2. CASE AllocHandle(chans) # NoHandle
    BY <1>1, <1>2, <1>3, <1>4, <2>2 DEF Register, MovesOutside, LoopLabels, Locals
  <2> QED BY <2>1, <2>2
<1>5. CASE WireChannel(t)
  <2>1. CASE th[t].ks = {}
    BY <1>1, <1>2, <1>5, <2>1, GotoOutside DEF WireChannel, LoopLabels
  <2>2. CASE th[t].ks # {}
    BY <1>1, <1>2, <1>3, <1>5, <2>2 DEF WireChannel, MovesOutside, LoopLabels, Locals
  <2> QED BY <2>1, <2>2
<1>6. CASE CheckOpen(t)
  BY <1>1, <1>2, <1>6, GotoOutside, RegisteredOutside DEF CheckOpen, LoopLabels
<1>7. CASE AnnounceOpen(t)  BY <1>1, <1>2, <1>7, RegisteredOutside DEF AnnounceOpen
<1> QED BY <1>4, <1>5, <1>6, <1>7

LEMMA LibraryLock ==
    ASSUME TypeOK, LockDiscipline, Library
    PROVE  LockDiscipline'
<1>1. CASE \E d \in RtcIds : RtcChannelOpens(d) \/ RtcChannelCloses(d)
  BY <1>1 DEF RtcChannelOpens, RtcChannelCloses, LockDiscipline
<1>2. ASSUME NEW w \in Workers, NEW r, At(w, "idle"), th' = [th EXCEPT ![w] = r],
             r.pc \in {"body", "lookup"}, UNCHANGED mu
      PROVE  LockDiscipline'
  <2>1. MovesOutside(w) /\ w \in Threads
    BY <1>2 DEF MovesOutside, At, LoopLabels, TypeOK, Threads
  <2> QED BY <2>1, OutsideKeeps
<1>3. ASSUME NEW w \in Workers, NEW id \in RtcIds, NEW k \in Kinds, Fire(w, id, k)
      PROVE  LockDiscipline'
  <2>1. PICK n \in Argument(k) :
           th' = [th EXCEPT ![w] = [Idle EXCEPT !.pc = "body", !.obj = id, !.kind = k, !.n = n]]
    BY <1>3, Zenon DEF Fire
  <2>2. [Idle EXCEPT !.pc = "body", !.obj = id, !.kind = k, !.n = n].pc = "body"
    BY DEF Idle
  <2> QED BY <1>2, <1>3, <2>1, <2>2 DEF Fire
<1>4. ASSUME NEW w \in Workers, NEW p \in RtcIds, NEW d \in RtcIds, FireDataChannel(w, p, d)
      PROVE  LockDiscipline'
  <2>1. PICK n \in Sizes :
           th' = [th EXCEPT ![w] = [Idle EXCEPT !.pc = "lookup", !.obj = p, !.dc = d,
                                              !.kind = "DATA_CHANNEL", !.n = n]]
    BY <1>4, Zenon DEF FireDataChannel
  <2>2. [Idle EXCEPT !.pc = "lookup", !.obj = p, !.dc = d, !.kind = "DATA_CHANNEL", !.n = n].pc
          = "lookup"
    BY DEF Idle
  <2> QED BY <1>2, <1>4, <2>1, <2>2 DEF FireDataChannel
<1> QED BY <1>1, <1>3, <1>4 DEF Library

\* The script's own steps, by what they do to g_mu: nothing, outside the loops
\* (Outside), or inside one (Inside); take it; or release it.
LEMMA ScriptOutside ==
    ASSUME TypeOK, LockDiscipline, UNCHANGED mu, th[Script].pc \notin LoopLabels,
           NEW r, th' = [th EXCEPT ![Script] = r], r.pc \notin LoopLabels
    PROVE  LockDiscipline'
<1>1. th'[Script] = r /\ \A w \in Workers : th'[w] = th[w]
  BY ScriptThread, ShimAssumption DEF TypeOK, Threads
<1>2. mu # Script  BY DEF LockDiscipline
<1> QED BY <1>1, <1>2, ScriptKeeps

LEMMA ScriptInside ==
    ASSUME TypeOK, LockDiscipline, UNCHANGED mu, th[Script].pc \in LoopLabels,
           NEW r, th' = [th EXCEPT ![Script] = r], r.pc = th[Script].pc
    PROVE  LockDiscipline'
<1>1. th'[Script] = r /\ \A w \in Workers : th'[w] = th[w]
  BY ScriptThread, ShimAssumption DEF TypeOK, Threads
<1>2. mu = Script  BY DEF LockDiscipline
<1> QED BY <1>1, <1>2, ScriptKeeps

LEMMA ScriptTakes ==
    ASSUME TypeOK, LockDiscipline, mu' = Script,
           NEW r, th' = [th EXCEPT ![Script] = r], r.pc \in LoopLabels
    PROVE  LockDiscipline'
<1>1. th'[Script] = r /\ \A w \in Workers : th'[w] = th[w]
  BY ScriptThread, ShimAssumption DEF TypeOK, Threads
<1> QED BY <1>1, ScriptKeeps

LEMMA ScriptReleases ==
    ASSUME TypeOK, LockDiscipline, Unlock,
           NEW r, th' = [th EXCEPT ![Script] = r], r.pc \notin LoopLabels
    PROVE  LockDiscipline'
<1>1. th'[Script] = r /\ \A w \in Workers : th'[w] = th[w]
  BY ScriptThread, ShimAssumption DEF TypeOK, Threads
<1>2. mu' # Script  BY ShimAssumption DEF Unlock
<1> QED BY <1>1, <1>2, ScriptKeeps

\* The script's label after a step that changes some of its locals.
LEMMA LabelSet ==
    ASSUME NEW c \in Locals, NEW l
    PROVE  [c EXCEPT !.pc = l].pc = l
  BY DEF Locals

LEMMA CallLock ==
    ASSUME TypeOK, LockDiscipline, Call
    PROVE  LockDiscipline'
<1> DEFINE c == th[Script]
<1>1. c \in Locals  BY ScriptThread, Local
<1>2. CASE At(Script, "idle") /\ UNCHANGED <<mu, th>>  BY <1>2 DEF LockDiscipline
<1>3. ASSUME NEW r, At(Script, "idle"), UNCHANGED mu, th' = [th EXCEPT ![Script] = r],
             r.pc \in {"pn_alloc", "register", "rtc"}
      PROVE  LockDiscipline'
  BY <1>3, ScriptOutside DEF At, LoopLabels
<1>4. ASSUME NEW r, mu' = Script, th' = [th EXCEPT ![Script] = r], r.pc \in {"pf_sweep", "cl_sweep"}
      PROVE  LockDiscipline'
  BY <1>4, ScriptTakes DEF LoopLabels
<1>5. ASSUME NEW p \in RtcIds, PeerNew(p) PROVE LockDiscipline'
  <2>1. [c EXCEPT !.pc = "pn_alloc", !.obj = p].pc = "pn_alloc"  BY <1>1 DEF Locals
  <2> QED BY <1>3, <1>5, <2>1 DEF PeerNew
<1>6. ASSUME NEW h, NEW d \in RtcIds, ChannelNew(h, d) PROVE LockDiscipline'
  <2>1. [Idle EXCEPT !.pc = "register", !.dc = d, !.peer = h].pc = "register"  BY DEF Idle
  <2> QED BY <1>3, <1>6, <2>1 DEF ChannelNew
<1>7. ASSUME NEW h, ChannelFree(h) PROVE LockDiscipline'
  <2> DEFINE todo == ClearAndDelete(<<Get(chans, h).rtc>>)
  <2>1. [Idle EXCEPT !.pc = "rtc", !.kind = "channel_free", !.ks = Kinds, !.todo = todo].pc = "rtc"
    BY DEF Idle
  <2> QED BY <1>3, <1>7, <2>1 DEF ChannelFree
<1>8. ASSUME NEW h, PeerFreeLock(h) PROVE LockDiscipline'
  <2>1. [Idle EXCEPT !.pc = "pf_sweep", !.kind = "peer_free", !.obj = Get(peers, h).rtc,
                     !.peer = h].pc = "pf_sweep"
    BY DEF Idle
  <2> QED BY <1>4, <1>8, <2>1 DEF PeerFreeLock
<1>9. CASE CleanupLock
  <2>1. [c EXCEPT !.pc = "cl_sweep", !.kind = "cleanup"].pc = "cl_sweep"
    BY <1>1 DEF Locals
  <2> QED BY <1>4, <1>9, <2>1 DEF CleanupLock
<1>10. ASSUME NEW h, PeerClose(h) \/ ChannelClose(h) \/ SetBufferedLow(h) PROVE LockDiscipline'
  BY <1>2, <1>10 DEF PeerClose, ChannelClose, SetBufferedLow
<1> QED BY <1>5, <1>6, <1>7, <1>8, <1>9, <1>10 DEF Call

LEMMA PollLock ==
    ASSUME TypeOK, LockDiscipline, NEW again, Poll(again), th[Script].pc \in {"idle", "retry"}
    PROVE  LockDiscipline'
<1>1. [Idle EXCEPT !.pc = "rtc", !.kind = "poll", !.ks = Kinds,
                   !.todo = ClearAndDelete(orphans), !.again = again].pc = "rtc"
  BY DEF Idle
<1>2. "rtc" \notin LoopLabels /\ th[Script].pc \notin LoopLabels  BY DEF LoopLabels
<1> QED BY <1>1, <1>2, ScriptOutside DEF Poll

LEMMA ScriptStepLock ==
    ASSUME TypeOK, LockDiscipline, ScriptStep
    PROVE  LockDiscipline'
<1> DEFINE c == th[Script]
<1>1. c \in Locals  BY ScriptThread, Local
<1>2. CASE \/ Register(Script) \/ WireChannel(Script) \/ CheckOpen(Script) \/ AnnounceOpen(Script)
  BY <1>2, ScriptThread, RegisterOutside, OutsideKeeps
<1>3. ASSUME Goto(Script, "pn_refused") \/ Goto(Script, "drain_lock") \/ Return(Script),
             UNCHANGED mu, c.pc \notin LoopLabels
      PROVE  LockDiscipline'
  BY <1>3, ScriptThread, GotoOutside, ReturnOutside, OutsideKeeps DEF LoopLabels
<1>4. CASE PeerAlloc
  <2>1. CASE AllocHandle(peers) = NoHandle
    BY <1>3, <1>4, <2>1 DEF PeerAlloc, At, LoopLabels
  <2>2. CASE AllocHandle(peers) # NoHandle
    <3> DEFINE r == [c EXCEPT !.pc = "pn_wire", !.peer = AllocHandle(peers),
                              !.ks = WiredAtBirth(PeerCallbacks)]
    <3>1. r.pc = "pn_wire"  BY <1>1 DEF Locals
    <3>2. th' = [th EXCEPT ![Script] = r]  BY <1>4, <2>2 DEF PeerAlloc
    <3>3. UNCHANGED mu /\ c.pc \notin LoopLabels /\ r.pc \notin LoopLabels
      BY <1>4, <3>1 DEF PeerAlloc, At, LoopLabels
    <3> QED BY <3>2, <3>3, ScriptOutside
  <2> QED BY <2>1, <2>2
<1>5. CASE PeerRefused \/ ChannelRefused
  BY <1>3, <1>5 DEF PeerRefused, ChannelRefused, At, LoopLabels
<1>6. CASE WirePeer
  <2>1. CASE c.ks = {}  BY <1>3, <1>6, <2>1 DEF WirePeer, At, LoopLabels
  <2>2. CASE c.ks # {}
    <3> DEFINE r == [c EXCEPT !.ks = @ \ {FirstOf(c.ks, PeerCallbacks)}]
    <3>1. r.pc = c.pc  BY <1>1 DEF Locals
    <3>2. th' = [th EXCEPT ![Script] = r]  BY <1>6, <2>2 DEF WirePeer
    <3>3. UNCHANGED mu /\ c.pc \notin LoopLabels  BY <1>6 DEF WirePeer, At, LoopLabels
    <3> QED BY <3>1, <3>2, <3>3, ScriptOutside
  <2> QED BY <2>1, <2>2
<1>7. ASSUME NEW op, Owes(op), UNCHANGED mu, NEW r, th' = [th EXCEPT ![Script] = r], r.pc = c.pc
      PROVE  LockDiscipline'
  <2>1. c.pc \notin LoopLabels  BY <1>7 DEF Owes, At, LoopLabels
  <2> QED BY <1>7, <2>1, ScriptOutside
<1>8. CASE ClearCallback
  <2> DEFINE order == IF IsPc(Head(c.todo).id) THEN PeerCallbacks ELSE ChannelCallbacks
             left == c.ks \cap Elems(order)
  <2>1. CASE left = {}
    <3>1. th' = [th EXCEPT ![Script] = [c EXCEPT !.todo = Tail(@), !.ks = Kinds]]
      BY <1>8, <2>1 DEF ClearCallback
    <3>2. [c EXCEPT !.todo = Tail(@), !.ks = Kinds].pc = c.pc  BY <1>1 DEF Locals
    <3> QED BY <1>7, <1>8, <3>1, <3>2 DEF ClearCallback
  <2>2. CASE left # {}
    <3>1. th' = [th EXCEPT ![Script] = [c EXCEPT !.ks = @ \ {FirstOf(left, order)}]]
      BY <1>8, <2>2 DEF ClearCallback
    <3>2. [c EXCEPT !.ks = @ \ {FirstOf(left, order)}].pc = c.pc  BY <1>1 DEF Locals
    <3> QED BY <1>7, <1>8, <3>1, <3>2 DEF ClearCallback
  <2> QED BY <2>1, <2>2
<1>9. CASE DeleteObject \/ RtcCleanup \/ RtcJoin
  <2>1. PICK op \in {"delete", "cleanup", "join"} :
           Owes(op) /\ UNCHANGED mu /\ th' = [th EXCEPT ![Script].todo = Tail(@)]
    BY <1>9 DEF DeleteObject, RtcCleanup, RtcJoin
  <2>2. [c EXCEPT !.todo = Tail(@)].pc = c.pc  BY <1>1 DEF Locals
  <2> QED BY <1>7, <2>1, <2>2
<1>10. CASE RtcDone  BY <1>3, <1>10 DEF RtcDone, At, LoopLabels
<1>11. ASSUME NEW r, UNCHANGED mu, th' = [th EXCEPT ![Script] = r], r.pc = c.pc,
              At(Script, "pf_sweep") \/ At(Script, "cl_sweep") \/ At(Script, "drain")
       PROVE  LockDiscipline'
  BY <1>11, ScriptInside DEF At, LoopLabels
<1>12. CASE PeerFreeSweep \/ CleanupChannel
  <2>1. PICK d : th' = [th EXCEPT ![Script] = [c EXCEPT !.dcs = Append(@, d)]]
    BY <1>12 DEF PeerFreeSweep, CleanupChannel
  <2>2. [c EXCEPT !.dcs = Append(@, d)].pc = c.pc  BY <1>1 DEF Locals
  <2> QED BY <1>11, <1>12, <2>1, <2>2 DEF PeerFreeSweep, CleanupChannel
<1>13. CASE CleanupPeer
  <2> DEFINE p == Get(peers, FirstHandle(LiveHandles(peers))).rtc
  <2>1. [c EXCEPT !.pcs = Append(@, p)].pc = c.pc  BY <1>1 DEF Locals
  <2> QED BY <1>11, <1>13, <2>1 DEF CleanupPeer
<1>14. ASSUME NEW todo, Unlock,
              th' = [th EXCEPT ![Script] = [c EXCEPT !.pc = "rtc", !.ks = Kinds, !.todo = todo]]
       PROVE  LockDiscipline'
  <2>1. [c EXCEPT !.pc = "rtc", !.ks = Kinds, !.todo = todo].pc = "rtc"
    BY <1>1 DEF Locals
  <2>2. "rtc" \notin LoopLabels  BY DEF LoopLabels
  <2> QED BY <1>14, <2>1, <2>2, ScriptReleases
<1>15. CASE PeerFreeDone  BY <1>14, <1>15, Zenon DEF PeerFreeDone
<1>16. CASE CleanupReset  BY <1>14, <1>16, Zenon DEF CleanupReset
<1>17. CASE PollRetry  BY <1>17, PollLock DEF PollRetry, At
<1>18. CASE DrainLock
  <2>1. [c EXCEPT !.pc = "drain", !.used = 2].pc = "drain"  BY <1>1 DEF Locals
  <2>2. "drain" \in LoopLabels  BY DEF LoopLabels
  <2> QED BY <1>18, <2>1, <2>2, ScriptTakes DEF DrainLock
<1>19. CASE DrainDiscard  BY <1>19 DEF DrainDiscard, LockDiscipline
<1>20. CASE DrainDeliver
  <2>1. [c EXCEPT !.used = @ + Wire(Head(queue)), !.n = @ + 1].pc = c.pc
    BY <1>1 DEF Locals
  <2> QED BY <1>11, <1>20, <2>1 DEF DrainDeliver
<1>21. CASE DrainEnd
  <2>1. CASE Short /\ ~c.again
    <3>1. [c EXCEPT !.pc = "retry"].pc = "retry" /\ "retry" \notin LoopLabels
      BY <1>1 DEF Locals, LoopLabels
    <3> QED BY <1>21, <2>1, <3>1, ScriptReleases DEF DrainEnd, Goto
  <2>2. CASE ~(Short /\ ~c.again)
    BY <1>21, <2>2, IdleOutside, ScriptReleases DEF DrainEnd, Return
  <2> QED BY <2>1, <2>2
<1> QED BY <1>2, <1>4, <1>5, <1>6, <1>8, <1>9, <1>10, <1>12, <1>13, <1>15, <1>16, <1>17, <1>18,
     <1>19, <1>20, <1>21 DEF ScriptStep

LEMMA InitLock ==
    Init => LockDiscipline
<1>1. Init => th[Script].pc = "idle" /\ \A w \in Workers : th[w].pc = "idle"
  BY ScriptThread, IdleOutside DEF Init, Threads
<1> QED BY <1>1, ShimAssumption DEF Init, LockDiscipline, LoopLabels

LEMMA NextLock ==
    ASSUME TypeOK, LockDiscipline, [Next]_vars
    PROVE  LockDiscipline'
<1>1. CASE Library  BY <1>1, LibraryLock
<1>2. CASE \E w \in Workers : CallbackStep(w)
  <2>1. PICK w \in Workers : CallbackStep(w)  BY <1>2
  <2>2. w \in Threads  BY DEF Threads
  <2>3. MovesOutside(w)  BY <2>1, <2>2, CallbackOutside, RegisterOutside DEF CallbackStep
  <2> QED BY <2>2, <2>3, OutsideKeeps
<1>3. CASE Call  BY <1>3, CallLock
<1>4. CASE PollStart  BY <1>4, PollLock DEF PollStart, At
<1>5. CASE ScriptStep  BY <1>5, ScriptStepLock
<1>6. CASE UNCHANGED vars  BY <1>6 DEF vars, LockDiscipline
<1> QED BY <1>1, <1>2, <1>3, <1>4, <1>5, <1>6 DEF Next

\* g_mu is held across steps by the script inside its three loops and by
\* nothing else, and only the script ever waits for libdatachannel: so no
\* rtcDelete or rtcSet call that joins a callback is made by a thread whose
\* mutex that callback needs.
THEOREM LockDisciplined == Spec => []LockDiscipline
  BY TypeCorrect, InitLock, NextLock, PTL DEF Spec

\* ---------------------------------------------------- the maps and the tables

LEMMA NullNone == Null \notin PeerObjects /\ Null \notin ChannelObjects
  BY ShimAssumption

LEMMA ThreadSet ==
    ASSUME TypeOK, NEW t \in Threads, NEW r, th' = [th EXCEPT ![t] = r]
    PROVE  th'[t] = r /\ \A u \in Threads : u # t => th'[u] = th[u]
  BY DEF TypeOK

LEMMA SteadyKeeps ==
    ASSUME TypeOK, MapsInv, NEW t \in Threads, NEW r, th' = [th EXCEPT ![t] = r], Steady(t, r),
           UNCHANGED <<peers, rtcPeer, rtcChan>>, SameChannels, FreeListOK(chans'), SameKinds
    PROVE  MapsInv'
<1>1. th'[t] = r /\ \A u \in Threads : u # t => th'[u] = th[u]  BY ThreadSet
<1>2. \A u \in Threads : th[u].pc \in Unregistered => th[u].dc \in RtcIds
  BY Local DEF Unregistered, ChannelLabels, RegisterLabels
<1>3. \A h : Get(chans, h) # Null => Get(chans, h).rtc \in RtcIds  BY ChannelEntry
<1>4. UnmadeUnmapped'  BY DEF UnmadeUnmapped, MapsInv, SameKinds
<1>5. FreshInHand'
  <2>1. \A u \in Threads : th'[u].pc \in Unregistered => th[u].pc \in Unregistered /\ th'[u].dc = th[u].dc
    BY <1>1 DEF Steady
  <2> QED BY <2>1, <1>2 DEF FreshInHand, MapsInv, SameKinds
<1>6. PeerInHand'
  <2>1. CASE t = Script
    <3>1. th[Script].pc = "pn_alloc" => th[Script].obj \in RtcIds
      BY ScriptThread, Local DEF PeerLabels
    <3> QED BY <2>1, <3>1, <1>1, ScriptThread DEF PeerInHand, MapsInv, Steady, At, SameKinds
  <2>2. CASE t # Script
    <3>1. th'[Script] = th[Script]  BY <2>2, <1>1, ScriptThread
    <3>2. th[Script].pc = "pn_alloc" => th[Script].obj \in RtcIds
      BY ScriptThread, Local DEF PeerLabels
    <3> QED BY <3>1, <3>2 DEF PeerInHand, MapsInv, SameKinds, At
  <2> QED BY <2>1, <2>2
<1>7. MapsNamed'  BY DEF MapsNamed, MapsInv, Named, SameChannels
<1>8. At(Script, "cl_sweep") => At(Script, "cl_sweep")'
  BY <1>1, ScriptThread DEF Steady, At
<1>9. MapsPointed'  BY <1>8 DEF MapsPointed, MapsInv, Pointed, SameChannels
<1>10. \A w \in Workers, h \in Handles : Get(chans, h) # Null /\ Covers(w, h) => Covers(w, h)'
  <2> SUFFICES ASSUME NEW w \in Workers, NEW h \in Handles, Get(chans, h) # Null, Covers(w, h)
               PROVE  Covers(w, h)'
    OBVIOUS
  <2>1. w \in Threads /\ w # Script  BY ShimAssumption DEF Threads
  <2>2. th'[w].pc \in AfterRegister /\ SameHand(th'[w], th[w])
    BY <2>1, <1>1 DEF Steady, Covers, SameHand
  <2> QED BY <2>2 DEF Covers, SameHand, SameChannels
<1>11. Covered'  BY <1>8, <1>10 DEF Covered, MapsInv, SameChannels
<1> QED BY <1>4, <1>5, <1>6, <1>7, <1>9, <1>11 DEF MapsInv

\* A step that moves no thread.
LEMMA StillKeeps ==
    ASSUME TypeOK, MapsInv, UNCHANGED <<th, peers, chans, rtcPeer, rtcChan>>, SameKinds
    PROVE  MapsInv'
<1>1. th' = [th EXCEPT ![Script] = th[Script]]  BY DEF TypeOK
<1>2. Steady(Script, th[Script])  BY DEF Steady
<1>3. SameChannels /\ FreeListOK(chans')  BY DEF SameChannels, MapsInv
<1> QED BY <1>1, <1>2, <1>3, ScriptThread, SteadyKeeps

\* A step that moves a thread and no table.
LEMMA MoveKeeps ==
    ASSUME TypeOK, MapsInv, NEW t \in Threads, NEW r, th' = [th EXCEPT ![t] = r], Steady(t, r),
           UNCHANGED <<peers, chans, rtcPeer, rtcChan>>, SameKinds
    PROVE  MapsInv'
<1>1. SameChannels /\ FreeListOK(chans')  BY DEF SameChannels, MapsInv
<1> QED BY <1>1, SteadyKeeps

\* A step after which the thread has nothing in its hands.
LEMMA EmptyHandSteady ==
    ASSUME NEW t \in Threads, NEW r,
           r.pc \in {"idle", "body", "rtc", "drain_lock", "retry", "drain", "pn_wire", "pn_refused", "wire", "isopen", "announce", "cl_sweep"},
           t = Script => th[t].pc # "cl_sweep" \/ r.pc = "cl_sweep",
           t # Script => th[t].pc \notin AfterRegister
    PROVE  Steady(t, r)
  BY DEF Steady, Unregistered

LEMMA KindsSame ==
    ASSUME TypeOK, UNCHANGED rtc
    PROVE  SameKinds
  BY DEF SameKinds

LEMMA LibraryKeeps ==
    ASSUME TypeOK, MapsInv, NEW d \in RtcIds, RtcChannelOpens(d) \/ RtcChannelCloses(d)
    PROVE  MapsInv'
<1>1. SameKinds
  BY DEF RtcChannelOpens, RtcChannelCloses, SameKinds, TypeOK, LibraryOK, RtcObjects
<1> QED BY <1>1, StillKeeps DEF RtcChannelOpens, RtcChannelCloses, shimVars

LEMMA FireKeeps ==
    ASSUME TypeOK, MapsInv, NEW w \in Workers, NEW id \in RtcIds, NEW k \in Kinds, Fire(w, id, k)
    PROVE  MapsInv'
<1>1. PICK n \in Argument(k) :
         th' = [th EXCEPT ![w] = [Idle EXCEPT !.pc = "body", !.obj = id, !.kind = k, !.n = n]]
  BY Zenon DEF Fire
<1>2. PICK r : r = [Idle EXCEPT !.pc = "body", !.obj = id, !.kind = k, !.n = n]  OBVIOUS
<1>3. r.pc = "body"  BY <1>2 DEF Idle
<1>4. w \in Threads /\ w # Script /\ th[w].pc = "idle"
  BY ShimAssumption DEF Threads, Fire, At
<1>5. Steady(w, r)  BY <1>3, <1>4, EmptyHandSteady DEF AfterRegister
<1>6. SameKinds  BY DEF Fire, SameKinds, TypeOK, LibraryOK, RtcObjects
<1> QED BY <1>1, <1>2, <1>4, <1>5, <1>6, MoveKeeps DEF Fire, shimVars

LEMMA IdleHand == Idle.pc = "idle"
  BY DEF Idle

\* A thread returns, or moves to a label where its hand is empty.
LEMMA ReturnKeeps ==
    ASSUME TypeOK, MapsInv, NEW t \in Threads, Return(t),
           t = Script => th[t].pc # "cl_sweep", t # Script => th[t].pc \notin AfterRegister,
           UNCHANGED <<peers, chans, rtcPeer, rtcChan>>, SameKinds
    PROVE  MapsInv'
<1>1. Steady(t, Idle)  BY IdleHand, EmptyHandSteady
<1> QED BY <1>1, MoveKeeps DEF Return

LEMMA GotoKeeps ==
    ASSUME TypeOK, MapsInv, NEW t \in Threads, NEW l, Goto(t, l),
           \A r : r.pc = l /\ SameHand(r, th[t]) /\ r.obj = th[t].obj => Steady(t, r),
           UNCHANGED <<peers, chans, rtcPeer, rtcChan>>, SameKinds
    PROVE  MapsInv'
<1>1. PICK r : r = [th[t] EXCEPT !.pc = l]  OBVIOUS
<1>2. th[t] \in Locals  BY Local
<1>3. r.pc = l /\ SameHand(r, th[t]) /\ r.obj = th[t].obj
  BY <1>1, <1>2 DEF Locals, SameHand
<1>4. th' = [th EXCEPT ![t] = r]  BY <1>1 DEF Goto
<1> QED BY <1>3, <1>4, MoveKeeps

LEMMA WorkerThread ==
    ASSUME NEW w \in Workers
    PROVE  w \in Threads /\ w # Script
  BY ShimAssumption DEF Threads

LEMMA CallbacksKeep ==
    ASSUME TypeOK, MapsInv, NEW w \in Workers,
           PeerCallback(w) \/ ChannelCallback(w) \/ Orphan(w)
    PROVE  MapsInv'
<1>1. Return(w) /\ th[w].pc \notin AfterRegister /\ UNCHANGED <<peers, chans, rtcPeer, rtcChan>>
  BY DEF PeerCallback, ChannelCallback, Orphan, At, AfterRegister, shimVars
<1>2. SameKinds  BY DEF PeerCallback, ChannelCallback, Orphan, SameKinds, rtcVars
<1> QED BY <1>1, <1>2, WorkerThread, ReturnKeeps

LEMMA LookupKeeps ==
    ASSUME TypeOK, MapsInv, NEW w \in Workers, Lookup(w)
    PROVE  MapsInv'
<1> DEFINE h == rtcPeer[th[w].obj]
           r == [th[w] EXCEPT !.pc = IF h = NoHandle THEN "orphan" ELSE "register", !.peer = h]
<1>1. th[w] \in Locals /\ th[w].pc = "lookup" /\ th' = [th EXCEPT ![w] = r]
  BY WorkerThread, Local DEF Lookup, At
<1>2. r.pc \in {"orphan", "register"} /\ r.dc = th[w].dc  BY <1>1 DEF Locals
<1>3. Steady(w, r)  BY <1>1, <1>2, WorkerThread DEF Steady, Unregistered, AfterRegister
<1> QED BY <1>1, <1>3, WorkerThread, MoveKeeps, KindsSame DEF Lookup, shimVars, rtcVars

LEMMA WireChannelKeeps ==
    ASSUME TypeOK, MapsInv, NEW t \in Threads, WireChannel(t)
    PROVE  MapsInv'
<1>1. th[t] \in Locals /\ th[t].pc = "wire"  BY Local DEF WireChannel, At
<1>2. UNCHANGED <<peers, chans, rtcPeer, rtcChan>> /\ SameKinds
  BY KindsSame DEF WireChannel, shimVars
<1>3. CASE th[t].ks = {}
  <2>1. \A r : r.pc = "isopen" /\ SameHand(r, th[t]) => Steady(t, r)
    BY <1>1 DEF Steady, Unregistered, AfterRegister
  <2> QED BY <1>2, <1>3, <2>1, GotoKeeps DEF WireChannel
<1>4. CASE th[t].ks # {}
  <2> DEFINE k == FirstOf(th[t].ks, ChannelCallbacks)
             r == [th[t] EXCEPT !.ks = @ \ {k}]
  <2>1. th' = [th EXCEPT ![t] = r]  BY <1>4 DEF WireChannel
  <2>2. r.pc = "wire" /\ SameHand(r, th[t])  BY <1>1 DEF Locals, SameHand
  <2>3. Steady(t, r)  BY <1>1, <2>2 DEF Steady, Unregistered, AfterRegister
  <2> QED BY <1>2, <2>1, <2>3, MoveKeeps
<1> QED BY <1>3, <1>4

\* register_channel returns: the script gives the handle out, a worker goes on
\* to re-validate.
LEMMA RegisteredSteady ==
    ASSUME TypeOK, NEW t \in Threads, Registered(t), th[t].pc \in AfterRegister
    PROVE  \E r : th' = [th EXCEPT ![t] = r] /\ Steady(t, r)
<1>1. CASE t = Script
  <2>1. Steady(t, Idle)  BY <1>1, IdleHand, EmptyHandSteady DEF AfterRegister
  <2> QED BY <1>1, <2>1 DEF Registered, Return
<1>2. CASE t # Script
  <2>1. PICK r : r = [th[t] EXCEPT !.pc = "revalidate"]  OBVIOUS
  <2>2. th[t] \in Locals  BY Local
  <2>3. r.pc = "revalidate" /\ SameHand(r, th[t])  BY <2>1, <2>2 DEF Locals, SameHand
  <2>4. th' = [th EXCEPT ![t] = r]  BY <1>2, <2>1 DEF Registered, Goto
  <2>5. Steady(t, r)  BY <1>2, <2>3 DEF Steady, Unregistered, AfterRegister
  <2> QED BY <2>4, <2>5
<1> QED BY <1>1, <1>2

LEMMA CheckOpenKeeps ==
    ASSUME TypeOK, MapsInv, NEW t \in Threads, CheckOpen(t)
    PROVE  MapsInv'
<1>1. th[t].pc = "isopen" /\ UNCHANGED <<peers, chans, rtcPeer, rtcChan>> /\ SameKinds
  BY KindsSame DEF CheckOpen, At, shimVars, rtcVars
<1>2. CASE Goto(t, "announce")
  <2>1. \A r : r.pc = "announce" /\ SameHand(r, th[t]) => Steady(t, r)
    BY <1>1 DEF Steady, Unregistered, AfterRegister
  <2> QED BY <1>1, <1>2, <2>1, GotoKeeps
<1>3. CASE Registered(t)
  <2>1. PICK r : th' = [th EXCEPT ![t] = r] /\ Steady(t, r)
    BY <1>1, <1>3, RegisteredSteady DEF AfterRegister
  <2> QED BY <1>1, <2>1, MoveKeeps
<1> QED BY <1>2, <1>3 DEF CheckOpen

\* An announced open: the channel stays the same channel.
LEMMA AnnounceSame ==
    ASSUME TypeOK, MapsInv, NEW h, NEW p, Announce(h, Get(chans, h), p)
    PROVE  SameChannels /\ FreeListOK(chans')
<1> DEFINE cs == Get(chans, h)
           o == [cs EXCEPT !.announced = TRUE]
<1>1. TableOK(chans, ChannelObjects) /\ FreeListOK(chans)
  BY DEF TypeOK, TablesOK, MapsInv
<1>2. CASE ~MayAnnounce(cs)  BY <1>1, <1>2 DEF Announce, SameChannels
<1>3. CASE MayAnnounce(cs)
  <2>1. cs # Null  BY <1>3 DEF MayAnnounce
  <2>2. IsLive(chans, h) /\ cs \in ChannelObjects  BY <2>1, ChannelEntry
  <2>3. o \in ChannelObjects /\ o.rtc = cs.rtc /\ o.peer = cs.peer
    BY <2>2 DEF ChannelObjects
  <2>4. o # Null  BY <2>3, NullNone
  <2>5. chans' = Put(chans, h, o)  BY <1>3 DEF Announce
  <2> HIDE DEF o
  <2>6. \A g : Get(chans', g) = IF g = h THEN o ELSE Get(chans, g)
    BY <1>1, <2>2, <2>4, <2>5, GetPut
  <2>7. FreeListOK(chans')  BY <1>1, <2>2, <2>4, <2>5, PutExact
  <2> QED BY <2>1, <2>3, <2>4, <2>6, <2>7 DEF SameChannels
<1> QED BY <1>2, <1>3

LEMMA OpenCallbackKeeps ==
    ASSUME TypeOK, MapsInv, NEW w \in Workers, OpenCallback(w)
    PROVE  MapsInv'
<1>1. SameChannels /\ FreeListOK(chans')  BY AnnounceSame DEF OpenCallback
<1>2. Steady(w, Idle)
  BY IdleHand, WorkerThread, EmptyHandSteady DEF OpenCallback, At, AfterRegister
<1> QED BY <1>1, <1>2, WorkerThread, SteadyKeeps, KindsSame DEF OpenCallback, Return, rtcVars

LEMMA AnnounceOpenKeeps ==
    ASSUME TypeOK, MapsInv, NEW t \in Threads, AnnounceOpen(t)
    PROVE  MapsInv'
<1>1. SameChannels /\ FreeListOK(chans')  BY AnnounceSame DEF AnnounceOpen
<1>2. PICK r : th' = [th EXCEPT ![t] = r] /\ Steady(t, r)
  BY RegisteredSteady DEF AnnounceOpen, At, AfterRegister
<1> QED BY <1>1, <1>2, SteadyKeeps, KindsSame DEF AnnounceOpen, rtcVars

\* --------------------------------------------------- the script's plain steps

\* A step of the script that keeps its label, outside the sweeps.
LEMMA ScriptStays ==
    ASSUME TypeOK, MapsInv, NEW r, th' = [th EXCEPT ![Script] = r],
           r.pc \in {"rtc", "drain_lock", "retry", "drain", "idle", "pn_wire", "cl_sweep"},
           th[Script].pc # "cl_sweep",
           UNCHANGED <<peers, chans, rtcPeer, rtcChan>>, SameKinds
    PROVE  MapsInv'
<1>1. Steady(Script, r)  BY ScriptThread, EmptyHandSteady
<1> QED BY <1>1, ScriptThread, MoveKeeps

LEMMA PeerWireKeeps ==
    ASSUME TypeOK, MapsInv, PeerRefused \/ ChannelRefused \/ WirePeer
    PROVE  MapsInv'
<1> DEFINE c == th[Script]
<1>1. c \in Locals /\ c.pc \in {"pn_refused", "refused", "pn_wire"}
      /\ UNCHANGED <<peers, chans, rtcPeer, rtcChan>>
  BY ScriptThread, Local DEF PeerRefused, ChannelRefused, WirePeer, At, shimVars
<1>2. SameKinds
  BY DEF PeerRefused, ChannelRefused, WirePeer, SameKinds, TypeOK, LibraryOK, RtcObjects
<1>3. CASE Return(Script)  BY <1>1, <1>2, <1>3, ScriptThread, ReturnKeeps
<1>4. CASE WirePeer /\ c.ks # {}
  <2> DEFINE r == [c EXCEPT !.ks = @ \ {FirstOf(c.ks, PeerCallbacks)}]
  <2>1. th' = [th EXCEPT ![Script] = r]  BY <1>4 DEF WirePeer
  <2>2. r.pc = "pn_wire"  BY <1>1, <1>4 DEF Locals, WirePeer, At
  <2> QED BY <1>1, <1>2, <2>1, <2>2, ScriptStays
<1> QED BY <1>3, <1>4 DEF PeerRefused, ChannelRefused, WirePeer

LEMMA PlainCallKeeps ==
    ASSUME TypeOK, MapsInv, NEW h, PeerClose(h) \/ ChannelClose(h) \/ SetBufferedLow(h)
    PROVE  MapsInv'
<1>1. SameKinds
  BY SMTT(30) DEF PeerClose, ChannelClose, SetBufferedLow, SameKinds, TypeOK, LibraryOK, RtcObjects
<1> QED BY <1>1, StillKeeps DEF PeerClose, ChannelClose, SetBufferedLow, shimVars

LEMMA TeardownKeeps ==
    ASSUME TypeOK, MapsInv, ClearCallback \/ DeleteObject \/ RtcCleanup \/ RtcJoin \/ RtcDone
    PROVE  MapsInv'
<1> DEFINE c == th[Script]
<1>1. c \in Locals /\ c.pc = "rtc" /\ UNCHANGED <<peers, chans, rtcPeer, rtcChan>>
  BY ScriptThread, Local DEF ClearCallback, DeleteObject, RtcCleanup, RtcJoin, RtcDone, Owes, At, shimVars
<1>2. SameKinds
  <2>1. CASE ClearCallback \/ RtcJoin \/ RtcDone
    BY <2>1, KindsSame, Zenon DEF ClearCallback, RtcJoin, RtcDone, rtcVars
  <2>2. CASE DeleteObject
    BY <2>2 DEF DeleteObject, SameKinds, TypeOK, LibraryOK, RtcObjects
  <2>3. CASE RtcCleanup  BY <2>3 DEF RtcCleanup, SameKinds, TypeOK, LibraryOK, RtcObjects
  <2> QED BY <2>1, <2>2, <2>3, SMTT(30)
<1>3. CASE ClearCallback
  <2> DEFINE order == IF IsPc(Head(c.todo).id) THEN PeerCallbacks ELSE ChannelCallbacks
             left == c.ks \cap Elems(order)
  <2>1. CASE left = {}
    <3>1. th' = [th EXCEPT ![Script] = [c EXCEPT !.todo = Tail(@), !.ks = Kinds]]
      BY <1>3, <2>1 DEF ClearCallback
    <3>2. [c EXCEPT !.todo = Tail(@), !.ks = Kinds].pc = "rtc"  BY <1>1 DEF Locals
    <3> QED BY <1>1, <1>2, <3>1, <3>2, ScriptStays
  <2>2. CASE left # {}
    <3>1. th' = [th EXCEPT ![Script] = [c EXCEPT !.ks = @ \ {FirstOf(left, order)}]]
      BY <1>3, <2>2 DEF ClearCallback
    <3>2. [c EXCEPT !.ks = @ \ {FirstOf(left, order)}].pc = "rtc"  BY <1>1 DEF Locals
    <3> QED BY <1>1, <1>2, <3>1, <3>2, ScriptStays
  <2> QED BY <2>1, <2>2
<1>4. CASE DeleteObject \/ RtcCleanup \/ RtcJoin
  <2>1. th' = [th EXCEPT ![Script] = [c EXCEPT !.todo = Tail(@)]]
    BY <1>4 DEF DeleteObject, RtcCleanup, RtcJoin
  <2>2. [c EXCEPT !.todo = Tail(@)].pc = "rtc"  BY <1>1 DEF Locals
  <2> QED BY <1>1, <1>2, <2>1, <2>2, ScriptStays
<1>5. CASE RtcDone
  <2>1. CASE c.kind = "poll"
    <3>1. th' = [th EXCEPT ![Script] = [c EXCEPT !.pc = "drain_lock"]]
      BY <1>5, <2>1 DEF RtcDone, Goto
    <3>2. [c EXCEPT !.pc = "drain_lock"].pc = "drain_lock"  BY <1>1 DEF Locals
    <3> QED BY <1>1, <1>2, <3>1, <3>2, ScriptStays
  <2>2. CASE c.kind # "poll"
    BY <1>1, <1>2, <1>5, <2>2, IdleHand, ScriptStays DEF RtcDone, Return
  <2> QED BY <2>1, <2>2
<1> QED BY <1>3, <1>4, <1>5

LEMMA CleanupLockKeeps ==
    ASSUME TypeOK, MapsInv, CleanupLock
    PROVE  MapsInv'
<1> DEFINE c == th[Script]
           r == [c EXCEPT !.pc = "cl_sweep", !.kind = "cleanup"]
<1>1. c \in Locals /\ c.pc = "idle" /\ th' = [th EXCEPT ![Script] = r]
  BY ScriptThread, Local DEF CleanupLock, At
<1>2. r.pc = "cl_sweep"  BY <1>1 DEF Locals
<1> QED BY <1>1, <1>2, ScriptStays, KindsSame DEF CleanupLock, shimVars, rtcVars

LEMMA PollKeeps ==
    ASSUME TypeOK, MapsInv, NEW again, Poll(again), th[Script].pc \in {"idle", "retry"}
    PROVE  MapsInv'
<1> DEFINE r == [Idle EXCEPT !.pc = "rtc", !.kind = "poll", !.ks = Kinds,
                             !.todo = ClearAndDelete(orphans), !.again = again]
<1>1. r.pc = "rtc"  BY DEF Idle
<1>2. th' = [th EXCEPT ![Script] = r]  BY DEF Poll
<1> QED BY <1>1, <1>2, ScriptStays, KindsSame DEF Poll, rtcVars

LEMMA DrainKeeps ==
    ASSUME TypeOK, MapsInv, DrainLock \/ DrainDiscard \/ DrainDeliver \/ DrainEnd
    PROVE  MapsInv'
<1> DEFINE c == th[Script]
<1>1. c \in Locals /\ c.pc # "cl_sweep" /\ UNCHANGED <<peers, chans, rtcPeer, rtcChan>> /\ SameKinds
  BY ScriptThread, Local, KindsSame
     DEF DrainLock, DrainDiscard, DrainDeliver, DrainEnd, At, shimVars, rtcVars
<1>2. CASE DrainLock
  <2>1. [c EXCEPT !.pc = "drain", !.used = 2].pc = "drain"  BY <1>1 DEF Locals
  <2>2. th' = [th EXCEPT ![Script] = [c EXCEPT !.pc = "drain", !.used = 2]]
    BY <1>2 DEF DrainLock
  <2> QED BY <1>1, <2>1, <2>2, ScriptStays
<1>3. CASE DrainDiscard  BY <1>1, <1>3, StillKeeps DEF DrainDiscard
<1>4. CASE DrainDeliver
  <2> DEFINE r == [c EXCEPT !.used = @ + Wire(Head(queue)), !.n = @ + 1]
  <2>1. r.pc = "drain"  BY <1>1, <1>4 DEF Locals, DrainDeliver, At
  <2>2. th' = [th EXCEPT ![Script] = r]  BY <1>4 DEF DrainDeliver
  <2> QED BY <1>1, <2>1, <2>2, ScriptStays
<1>5. CASE DrainEnd
  <2>1. CASE Goto(Script, "retry")
    <3>1. [c EXCEPT !.pc = "retry"].pc = "retry"  BY <1>1 DEF Locals
    <3> QED BY <1>1, <2>1, <3>1, ScriptStays DEF Goto
  <2>2. CASE Return(Script)  BY <1>1, <2>2, IdleHand, ScriptStays DEF Return
  <2> QED BY <1>5, <2>1, <2>2 DEF DrainEnd
<1> QED BY <1>2, <1>3, <1>4, <1>5

\* ---------------------------------------------------------- an object is made

LEMMA MadeKeeps ==
    ASSUME TypeOK, MapsInv, NEW t \in Threads, th[t].pc = "idle",
           NEW r, th' = [th EXCEPT ![t] = r],
           NEW id \in RtcIds, rtc[id].kind = "none", NEW k, Holds(t, r, id, k),
           \A i \in RtcIds : rtc'[i].kind = IF i = id THEN k ELSE rtc[i].kind,
           UNCHANGED <<peers, chans, rtcPeer, rtcChan>>
    PROVE  MapsInv'
<1>1. th'[t] = r /\ \A u \in Threads : u # t => th'[u] = th[u]  BY ThreadSet
<1>2. \A u \in Threads : th[u].pc \in Unregistered => th[u].dc \in RtcIds /\ th[u].dc # id
  BY Local DEF Unregistered, ChannelLabels, RegisterLabels, FreshInHand, MapsInv
<1>3. rtcPeer[id] = NoHandle /\ rtcChan[id] = NoHandle  BY DEF MapsInv, UnmadeUnmapped
<1>4. UnmadeUnmapped'  BY DEF MapsInv, UnmadeUnmapped, Holds
<1>5. FreshInHand'
  <2>1. \A u \in Threads : th'[u].pc \in Unregistered =>
           (u = t /\ k = "dc" /\ th'[u].dc = id) \/ (u # t /\ th[u].pc \in Unregistered /\ th'[u].dc = th[u].dc)
    BY <1>1 DEF Holds, Unregistered
  <2> QED BY <2>1, <1>2, <1>3 DEF FreshInHand, MapsInv
<1>6. PeerInHand'
  <2>1. CASE t = Script
    BY <2>1, <1>1, <1>3, ScriptThread DEF PeerInHand, MapsInv, Holds, At
  <2>2. CASE t # Script
    <3>1. th'[Script] = th[Script]  BY <2>2, <1>1, ScriptThread
    <3>2. th[Script].pc = "pn_alloc" => th[Script].obj \in RtcIds /\ th[Script].obj # id
      BY ScriptThread, Local DEF PeerLabels, PeerInHand, MapsInv, At
    <3> QED BY <3>1, <3>2 DEF PeerInHand, MapsInv, At
  <2> QED BY <2>1, <2>2
<1>7. MapsNamed'  BY DEF MapsNamed, MapsInv
<1>8. th'[Script].pc = "cl_sweep" <=> th[Script].pc = "cl_sweep"
  BY <1>1, ScriptThread DEF Holds
<1>9. MapsPointed'  BY <1>8 DEF MapsPointed, MapsInv, At
<1>10. \A w \in Workers, h \in Handles : Covers(w, h) => Covers(w, h)'
  <2>1. \A w \in Workers : w \in Threads  BY DEF Threads
  <2> QED BY <2>1, <1>1 DEF Covers, AfterRegister
<1>11. Covered'  BY <1>8, <1>10 DEF Covered, MapsInv, At
<1> QED BY <1>4, <1>5, <1>6, <1>7, <1>9, <1>11 DEF MapsInv

LEMMA FireDataChannelKeeps ==
    ASSUME TypeOK, MapsInv, NEW w \in Workers, NEW p \in RtcIds, NEW d \in RtcIds, FireDataChannel(w, p, d)
    PROVE  MapsInv'
<1>1. PICK n \in Sizes :
         th' = [th EXCEPT ![w] = [Idle EXCEPT !.pc = "lookup", !.obj = p, !.dc = d,
                                            !.kind = "DATA_CHANNEL", !.n = n]]
  BY Zenon DEF FireDataChannel
<1>2. PICK r : r = [Idle EXCEPT !.pc = "lookup", !.obj = p, !.dc = d, !.kind = "DATA_CHANNEL", !.n = n]
  OBVIOUS
<1>3. r.pc = "lookup" /\ r.dc = d  BY <1>2 DEF Idle
<1>4. Holds(w, r, d, "dc")  BY <1>3, WorkerThread DEF Holds
<1>5. \A i \in RtcIds : rtc'[i].kind = IF i = d THEN "dc" ELSE rtc[i].kind
  <2>1. PICK st \in {"new", "open"} : rtc' = [rtc EXCEPT ![d] = Object("dc", st, p)]
    BY DEF FireDataChannel
  <2>2. Object("dc", st, p).kind = "dc"  BY DEF Object
  <2> QED BY <2>1, <2>2 DEF TypeOK, LibraryOK
<1>6. th[w].pc = "idle" /\ rtc[d].kind = "none" /\ UNCHANGED <<peers, chans, rtcPeer, rtcChan>>
  BY DEF FireDataChannel, At, IsNewId, shimVars
<1> QED BY <1>1, <1>2, <1>4, <1>5, <1>6, WorkerThread, MadeKeeps

LEMMA ChannelNewKeeps ==
    ASSUME TypeOK, MapsInv, NEW h, NEW d \in RtcIds, ChannelNew(h, d)
    PROVE  MapsInv'
<1>1. PICK r : r = [Idle EXCEPT !.pc = "register", !.dc = d, !.peer = h]  OBVIOUS
<1>2. r.pc = "register" /\ r.dc = d /\ r.peer = h  BY <1>1 DEF Idle
<1>3. Holds(Script, r, d, "dc")  BY <1>2 DEF Holds, ChannelNew
<1>4. \A i \in RtcIds : rtc'[i].kind = IF i = d THEN "dc" ELSE rtc[i].kind
  BY DEF ChannelNew, Object, TypeOK, LibraryOK
<1>5. th[Script].pc = "idle" /\ rtc[d].kind = "none" /\ UNCHANGED <<peers, chans, rtcPeer, rtcChan>>
  BY DEF ChannelNew, At, IsNewId, shimVars
<1>6. th' = [th EXCEPT ![Script] = r]  BY <1>1 DEF ChannelNew
<1> QED BY <1>1, <1>3, <1>4, <1>5, <1>6, ScriptThread, MadeKeeps

LEMMA PeerNewKeeps ==
    ASSUME TypeOK, MapsInv, NEW d \in RtcIds, PeerNew(d)
    PROVE  MapsInv'
<1>1. PICK r : r = [th[Script] EXCEPT !.pc = "pn_alloc", !.obj = d]  OBVIOUS
<1>2. th[Script] \in Locals  BY ScriptThread, Local
<1>3. r.pc = "pn_alloc" /\ r.obj = d  BY <1>1, <1>2 DEF Locals
<1>4. Holds(Script, r, d, "pc")  BY <1>3 DEF Holds
<1>5. \A i \in RtcIds : rtc'[i].kind = IF i = d THEN "pc" ELSE rtc[i].kind
  BY DEF PeerNew, Object, TypeOK, LibraryOK
<1>6. th[Script].pc = "idle" /\ rtc[d].kind = "none" /\ UNCHANGED <<peers, chans, rtcPeer, rtcChan>>
  BY DEF PeerNew, At, IsNewId, shimVars
<1>7. th' = [th EXCEPT ![Script] = r]  BY <1>1 DEF PeerNew
<1> QED BY <1>1, <1>4, <1>5, <1>6, <1>7, ScriptThread, MadeKeeps

\* ----------------------------------------------------------- an entry is born

LEMMA RegisterKeeps ==
    ASSUME TypeOK, LockDiscipline, MapsInv, NEW t \in Threads, Register(t)
    PROVE  MapsInv'
<1> DEFINE c == th[t]
           d == c.dc
<1>1. c \in Locals /\ c.pc = "register" /\ d \in RtcIds /\ c.peer \in Handles
  BY Local DEF Register, At, ChannelLabels, RegisterLabels
<1>2. UNCHANGED <<peers, rtcPeer>> /\ SameKinds /\ mu = Nobody
  BY KindsSame DEF Register, rtcVars
<1>3. TableOK(chans, ChannelObjects) /\ FreeListOK(chans)
  BY DEF TypeOK, TablesOK, MapsInv
<1>4. CASE AllocHandle(chans) = NoHandle
  <2>1. PICK l : l = IF t = Script THEN "refused" ELSE "orphan"  OBVIOUS
  <2>2. Goto(t, l) /\ UNCHANGED <<chans, rtcChan>>  BY <1>4, <2>1 DEF Register
  <2>3. \A r : r.pc = l /\ SameHand(r, c) => Steady(t, r)
    BY <1>1, <2>1 DEF Steady, Unregistered, AfterRegister, SameHand
  <2> QED BY <1>2, <2>2, <2>3, GotoKeeps
<1>5. CASE AllocHandle(chans) # NoHandle
  <2>1. PICK a : a = AllocHandle(chans)  OBVIOUS
  <2>2. PICK o : o = [rtc |-> d, peer |-> c.peer, announced |-> FALSE]  OBVIOUS
  <2>3. PICK r : r = [c EXCEPT !.pc = "wire", !.chan = a, !.ks = WiredAtBirth(ChannelCallbacks)]
    OBVIOUS
  <2>4. r.pc = "wire" /\ r.chan = a /\ r.dc = d /\ r.peer = c.peer
    BY <1>1, <2>3 DEF Locals
  <2>5. /\ chans' = Alloc(chans, o)
        /\ rtcChan' = [rtcChan EXCEPT ![d] = a]
        /\ th' = [th EXCEPT ![t] = r]
    BY <1>5, <2>1, <2>2, <2>3 DEF Register
  <2>6. CanAlloc(chans)  BY <1>5 DEF AllocHandle
  <2>7. o \in ChannelObjects /\ o # Null /\ o.rtc = d /\ o.peer = c.peer
    <3>1. o \in ChannelObjects  BY <1>1, <2>2 DEF ChannelObjects
    <3> QED BY <2>2, <3>1, NullNone
  <2>8. /\ \A h : Get(chans', h) = IF h = a THEN o ELSE Get(chans, h)
        /\ Get(chans, a) = Null /\ a \in Handles
    BY <1>3, <2>1, <2>5, <2>6, <2>7, GetAlloc
  <2>9. FreeListOK(chans')  BY <1>3, <2>5, <2>7, AllocExact
  <2>10. th'[t] = r /\ \A u \in Threads : u # t => th'[u] = th[u]  BY <2>5, ThreadSet
  <2>11. \A i \in RtcIds : rtcChan'[i] = IF i = d THEN a ELSE rtcChan[i]
    BY <1>1, <2>5 DEF TypeOK, TablesOK
  <2>12. rtc[d].kind = "dc" /\ rtcChan[d] = NoHandle
         /\ \A u \in Threads : th[u].pc \in Unregistered /\ th[u].dc = d => u = t
    BY <1>1 DEF MapsInv, FreshInHand, Unregistered
  <2>13. \A h : Get(chans, h) # Null => Get(chans, h).rtc \in RtcIds /\ Get(chans, h).rtc # d
    <3>1. \A h : Get(chans, h) # Null => Get(chans, h).rtc \in RtcIds /\ h \in Handles
      BY ChannelEntry
    <3>2. \A h \in Handles : h # NoHandle  BY DEF Handles, NoHandle
    <3> QED BY <3>1, <3>2, <2>12 DEF MapsInv, MapsNamed, Named
  <2>14. a # NoHandle  BY <1>5, <2>1
  <2>15. UnmadeUnmapped'  BY <1>2, <2>11, <2>12 DEF MapsInv, UnmadeUnmapped, SameKinds
  <2>16. FreshInHand'
    <3>1. \A u \in Threads : th'[u].pc \in Unregistered => u # t /\ th'[u] = th[u] /\ th[u].dc # d
      BY <2>4, <2>10, <2>12 DEF Unregistered
    <3>2. \A u \in Threads : th[u].pc \in Unregistered => th[u].dc \in RtcIds
      BY Local DEF Unregistered, ChannelLabels, RegisterLabels
    <3> QED BY <1>2, <2>11, <3>1, <3>2 DEF MapsInv, FreshInHand, SameKinds
  <2>17. PeerInHand'
    <3>1. th'[Script].pc \in {"pn_alloc", "pf_sweep", "register"} => th'[Script] = th[Script]
      BY <2>4, <2>10, ScriptThread
    <3>2. th[Script].pc = "pn_alloc" => th[Script].obj \in RtcIds
      BY ScriptThread, Local DEF PeerLabels
    <3> QED BY <1>2, <3>1, <3>2 DEF MapsInv, PeerInHand, At, SameKinds
  <2>18. MapsNamed'  BY <1>1, <1>2, <2>7, <2>8, <2>11, <2>13 DEF MapsInv, MapsNamed, Named
  <2>19. th[Script].pc # "cl_sweep" /\ th'[Script].pc # "cl_sweep"
    <3>1. th[Script].pc # "cl_sweep"
      BY <1>2, ShimAssumption DEF LockDiscipline, LoopLabels
    <3> QED BY <3>1, <2>4, <2>10, ScriptThread
  <2>20. MapsPointed'
    BY <1>1, <1>2, <2>7, <2>8, <2>11, <2>14, <2>19 DEF MapsInv, MapsPointed, Pointed, At
  <2>21. Covered'
    <3> SUFFICES ASSUME NEW h \in Handles, Get(chans', h) # Null
                 PROVE  Get(peers, Get(chans', h).peer) # Null \/ \E w \in Workers : Covers(w, h)'
      BY <1>2 DEF Covered
    <3>1. CASE h = a /\ t = Script
      <4>1. Get(peers, c.peer) # Null  BY <1>1, <3>1 DEF MapsInv, PeerInHand, At
      <4> QED BY <4>1, <3>1, <2>7, <2>8
    <3>2. CASE h = a /\ t # Script
      <4>1. t \in Workers  BY <3>2 DEF Threads
      <4>2. Covers(t, h)'  BY <3>2, <2>4, <2>7, <2>8, <2>10 DEF Covers, AfterRegister
      <4> QED BY <4>1, <4>2
    <3>3. CASE h # a
      <4>1. Get(chans', h) = Get(chans, h)  BY <3>3, <2>8
      <4>2. Get(peers, Get(chans, h).peer) # Null \/ \E w \in Workers : Covers(w, h)
        BY <4>1, <2>19 DEF MapsInv, Covered, At
      <4>3. \A w \in Workers : Covers(w, h) => Covers(w, h)'
        <5>1. \A w \in Workers : Covers(w, h) => w # t /\ th'[w] = th[w]
          BY <1>1, <2>10 DEF Covers, AfterRegister, Threads
        <5> QED BY <5>1, <4>1 DEF Covers
      <4> QED BY <4>1, <4>2, <4>3
    <3> QED BY <3>1, <3>2, <3>3
  <2>22. FreeListOK(peers')  BY <1>2 DEF MapsInv
  <2> QED BY <2>9, <2>15, <2>16, <2>17, <2>18, <2>20, <2>21, <2>22 DEF MapsInv
<1> QED BY <1>4, <1>5

LEMMA PeerAllocKeeps ==
    ASSUME TypeOK, LockDiscipline, MapsInv, PeerAlloc
    PROVE  MapsInv'
<1> DEFINE c == th[Script]
           d == c.obj
<1>1. c \in Locals /\ c.pc = "pn_alloc" /\ d \in RtcIds
  BY ScriptThread, Local DEF PeerAlloc, At, PeerLabels
<1>2. UNCHANGED <<chans, rtcChan>> /\ SameKinds  BY KindsSame DEF PeerAlloc, rtcVars
<1>3. TableOK(peers, PeerObjects) /\ FreeListOK(peers)  BY DEF TypeOK, TablesOK, MapsInv
<1>4. CASE AllocHandle(peers) = NoHandle
  <2>1. Goto(Script, "pn_refused") /\ UNCHANGED <<peers, rtcPeer>>  BY <1>4 DEF PeerAlloc
  <2>2. \A r : r.pc = "pn_refused" => Steady(Script, r)  BY <1>1 DEF Steady, Unregistered
  <2> QED BY <1>2, <2>1, <2>2, ScriptThread, GotoKeeps
<1>5. CASE AllocHandle(peers) # NoHandle
  <2>1. PICK a : a = AllocHandle(peers)  OBVIOUS
  <2>2. PICK o : o = [rtc |-> d]  OBVIOUS
  <2>3. PICK r : r = [c EXCEPT !.pc = "pn_wire", !.peer = a, !.ks = WiredAtBirth(PeerCallbacks)]
    OBVIOUS
  <2>4. r.pc = "pn_wire"  BY <1>1, <2>3 DEF Locals
  <2>5. /\ peers' = Alloc(peers, o)
        /\ rtcPeer' = [rtcPeer EXCEPT ![d] = a]
        /\ th' = [th EXCEPT ![Script] = r]
    BY <1>5, <2>1, <2>2, <2>3 DEF PeerAlloc
  <2>6. CanAlloc(peers)  BY <1>5 DEF AllocHandle
  <2>7. o \in PeerObjects /\ o # Null /\ o.rtc = d
    <3>1. o \in PeerObjects  BY <1>1, <2>2 DEF PeerObjects
    <3> QED BY <2>2, <3>1, NullNone
  <2>8. /\ \A h : Get(peers', h) = IF h = a THEN o ELSE Get(peers, h)
        /\ Get(peers, a) = Null /\ a \in Handles
    BY <1>3, <2>1, <2>5, <2>6, <2>7, GetAlloc
  <2>9. FreeListOK(peers')  BY <1>3, <2>5, <2>7, AllocExact
  <2>10. th'[Script] = r /\ \A u \in Threads : u # Script => th'[u] = th[u]
    BY <2>5, ScriptThread, ThreadSet
  <2>11. \A i \in RtcIds : rtcPeer'[i] = IF i = d THEN a ELSE rtcPeer[i]
    BY <1>1, <2>5 DEF TypeOK, TablesOK
  <2>12. rtc[d].kind = "pc" /\ rtcPeer[d] = NoHandle  BY <1>1 DEF MapsInv, PeerInHand, At
  <2>13. \A h : Get(peers, h) # Null => Get(peers, h).rtc \in RtcIds /\ Get(peers, h).rtc # d
    <3>1. \A h : Get(peers, h) # Null => Get(peers, h).rtc \in RtcIds /\ h \in Handles
      BY PeerEntry
    <3>2. \A h \in Handles : h # NoHandle  BY DEF Handles, NoHandle
    <3> QED BY <3>1, <3>2, <2>12 DEF MapsInv, MapsNamed, Named
  <2>14. a # NoHandle  BY <1>5, <2>1
  <2>15. UnmadeUnmapped'  BY <1>2, <2>11, <2>12 DEF MapsInv, UnmadeUnmapped, SameKinds
  <2>16. FreshInHand'
    <3>1. \A u \in Threads : th'[u].pc \in Unregistered => th'[u] = th[u]
      BY <2>4, <2>10 DEF Unregistered
    <3>2. \A u \in Threads : th[u].pc \in Unregistered => th[u].dc \in RtcIds
      BY Local DEF Unregistered, ChannelLabels, RegisterLabels
    <3> QED BY <1>2, <3>1, <3>2 DEF MapsInv, FreshInHand, SameKinds
  <2>17. PeerInHand'  BY <2>4, <2>10 DEF PeerInHand, At
  <2>18. MapsNamed'  BY <1>1, <1>2, <2>7, <2>8, <2>11, <2>13 DEF MapsInv, MapsNamed, Named
  <2>19. th[Script].pc # "cl_sweep" /\ th'[Script].pc # "cl_sweep"  BY <1>1, <2>4, <2>10
  <2>20. MapsPointed'
    BY <1>1, <1>2, <2>7, <2>8, <2>11, <2>14, <2>19 DEF MapsInv, MapsPointed, Pointed, At
  <2>21. Covered'
    <3>1. \A w \in Workers : th'[w] = th[w]  BY <2>10, WorkerThread
    <3>2. \A w \in Workers, h \in Handles : Covers(w, h) => Covers(w, h)'
      BY <1>2, <3>1 DEF Covers
    <3>3. \A h : Get(peers, h) # Null => Get(peers', h) # Null  BY <2>7, <2>8
    <3> QED BY <1>2, <2>19, <3>2, <3>3 DEF MapsInv, Covered, At
  <2>22. FreeListOK(chans')  BY <1>2 DEF MapsInv
  <2> QED BY <2>9, <2>15, <2>16, <2>17, <2>18, <2>20, <2>21, <2>22 DEF MapsInv
<1> QED BY <1>4, <1>5

\* ---------------------------------------------------------- an entry is freed

\* A channel is freed and unpublished by thread t, which moves to r.
LEMMA ChannelGone ==
    ASSUME TypeOK, MapsInv, NEW h, Get(chans, h) # Null,
           chans' = Free(chans, h), rtcChan' = Unpublish(Get(chans, h).rtc),
           UNCHANGED <<peers, rtcPeer>>, SameKinds,
           NEW t \in Threads, NEW r, th' = [th EXCEPT ![t] = r],
           th[Script].pc # "cl_sweep",
           r.pc \notin Unregistered \cup {"pn_alloc", "cl_sweep"},
           r.pc = "pf_sweep" => SameHand(r, th[t]) /\ r.pc = th[t].pc /\ r.obj = th[t].obj,
           t = Script \/ th[t].chan = h
    PROVE  MapsInv'
<1>1. th'[t] = r /\ \A u \in Threads : u # t => th'[u] = th[u]  BY ThreadSet
<1>2. PICK d : d = Get(chans, h).rtc  OBVIOUS
<1>3. d \in RtcIds /\ h \in Handles  BY <1>2, ChannelEntry
<1>4. TableOK(chans, ChannelObjects) /\ FreeListOK(chans)
  BY DEF TypeOK, TablesOK, MapsInv
<1>5. \A g : Get(chans', g) = IF g = h THEN Null ELSE Get(chans, g)  BY <1>4, GetFree
<1>6. FreeListOK(chans')  BY <1>4, FreeExact
<1>7. \A i \in RtcIds : rtcChan'[i] = IF i = d THEN NoHandle ELSE rtcChan[i]
  BY <1>2, <1>3 DEF Unpublish, TypeOK, TablesOK
<1>8. rtcChan[d] = h  BY <1>2, <1>3 DEF MapsInv, MapsNamed, Named
<1>9. UnmadeUnmapped'  BY <1>7 DEF MapsInv, UnmadeUnmapped, SameKinds
<1>10. FreshInHand'
  <2>1. \A u \in Threads : th'[u].pc \in Unregistered => u # t /\ th'[u] = th[u]  BY <1>1
  <2>2. \A u \in Threads : th[u].pc \in Unregistered => th[u].dc \in RtcIds
    BY Local DEF Unregistered, ChannelLabels, RegisterLabels
  <2> QED BY <1>7, <2>1, <2>2 DEF MapsInv, FreshInHand, SameKinds
<1>11. PeerInHand'
  <2>1. CASE t = Script  BY <2>1, <1>1 DEF MapsInv, PeerInHand, At, SameHand, Unregistered
  <2>2. CASE t # Script
    <3>1. th'[Script] = th[Script]  BY <2>2, <1>1, ScriptThread
    <3>2. th[Script].pc = "pn_alloc" => th[Script].obj \in RtcIds
      BY ScriptThread, Local DEF PeerLabels
    <3> QED BY <3>1, <3>2 DEF MapsInv, PeerInHand, At, SameKinds
  <2> QED BY <2>1, <2>2
<1>12. MapsNamed'
  <2>1. \A g \in Handles : g # h /\ Get(chans, g) # Null => Get(chans, g).rtc \in RtcIds /\ Get(chans, g).rtc # d
    BY <1>8, ChannelEntry DEF MapsInv, MapsNamed, Named
  <2> QED BY <1>5, <1>7, <2>1 DEF MapsInv, MapsNamed, Named
<1>13. th'[Script].pc # "cl_sweep"  BY <1>1, ScriptThread
<1>14. MapsPointed'
  <2>1. \A i \in RtcIds : i # d /\ rtcChan[i] # NoHandle => rtcChan[i] # h
    BY <1>2 DEF MapsInv, MapsPointed, Pointed, At
  <2> QED BY <1>5, <1>7, <2>1 DEF MapsInv, MapsPointed, Pointed, At
<1>15. Covered'
  <2> SUFFICES ASSUME NEW g \in Handles, Get(chans', g) # Null
               PROVE  Get(peers, Get(chans', g).peer) # Null \/ \E w \in Workers : Covers(w, g)'
    BY DEF Covered
  <2>1. g # h /\ Get(chans', g) = Get(chans, g)  BY <1>5
  <2>2. Get(peers, Get(chans, g).peer) # Null \/ \E w \in Workers : Covers(w, g)
    BY <2>1 DEF MapsInv, Covered, At
  <2>3. \A w \in Workers : Covers(w, g) => Covers(w, g)'
    <3>1. \A w \in Workers : Covers(w, g) => w # t  BY <2>1, WorkerThread DEF Covers
    <3>2. \A w \in Workers : Covers(w, g) => th'[w] = th[w]  BY <1>1, <3>1, WorkerThread
    <3> QED BY <3>2, <2>1 DEF Covers
  <2> QED BY <2>1, <2>2, <2>3
<1>16. FreeListOK(peers')  BY DEF MapsInv
<1> QED BY <1>6, <1>9, <1>10, <1>11, <1>12, <1>14, <1>15, <1>16 DEF MapsInv

LEMMA RevalidateKeeps ==
    ASSUME TypeOK, LockDiscipline, MapsInv, NEW w \in Workers, Revalidate(w)
    PROVE  MapsInv'
<1> DEFINE c == th[w]
<1>1. w \in Threads /\ w # Script /\ c.pc = "revalidate" /\ th' = [th EXCEPT ![w] = Idle]
  BY WorkerThread DEF Revalidate, At, Return
<1>2. UNCHANGED <<peers, rtcPeer>> /\ SameKinds /\ mu = Nobody
  BY KindsSame DEF Revalidate, rtcVars
<1>3. th[Script].pc # "cl_sweep"  BY <1>2, ShimAssumption DEF LockDiscipline, LoopLabels
<1>4. CASE Get(peers, c.peer) = Null /\ Get(chans, c.chan) # Null
  <2>1. chans' = Free(chans, c.chan) /\ rtcChan' = Unpublish(Get(chans, c.chan).rtc)
    BY <1>4 DEF Revalidate
  <2>2. Idle.pc \notin Unregistered \cup {"pn_alloc", "cl_sweep", "pf_sweep"}
    BY IdleHand DEF Unregistered
  <2> QED BY <1>1, <1>2, <1>3, <1>4, <2>1, <2>2, ChannelGone
<1>5. CASE ~(Get(peers, c.peer) = Null /\ Get(chans, c.chan) # Null)
  <2>1. UNCHANGED <<chans, rtcChan>>
    BY <1>5, NullNone DEF Revalidate, Free, Get, TypeOK, TablesOK, IsLive
  <2>2. th'[w] = Idle /\ \A u \in Threads : u # w => th'[u] = th[u]  BY <1>1, ThreadSet
  <2>3. th'[Script] = th[Script]  BY <1>1, <2>2, ScriptThread
  <2>4. FreshInHand'
    <3>1. \A u \in Threads : th'[u].pc \in Unregistered => th'[u] = th[u]
      BY <2>2, IdleHand DEF Unregistered
    <3>2. \A u \in Threads : th[u].pc \in Unregistered => th[u].dc \in RtcIds
      BY Local DEF Unregistered, ChannelLabels, RegisterLabels
    <3> QED BY <1>2, <2>1, <3>1, <3>2 DEF MapsInv, FreshInHand, SameKinds
  <2>5. PeerInHand'
    <3>1. th[Script].pc = "pn_alloc" => th[Script].obj \in RtcIds
      BY ScriptThread, Local DEF PeerLabels
    <3> QED BY <1>2, <2>3, <3>1 DEF MapsInv, PeerInHand, At, SameKinds
  <2>6. Covered'
    <3> SUFFICES ASSUME NEW h \in Handles, Get(chans, h) # Null, Get(peers, Get(chans, h).peer) = Null
                 PROVE  \E u \in Workers : Covers(u, h)'
      BY <1>2, <2>1 DEF Covered
    <3>1. PICK u \in Workers : Covers(u, h)  BY <1>3 DEF MapsInv, Covered, At
    <3>2. u # w  BY <1>5, <3>1 DEF Covers
    <3>3. th'[u] = th[u]  BY <2>2, <3>2, WorkerThread
    <3> QED BY <2>1, <3>1, <3>3 DEF Covers
  <2> QED
    BY <1>2, <2>1, <2>3, <2>4, <2>5, <2>6, SMTT(30)
       DEF MapsInv, UnmadeUnmapped, MapsNamed, MapsPointed, At, SameKinds
<1> QED BY <1>4, <1>5

LEMMA ChannelFreeKeeps ==
    ASSUME TypeOK, MapsInv, NEW h, ChannelFree(h)
    PROVE  MapsInv'
<1>1. PICK d : d = Get(chans, h).rtc  OBVIOUS
<1>2. PICK r : r = [Idle EXCEPT !.pc = "rtc", !.kind = "channel_free", !.ks = Kinds,
                                !.todo = ClearAndDelete(<<d>>)]
  OBVIOUS
<1>3. r.pc = "rtc"  BY <1>2 DEF Idle
<1>4. /\ Get(chans, h) # Null /\ chans' = Free(chans, h) /\ rtcChan' = Unpublish(Get(chans, h).rtc)
      /\ th[Script].pc # "cl_sweep" /\ UNCHANGED <<peers, rtcPeer>>
  BY DEF ChannelFree, At
<1>5. th' = [th EXCEPT ![Script] = r]  BY <1>1, <1>2 DEF ChannelFree
<1>6. r.pc \notin Unregistered \cup {"pn_alloc", "cl_sweep"} /\ r.pc # "pf_sweep"
  BY <1>3 DEF Unregistered
<1>7. SameKinds  BY KindsSame DEF ChannelFree, rtcVars
<1> QED BY <1>4, <1>5, <1>6, <1>7, ScriptThread, ChannelGone

LEMMA SweptChannel ==
    ASSUME TypeOK, NEW hs, hs \subseteq LiveHandles(chans), hs # {}
    PROVE  Get(chans, FirstHandle(hs)) # Null
<1>1. hs \subseteq Handles  BY LiveChannels
<1>2. FirstHandle(hs) \in hs  BY <1>1, FirstHandleMember
<1> QED BY <1>2, LiveChannels

LEMMA PeerFreeSweepKeeps ==
    ASSUME TypeOK, MapsInv, PeerFreeSweep
    PROVE  MapsInv'
<1> DEFINE c == th[Script]
<1>1. PICK h : h = FirstHandle(ChannelsOf(c.peer))  OBVIOUS
<1>2. Get(chans, h) # Null  BY <1>1, SweptChannel DEF PeerFreeSweep, ChannelsOf
<1>3. PICK r : r = [c EXCEPT !.dcs = Append(@, Get(chans, h).rtc)]  OBVIOUS
<1>4. c \in Locals /\ c.pc = "pf_sweep"  BY ScriptThread, Local DEF PeerFreeSweep, At
<1>5. r.pc = c.pc /\ r.obj = c.obj /\ SameHand(r, c)  BY <1>3, <1>4 DEF Locals, SameHand
<1>6. /\ chans' = Free(chans, h) /\ rtcChan' = Unpublish(Get(chans, h).rtc)
      /\ UNCHANGED <<peers, rtcPeer>> /\ th' = [th EXCEPT ![Script] = r]
  BY <1>1, <1>3 DEF PeerFreeSweep
<1>7. SameKinds  BY KindsSame DEF PeerFreeSweep, rtcVars
<1>8. r.pc \notin Unregistered \cup {"pn_alloc", "cl_sweep"}
  BY <1>4, <1>5 DEF Unregistered
<1>9. c.pc # "cl_sweep"  BY <1>4
<1> QED BY <1>2, <1>5, <1>6, <1>7, <1>8, <1>9, ScriptThread, ChannelGone

LEMMA PeerFreeLockKeeps ==
    ASSUME TypeOK, MapsInv, NEW h, PeerFreeLock(h)
    PROVE  MapsInv'
<1>1. PICK r : r = [Idle EXCEPT !.pc = "pf_sweep", !.kind = "peer_free",
                                !.obj = Get(peers, h).rtc, !.peer = h]
  OBVIOUS
<1>2. r.pc = "pf_sweep" /\ r.obj = Get(peers, h).rtc /\ r.peer = h  BY <1>1 DEF Idle
<1>3. /\ th' = [th EXCEPT ![Script] = r] /\ th[Script].pc = "idle" /\ Get(peers, h) # Null
      /\ UNCHANGED <<peers, chans, rtcPeer, rtcChan, rtc>>
  BY <1>1 DEF PeerFreeLock, At, shimVars, rtcVars
<1>4. th'[Script] = r /\ \A u \in Threads : u # Script => th'[u] = th[u]
  BY <1>3, ScriptThread, ThreadSet
<1>5. FreshInHand'
  <2>1. \A u \in Threads : th'[u].pc \in Unregistered => th'[u] = th[u]
    BY <1>2, <1>4 DEF Unregistered
  <2> QED BY <1>3, <2>1 DEF MapsInv, FreshInHand
<1>6. PeerInHand'  BY <1>2, <1>3, <1>4 DEF PeerInHand, At
<1>7. UnmadeUnmapped' /\ MapsNamed' /\ MapsPointed' /\ FreeListOK(peers') /\ FreeListOK(chans')
  BY <1>3 DEF MapsInv, UnmadeUnmapped, MapsNamed, MapsPointed, At
<1>8. \A w \in Workers : th'[w] = th[w]  BY <1>4, WorkerThread
<1>9. Covered'  BY <1>3, <1>8 DEF MapsInv, Covered, Covers, At
<1> QED BY <1>5, <1>6, <1>7, <1>9 DEF MapsInv

LEMMA PeerFreeDoneKeeps ==
    ASSUME TypeOK, MapsInv, PeerFreeDone
    PROVE  MapsInv'
<1> DEFINE c == th[Script]
<1>1. c \in Locals /\ c.pc = "pf_sweep"  BY ScriptThread, Local DEF PeerFreeDone, At
<1>2. PICK h : h = c.peer  OBVIOUS
<1>3. PICK d : d = c.obj  OBVIOUS
<1>4. PICK r : r = [c EXCEPT !.pc = "rtc", !.ks = Kinds, !.todo = Teardown(c.obj, c.dcs)]
  OBVIOUS
<1>5. r.pc = "rtc"  BY <1>1, <1>4 DEF Locals
<1>6. /\ rtcPeer' = [rtcPeer EXCEPT ![d] = NoHandle] /\ peers' = Free(peers, h)
      /\ th' = [th EXCEPT ![Script] = r] /\ UNCHANGED <<chans, rtcChan, rtc>>
  BY <1>2, <1>3, <1>4 DEF PeerFreeDone, rtcVars
<1>7. Get(peers, h) # Null /\ Get(peers, h).rtc = d
  BY <1>1, <1>2, <1>3 DEF MapsInv, PeerInHand, At
<1>8. h \in Handles /\ d \in RtcIds /\ rtcPeer[d] = h
  BY <1>7, PeerEntry DEF MapsInv, MapsNamed, Named
<1>9. TableOK(peers, PeerObjects) /\ FreeListOK(peers)  BY DEF TypeOK, TablesOK, MapsInv
<1>10. \A g : Get(peers', g) = IF g = h THEN Null ELSE Get(peers, g)
  BY <1>6, <1>9, GetFree
<1>11. FreeListOK(peers') /\ FreeListOK(chans')  BY <1>6, <1>9, FreeExact DEF MapsInv
<1>12. \A i \in RtcIds : rtcPeer'[i] = IF i = d THEN NoHandle ELSE rtcPeer[i]
  BY <1>6, <1>8 DEF TypeOK, TablesOK
<1>13. th'[Script] = r /\ \A u \in Threads : u # Script => th'[u] = th[u]
  BY <1>6, ScriptThread, ThreadSet
<1>14. UnmadeUnmapped'  BY <1>6, <1>12 DEF MapsInv, UnmadeUnmapped
<1>15. FreshInHand'
  <2>1. \A u \in Threads : th'[u].pc \in Unregistered => th'[u] = th[u]
    BY <1>5, <1>13 DEF Unregistered
  <2> QED BY <1>6, <2>1 DEF MapsInv, FreshInHand
<1>16. PeerInHand'  BY <1>5, <1>13 DEF PeerInHand, At
<1>17. MapsNamed'
  <2>1. \A g \in Handles : g # h /\ Get(peers, g) # Null => Get(peers, g).rtc \in RtcIds /\ Get(peers, g).rtc # d
    BY <1>8, PeerEntry DEF MapsInv, MapsNamed, Named
  <2> QED BY <1>6, <1>10, <1>12, <2>1 DEF MapsInv, MapsNamed, Named
<1>18. MapsPointed'
  <2>1. \A i \in RtcIds : i # d /\ rtcPeer[i] # NoHandle => rtcPeer[i] # h
    BY <1>1, <1>7 DEF MapsInv, MapsPointed, Pointed, At
  <2> QED BY <1>1, <1>6, <1>10, <1>12, <2>1 DEF MapsInv, MapsPointed, Pointed, At
<1>19. Covered'
  <2> SUFFICES ASSUME NEW g \in Handles, Get(chans, g) # Null
               PROVE  Get(peers', Get(chans, g).peer) # Null \/ \E w \in Workers : Covers(w, g)'
    BY <1>6 DEF Covered
  <2>1. Get(peers, Get(chans, g).peer) # Null \/ \E w \in Workers : Covers(w, g)
    BY <1>1 DEF MapsInv, Covered, At
  <2>2. Get(chans, g).peer # h
    <3>1. g \in LiveHandles(chans)  BY NullNone, GetFacts DEF TypeOK, TablesOK
    <3> QED BY <3>1, <1>2 DEF PeerFreeDone, ChannelsOf
  <2>3. \A w \in Workers : Covers(w, g) => Covers(w, g)'
    BY <1>6, <1>13, WorkerThread DEF Covers
  <2> QED BY <2>1, <2>2, <2>3, <1>10
<1> QED BY <1>11, <1>14, <1>15, <1>16, <1>17, <1>18, <1>19 DEF MapsInv

\* A step of dcx_cleanup's sweep: the tables shrink, the maps lag behind.
LEMMA SweepKeeps ==
    ASSUME TypeOK, MapsInv, th[Script].pc = "cl_sweep",
           NEW r, th' = [th EXCEPT ![Script] = r], r.pc = "cl_sweep",
           UNCHANGED <<rtcPeer, rtcChan, rtc>>, FreeListOK(peers'), FreeListOK(chans'),
           \A g : Get(peers', g) \in {Null, Get(peers, g)},
           \A g : Get(chans', g) \in {Null, Get(chans, g)}
    PROVE  MapsInv'
<1>1. th'[Script] = r /\ \A u \in Threads : u # Script => th'[u] = th[u]
  BY ScriptThread, ThreadSet
<1>2. UnmadeUnmapped'  BY DEF MapsInv, UnmadeUnmapped
<1>3. FreshInHand'
  <2>1. \A u \in Threads : th'[u].pc \in Unregistered => th'[u] = th[u]
    BY <1>1 DEF Unregistered
  <2> QED BY <2>1 DEF MapsInv, FreshInHand
<1>4. PeerInHand'  BY <1>1 DEF PeerInHand, At
<1>5. MapsNamed'  BY DEF MapsInv, MapsNamed, Named
<1>6. MapsPointed' /\ Covered'  BY <1>1 DEF MapsPointed, Covered, At
<1> QED BY <1>2, <1>3, <1>4, <1>5, <1>6 DEF MapsInv

LEMMA CleanupSweepKeeps ==
    ASSUME TypeOK, MapsInv, CleanupChannel \/ CleanupPeer
    PROVE  MapsInv'
<1> DEFINE c == th[Script]
<1>1. c \in Locals /\ c.pc = "cl_sweep" /\ UNCHANGED <<rtcPeer, rtcChan, rtc>>
  BY ScriptThread, Local DEF CleanupChannel, CleanupPeer, At, rtcVars
<1>2. TableOK(peers, PeerObjects) /\ FreeListOK(peers)
      /\ TableOK(chans, ChannelObjects) /\ FreeListOK(chans)
  BY DEF TypeOK, TablesOK, MapsInv
<1>3. CASE CleanupChannel
  <2>1. PICK h : h = FirstHandle(LiveHandles(chans))  OBVIOUS
  <2>2. PICK r : r = [c EXCEPT !.dcs = Append(@, Get(chans, h).rtc)]  OBVIOUS
  <2>3. r.pc = "cl_sweep"  BY <1>1, <2>2 DEF Locals
  <2>4. th' = [th EXCEPT ![Script] = r] /\ chans' = Free(chans, h) /\ UNCHANGED peers
    BY <1>3, <2>1, <2>2 DEF CleanupChannel
  <2>5. \A g : Get(chans', g) \in {Null, Get(chans, g)}  BY <1>2, <2>4, GetFree
  <2>6. FreeListOK(chans')  BY <1>2, <2>4, FreeExact
  <2>7. \A g : Get(peers', g) \in {Null, Get(peers, g)}  BY <2>4
  <2> QED BY <1>1, <1>2, <2>3, <2>4, <2>5, <2>6, <2>7, SweepKeeps
<1>4. CASE CleanupPeer
  <2>1. PICK h : h = FirstHandle(LiveHandles(peers))  OBVIOUS
  <2>2. PICK r : r = [c EXCEPT !.pcs = Append(@, Get(peers, h).rtc)]  OBVIOUS
  <2>3. r.pc = "cl_sweep"  BY <1>1, <2>2 DEF Locals
  <2>4. th' = [th EXCEPT ![Script] = r] /\ peers' = Free(peers, h) /\ UNCHANGED chans
    BY <1>4, <2>1, <2>2 DEF CleanupPeer
  <2>5. \A g : Get(peers', g) \in {Null, Get(peers, g)}  BY <1>2, <2>4, GetFree
  <2>6. FreeListOK(peers')  BY <1>2, <2>4, FreeExact
  <2>7. \A g : Get(chans', g) \in {Null, Get(chans, g)}  BY <2>4
  <2> QED BY <1>1, <1>2, <2>3, <2>4, <2>5, <2>6, <2>7, SweepKeeps
<1> QED BY <1>3, <1>4

LEMMA CleanupResetKeeps ==
    ASSUME TypeOK, MapsInv, CleanupReset
    PROVE  MapsInv'
<1> DEFINE c == th[Script]
           dcs == c.dcs \o orphans
<1>1. c \in Locals /\ UNCHANGED <<peers, chans, rtc>>
  BY ScriptThread, Local DEF CleanupReset, At, rtcVars
<1>2. PICK r : r = [c EXCEPT !.pc = "rtc", !.ks = Kinds,
                      !.todo = Clear(c.pcs) \o Clear(dcs) \o Delete(dcs) \o Delete(c.pcs)
                                 \o <<[op |-> "cleanup", id |-> 0], [op |-> "join", id |-> 0]>>]
  OBVIOUS
<1>3. r.pc = "rtc"  BY <1>1, <1>2 DEF Locals
<1>4. th' = [th EXCEPT ![Script] = r] /\ rtcPeer' = NoMap /\ rtcChan' = NoMap
  BY <1>2 DEF CleanupReset
<1>5. th'[Script] = r /\ \A u \in Threads : u # Script => th'[u] = th[u]
  BY <1>4, ScriptThread, ThreadSet
<1>6. \A i \in RtcIds : rtcPeer'[i] = NoHandle /\ rtcChan'[i] = NoHandle
  BY <1>4 DEF NoMap
<1>7. \A g : Get(peers, g) = Null /\ Get(chans, g) = Null
  <2>1. LiveHandles(peers) = {} /\ LiveHandles(chans) = {}  BY DEF CleanupReset
  <2> QED BY <2>1, NullNone, GetFacts DEF TypeOK, TablesOK
<1>8. UnmadeUnmapped'  BY <1>6 DEF UnmadeUnmapped
<1>9. FreshInHand'
  <2>1. \A u \in Threads : th'[u].pc \in Unregistered => th'[u] = th[u]
    BY <1>3, <1>5 DEF Unregistered
  <2>2. \A u \in Threads : th[u].pc \in Unregistered => th[u].dc \in RtcIds
    BY Local DEF Unregistered, ChannelLabels, RegisterLabels
  <2> QED BY <1>1, <1>6, <2>1, <2>2 DEF MapsInv, FreshInHand
<1>10. PeerInHand'  BY <1>3, <1>5 DEF PeerInHand, At
<1>11. MapsNamed' /\ MapsPointed' /\ Covered'
  BY <1>1, <1>6, <1>7 DEF MapsNamed, MapsPointed, Covered, Named, Pointed
<1> QED BY <1>1, <1>8, <1>9, <1>10, <1>11 DEF MapsInv

\* --------------------------------------------------------------- the theorems

LEMMA InitMaps ==
    ASSUME Init
    PROVE  MapsInv
<1>1. \A t \in Threads : th[t].pc = "idle"  BY IdleHand DEF Init
<1>2. \A i \in RtcIds : rtcPeer[i] = NoHandle /\ rtcChan[i] = NoHandle  BY DEF Init, NoMap
<1>3. peers = EmptyTable /\ chans = EmptyTable  BY DEF Init
<1>4. \A h : Get(EmptyTable, h) = Null  BY DEF Get, IsLive, EmptyTable, Handles
<1>5. FreeListOK(peers) /\ FreeListOK(chans)  BY <1>3, EmptyTableOK
<1>6. UnmadeUnmapped  BY <1>2 DEF UnmadeUnmapped
<1>7. FreshInHand  BY <1>1 DEF FreshInHand, Unregistered
<1>8. PeerInHand  BY <1>1, ScriptThread DEF PeerInHand, At
<1>9. MapsNamed /\ MapsPointed /\ Covered
  BY <1>2, <1>3, <1>4 DEF MapsNamed, MapsPointed, Covered, Named, Pointed
<1> QED BY <1>5, <1>6, <1>7, <1>8, <1>9 DEF MapsInv

LEMMA NextMaps ==
    ASSUME TypeOK, LockDiscipline, MapsInv, [Next]_vars
    PROVE  MapsInv'
<1>1. CASE Library
  <2>1. CASE \E d \in RtcIds : RtcChannelOpens(d) \/ RtcChannelCloses(d)
    BY <2>1, LibraryKeeps
  <2>2. CASE \E w \in Workers, id \in RtcIds, k \in Kinds : Fire(w, id, k)
    BY <2>2, FireKeeps
  <2>3. CASE \E w \in Workers, p, d \in RtcIds : FireDataChannel(w, p, d)
    BY <2>3, FireDataChannelKeeps
  <2> QED BY <1>1, <2>1, <2>2, <2>3 DEF Library
<1>2. CASE \E w \in Workers : CallbackStep(w)
  <2>1. PICK w \in Workers : CallbackStep(w)  BY <1>2
  <2>2. w \in Threads  BY WorkerThread
  <2> QED
    BY <2>1, <2>2, CallbacksKeep, LookupKeeps, OpenCallbackKeeps, RevalidateKeeps, RegisterKeeps,
       WireChannelKeeps, CheckOpenKeeps, AnnounceOpenKeeps DEF CallbackStep
<1>3. CASE Call
  <2>1. CASE \E id \in RtcIds : PeerNew(id)  BY <2>1, PeerNewKeeps
  <2>2. CASE \E h : PeerClose(h) \/ ChannelClose(h) \/ SetBufferedLow(h)
    BY <2>2, PlainCallKeeps
  <2>3. CASE \E h : \E d \in RtcIds : ChannelNew(h, d)  BY <2>3, ChannelNewKeeps
  <2>4. CASE \E h : PeerFreeLock(h) \/ ChannelFree(h)
    BY <2>4, PeerFreeLockKeeps, ChannelFreeKeeps
  <2>5. CASE CleanupLock  BY <2>5, CleanupLockKeeps
  <2> QED BY <1>3, <2>1, <2>2, <2>3, <2>4, <2>5 DEF Call
<1>4. CASE PollStart \/ PollRetry  BY <1>4, PollKeeps DEF PollStart, PollRetry, At
<1>5. CASE ScriptStep /\ ~PollRetry
  BY <1>5, ScriptThread, PeerAllocKeeps, PeerWireKeeps, RegisterKeeps, WireChannelKeeps,
     CheckOpenKeeps, AnnounceOpenKeeps, TeardownKeeps, PeerFreeSweepKeeps, PeerFreeDoneKeeps,
     CleanupSweepKeeps, CleanupResetKeeps, DrainKeeps DEF ScriptStep
<1>6. CASE UNCHANGED vars
  <2>1. UNCHANGED <<th, peers, chans, rtcPeer, rtcChan, rtc>>
    BY <1>6 DEF vars, shimVars, rtcVars
  <2> QED BY <2>1, StillKeeps, KindsSame
<1> QED BY <1>1, <1>2, <1>3, <1>4, <1>5, <1>6 DEF Next

\* The maps, the tables, the free lists and what the threads hold stay
\* consistent in every reachable state.
THEOREM MapsInvariant == Spec => []MapsInv
  BY TypeCorrect, LockDisciplined, InitMaps, NextMaps, PTL DEF Spec

\* Outside dcx_cleanup's locked section the two maps and the two tables name
\* each other, whatever the threads interleave.
THEOREM MapsCorrect == Spec => []MapsAgree
<1>1. TypeOK /\ MapsInv => MapsAgree
  <2> SUFFICES ASSUME TypeOK, MapsInv, ~At(Script, "cl_sweep")
               PROVE  MapsAgree
    BY DEF MapsAgree
  <2>1. \A h \in LiveHandles(chans) : h \in Handles /\ Get(chans, h) # Null
    BY LiveChannels
  <2>2. \A h \in LiveHandles(peers) : h \in Handles /\ Get(peers, h) # Null  BY LivePeers
  <2> QED BY <2>1, <2>2 DEF MapsInv, MapsNamed, MapsPointed, Named, Pointed, MapsAgree
<1> QED BY <1>1, TypeCorrect, MapsInvariant, PTL

\* A live channel outlives its peer only while the callback that registered it
\* has still to re-validate.
THEOREM NoOrphans == Spec => []NoOrphanEntry
<1>1. TypeOK /\ MapsInv => NoOrphanEntry
  <2> SUFFICES ASSUME TypeOK, MapsInv, ~At(Script, "cl_sweep"), NEW h \in LiveHandles(chans)
               PROVE  \/ Get(peers, Get(chans, h).peer) # Null
                      \/ \E w \in Workers : ~At(w, "idle") /\ th[w].chan = h
    BY DEF NoOrphanEntry
  <2>1. h \in Handles /\ Get(chans, h) # Null  BY LiveChannels
  <2>2. \A w \in Workers : Covers(w, h) => ~At(w, "idle") /\ th[w].chan = h
    BY DEF Covers, AfterRegister, At
  <2> QED BY <2>1, <2>2 DEF MapsInv, Covered
<1> QED BY <1>1, TypeCorrect, MapsInvariant, PTL

\* --------------------------------------------- what a step does to the tables

LEMMA TablesTyped ==
    ASSUME TypeOK
    PROVE  /\ TableOK(peers, PeerObjects) /\ TableOK(chans, ChannelObjects)
           /\ Null \notin PeerObjects /\ Null \notin ChannelObjects
  BY ShimAssumption DEF TypeOK, TablesOK

LEMMA AnnounceMarks ==
    ASSUME NEW h, NEW p, Announce(h, Get(chans, h), p)
    PROVE  \/ UNCHANGED <<chans, queueVars>>
           \/ Marks(h) /\ Enqueue(Event("E_CHANNEL_OPEN", p, h, 0))
  BY DEF Announce, MayAnnounce, Marks, Get

LEMMA KeptShrinks ==
    ASSUME TypeOK, ChannelsKept
    PROVE  Shrinks(chans, chans', ChannelObjects)
<1>1. ASSUME NEW h, Marks(h) PROVE Shrinks(chans, chans', ChannelObjects)
  <2>1. Get(chans, h) # Null
    <3>1. TableOK(chans, ChannelObjects)  BY TablesTyped
    <3> QED BY <1>1 DEF Marks, Get, IsLive
  <2>2. Get(chans, h) \in ChannelObjects  BY <2>1, ChannelEntry
  <2>3. PICK o : o = [Get(chans, h) EXCEPT !.announced = TRUE]  OBVIOUS
  <2>4. o \in ChannelObjects  BY <2>2, <2>3 DEF ChannelObjects
  <2> QED BY <1>1, <2>3, <2>4 DEF Marks, Shrinks
<1> QED BY <1>1 DEF ChannelsKept, Shrinks

LEMMA ChannelsStep ==
    ASSUME TypeOK, [Next]_vars
    PROVE  ChannelsMove
<1>1. ASSUME UNCHANGED chans PROVE ChannelsMove  BY <1>1 DEF ChannelsKept, ChannelsMove
<1>2. ASSUME NEW h, chans' = Free(chans, h) PROVE ChannelsMove
  BY <1>2 DEF ChannelsKept, ChannelsMove
<1>3. ASSUME NEW t \in Threads, Register(t) PROVE ChannelsMove
  <2>1. CASE CanAlloc(chans)  BY <1>3, <2>1 DEF Registers, ChannelsMove
  <2>2. CASE ~CanAlloc(chans)  BY <1>1, <1>3, <2>2 DEF Register, AllocHandle
  <2> QED BY <2>1, <2>2
<1>4. ASSUME NEW h, NEW p, Announce(h, Get(chans, h), p) PROVE ChannelsMove
  BY <1>1, <1>4, AnnounceMarks, SMTT(30) DEF ChannelsKept, ChannelsMove
<1>5. CASE Library
  BY <1>1, <1>5, Zenon DEF Library, RtcChannelOpens, RtcChannelCloses, Fire, FireDataChannel, shimVars
<1>6. ASSUME NEW w \in Workers, CallbackStep(w) PROVE ChannelsMove
  <2>1. CASE PeerCallback(w) \/ ChannelCallback(w) \/ Lookup(w) \/ Orphan(w) \/ WireChannel(w) \/ CheckOpen(w)
    BY <1>1, <2>1 DEF PeerCallback, ChannelCallback, Lookup, Orphan, WireChannel, CheckOpen, shimVars
  <2>2. CASE OpenCallback(w)  BY <1>4, <2>2 DEF OpenCallback
  <2>3. CASE AnnounceOpen(w)  BY <1>4, <2>3 DEF AnnounceOpen
  <2>4. CASE Revalidate(w)  BY <1>1, <1>2, <2>4 DEF Revalidate
  <2>5. CASE Register(w)  BY <1>3, <2>5, WorkerThread
  <2> QED BY <1>6, <2>1, <2>2, <2>3, <2>4, <2>5 DEF CallbackStep
<1>7. CASE Call
  BY <1>1, <1>2, <1>7, Zenon DEF Call, PeerNew, PeerClose, PeerFreeLock, ChannelNew, ChannelClose,
     SetBufferedLow, ChannelFree, CleanupLock, shimVars
<1>8. CASE PollStart \/ PollRetry  BY <1>1, <1>8 DEF PollStart, PollRetry, Poll
<1>9. CASE ScriptStep /\ ~PollRetry
  <2>1. CASE PeerAlloc \/ PeerRefused \/ WirePeer \/ WireChannel(Script) \/ CheckOpen(Script) \/ ChannelRefused
    BY <1>1, <2>1 DEF PeerAlloc, PeerRefused, WirePeer, WireChannel, CheckOpen, ChannelRefused, shimVars
  <2>2. CASE Register(Script)  BY <1>3, <2>2, ScriptThread
  <2>3. CASE AnnounceOpen(Script)  BY <1>4, <2>3, SMTT(30) DEF AnnounceOpen
  <2>4. CASE ClearCallback \/ DeleteObject \/ RtcCleanup \/ RtcJoin \/ RtcDone
    BY <1>1, <2>4 DEF ClearCallback, DeleteObject, RtcCleanup, RtcJoin, RtcDone, shimVars
  <2>5. CASE PeerFreeSweep \/ CleanupChannel
    BY <1>2, <2>5, SMTT(30) DEF PeerFreeSweep, CleanupChannel
  <2>6. CASE PeerFreeDone \/ CleanupPeer \/ CleanupReset
    BY <1>1, <2>6 DEF PeerFreeDone, CleanupPeer, CleanupReset
  <2>7. CASE DrainLock \/ DrainDiscard \/ DrainDeliver \/ DrainEnd
    BY <1>1, <2>7 DEF DrainLock, DrainDiscard, DrainDeliver, DrainEnd, shimVars
  <2> QED BY <1>9, <2>1, <2>2, <2>3, <2>4, <2>5, <2>6, <2>7 DEF ScriptStep
<1>10. CASE UNCHANGED vars  BY <1>1, <1>10 DEF vars, shimVars
<1> QED BY <1>5, <1>6, <1>7, <1>8, <1>9, <1>10 DEF Next

LEMMA PeersStep ==
    ASSUME TypeOK, [Next]_vars
    PROVE  PeersMove
<1>1. ASSUME UNCHANGED peers PROVE PeersMove  BY <1>1 DEF PeersMove
<1>2. ASSUME NEW h, peers' = Free(peers, h) PROVE PeersMove  BY <1>2 DEF PeersMove
<1>3. ASSUME PeerAlloc PROVE PeersMove
  BY <1>1, <1>3, SMTT(30) DEF PeerAlloc, AllocHandle, Mints, PeersMove
<1>5. CASE Library
  BY <1>1, <1>5, Zenon DEF Library, RtcChannelOpens, RtcChannelCloses, Fire, FireDataChannel, shimVars
<1>6. ASSUME NEW t, \/ PeerCallback(t) \/ ChannelCallback(t) \/ OpenCallback(t) \/ Lookup(t) \/ Orphan(t)
                    \/ Revalidate(t) \/ Register(t) \/ WireChannel(t) \/ CheckOpen(t) \/ AnnounceOpen(t)
      PROVE PeersMove
  BY <1>1, <1>6, SMTT(30) DEF PeerCallback, ChannelCallback, OpenCallback, Lookup, Orphan, Revalidate, Register,
     WireChannel, CheckOpen, AnnounceOpen, shimVars
<1>7. CASE Call
  BY <1>1, <1>7, Zenon DEF Call, PeerNew, PeerClose, PeerFreeLock, ChannelNew, ChannelClose,
     SetBufferedLow, ChannelFree, CleanupLock, shimVars
<1>8. CASE PollStart \/ PollRetry  BY <1>1, <1>8 DEF PollStart, PollRetry, Poll
<1>9. CASE ScriptStep /\ ~PollRetry
  <2>1. CASE PeerRefused \/ WirePeer \/ ChannelRefused
    BY <1>1, <2>1, SMTT(30) DEF PeerRefused, WirePeer, ChannelRefused, shimVars
  <2>2. CASE ClearCallback \/ DeleteObject \/ RtcCleanup \/ RtcJoin \/ RtcDone
    BY <1>1, <2>2 DEF ClearCallback, DeleteObject, RtcCleanup, RtcJoin, RtcDone, shimVars
  <2>3. CASE PeerFreeDone \/ CleanupPeer  BY <1>2, <2>3, SMTT(30) DEF PeerFreeDone, CleanupPeer
  <2>4. CASE PeerFreeSweep \/ CleanupChannel \/ CleanupReset
    BY <1>1, <2>4 DEF PeerFreeSweep, CleanupChannel, CleanupReset
  <2>5. CASE DrainLock \/ DrainDiscard \/ DrainDeliver \/ DrainEnd
    BY <1>1, <2>5 DEF DrainLock, DrainDiscard, DrainDeliver, DrainEnd, shimVars
  <2> QED BY <1>3, <1>6, <1>9, <2>1, <2>2, <2>3, <2>4, <2>5 DEF ScriptStep
<1>10. CASE UNCHANGED vars  BY <1>1, <1>10 DEF vars, shimVars
<1> QED BY <1>5, <1>6, <1>7, <1>8, <1>9, <1>10 DEF Next, CallbackStep

\* -------------------------------------------- what a step does to the threads

LEMMA HandsByRecord ==
    ASSUME TypeOK, NEW t \in Threads, NEW r, th' = [th EXCEPT ![t] = r], TakesUp(t, r), KindsGrow
    PROVE  HandsMove
<1>1. th'[t] = r /\ \A u \in Threads : u # t => th'[u] = th[u]  BY ThreadSet
<1>2. \A u \in Threads : TakesUp(u, th[u])  BY DEF TakesUp, SameHand
<1> QED BY <1>1, <1>2 DEF HandsMove

LEMMA HandsStill ==
    ASSUME TypeOK, UNCHANGED th, KindsGrow
    PROVE  HandsMove
  BY DEF TakesUp, SameHand, HandsMove

LEMMA PlainTakes ==
    ASSUME NEW t, NEW r, r.pc \in Plain
    PROVE  TakesUp(t, r)
  BY DEF TakesUp, Plain, Unregistered, AfterRegister

LEMMA KindsKept ==
    ASSUME UNCHANGED rtc
    PROVE  KindsGrow
  BY DEF KindsGrow

LEMMA PlainHands ==
    ASSUME TypeOK, PlainStep, KindsGrow
    PROVE  HandsMove
  BY ScriptThread, PlainTakes, HandsByRecord DEF PlainStep

LEMMA PlainIdle ==
    ASSUME Return(Script)
    PROVE  PlainStep
  BY IdleHand DEF Return, PlainStep, Plain

LEMMA PlainGoto ==
    ASSUME TypeOK, NEW l \in Plain, Goto(Script, l)
    PROVE  PlainStep
<1>1. PICK r : r = [th[Script] EXCEPT !.pc = l]  OBVIOUS
<1>2. th[Script] \in Locals  BY ScriptThread, Local
<1>3. r.pc = l  BY <1>1, <1>2 DEF Locals
<1>4. th' = [th EXCEPT ![Script] = r]  BY <1>1 DEF Goto
<1> QED BY <1>3, <1>4 DEF PlainStep

LEMMA PeerAllocPlain ==
    ASSUME TypeOK, PeerAlloc
    PROVE  PlainStep
<1> DEFINE c == th[Script]
<1>1. c \in Locals  BY ScriptThread, Local
<1>2. CASE AllocHandle(peers) = NoHandle  BY <1>2, PlainGoto DEF PeerAlloc, Plain
<1>3. CASE AllocHandle(peers) # NoHandle
  <2>1. PICK r : r = [c EXCEPT !.pc = "pn_wire", !.peer = AllocHandle(peers), !.ks = WiredAtBirth(PeerCallbacks)]
    OBVIOUS
  <2>2. r.pc = "pn_wire"  BY <1>1, <2>1 DEF Locals
  <2>3. th' = [th EXCEPT ![Script] = r]  BY <1>3, <2>1 DEF PeerAlloc
  <2> QED BY <2>2, <2>3 DEF PlainStep, Plain
<1> QED BY <1>2, <1>3

LEMMA PeerWirePlain ==
    ASSUME TypeOK, PeerRefused \/ ChannelRefused \/ WirePeer
    PROVE  PlainStep
<1> DEFINE c == th[Script]
<1>1. c \in Locals  BY ScriptThread, Local
<1>2. CASE Return(Script)  BY <1>2, PlainIdle
<1>3. CASE WirePeer /\ c.ks # {}
  <2>1. PICK r : r = [c EXCEPT !.ks = @ \ {FirstOf(c.ks, PeerCallbacks)}]  OBVIOUS
  <2>2. th' = [th EXCEPT ![Script] = r]  BY <1>3, <2>1 DEF WirePeer
  <2>3. r.pc = "pn_wire"  BY <1>1, <1>3, <2>1 DEF Locals, WirePeer, At
  <2> QED BY <2>2, <2>3 DEF PlainStep, Plain
<1> QED BY <1>2, <1>3 DEF PeerRefused, ChannelRefused, WirePeer

LEMMA TeardownPlain ==
    ASSUME TypeOK, ClearCallback \/ DeleteObject \/ RtcCleanup \/ RtcJoin \/ RtcDone
    PROVE  PlainStep
<1> DEFINE c == th[Script]
<1>1. c \in Locals /\ c.pc = "rtc"
  BY ScriptThread, Local, Zenon DEF ClearCallback, DeleteObject, RtcCleanup, RtcJoin, RtcDone, Owes, At
<1>2. CASE ClearCallback
  <2> DEFINE order == IF IsPc(Head(c.todo).id) THEN PeerCallbacks ELSE ChannelCallbacks
             left == c.ks \cap Elems(order)
  <2>1. PICK r : r \in {[c EXCEPT !.todo = Tail(@), !.ks = Kinds], [c EXCEPT !.ks = @ \ {FirstOf(left, order)}]}
                 /\ th' = [th EXCEPT ![Script] = r]
    BY <1>2, Zenon DEF ClearCallback
  <2>2. r.pc = "rtc"  BY <1>1, <2>1 DEF Locals
  <2> QED BY <2>1, <2>2, Zenon DEF PlainStep, Plain
<1>3. CASE DeleteObject \/ RtcCleanup \/ RtcJoin
  <2>1. PICK r : r = [c EXCEPT !.todo = Tail(@)]  OBVIOUS
  <2>2. r.pc = "rtc"  BY <1>1, <2>1 DEF Locals
  <2>3. th' = [th EXCEPT ![Script] = r]
    BY <1>3, <2>1 DEF DeleteObject, RtcCleanup, RtcJoin
  <2> QED BY <2>2, <2>3 DEF PlainStep, Plain
<1>4. CASE RtcDone  BY <1>4, PlainGoto, PlainIdle DEF RtcDone, Plain
<1> QED BY <1>2, <1>3, <1>4, SMTT(30)

LEMMA SweepPlain ==
    ASSUME TypeOK, PeerFreeSweep \/ PeerFreeDone \/ CleanupChannel \/ CleanupPeer \/ CleanupReset
    PROVE  PlainStep
<1> DEFINE c == th[Script]
<1>1. c \in Locals  BY ScriptThread, Local
<1>2. CASE PeerFreeSweep
  <2>1. PICK d : th' = [th EXCEPT ![Script] = [c EXCEPT !.dcs = Append(@, d)]]
    BY <1>2 DEF PeerFreeSweep
  <2>2. PICK r : r = [c EXCEPT !.dcs = Append(@, d)]  OBVIOUS
  <2>3. r.pc = "pf_sweep"  BY <1>1, <1>2, <2>2 DEF Locals, PeerFreeSweep, At
  <2> QED BY <2>1, <2>2, <2>3 DEF PlainStep, Plain
<1>3. CASE CleanupChannel
  <2>1. PICK d : th' = [th EXCEPT ![Script] = [c EXCEPT !.dcs = Append(@, d)]]
    BY <1>3 DEF CleanupChannel
  <2>2. PICK r : r = [c EXCEPT !.dcs = Append(@, d)]  OBVIOUS
  <2>3. r.pc = "cl_sweep"  BY <1>1, <1>3, <2>2 DEF Locals, CleanupChannel, At
  <2> QED BY <2>1, <2>2, <2>3 DEF PlainStep, Plain
<1>4. CASE CleanupPeer
  <2>1. PICK p : th' = [th EXCEPT ![Script] = [c EXCEPT !.pcs = Append(@, p)]]
    BY <1>4 DEF CleanupPeer
  <2>2. PICK r : r = [c EXCEPT !.pcs = Append(@, p)]  OBVIOUS
  <2>3. r.pc = "cl_sweep"  BY <1>1, <1>4, <2>2 DEF Locals, CleanupPeer, At
  <2> QED BY <2>1, <2>2, <2>3 DEF PlainStep, Plain
<1>5. CASE PeerFreeDone \/ CleanupReset
  <2>1. PICK todo : th' = [th EXCEPT ![Script] = [c EXCEPT !.pc = "rtc", !.ks = Kinds, !.todo = todo]]
    BY <1>5, Zenon DEF PeerFreeDone, CleanupReset
  <2>2. PICK r : r = [c EXCEPT !.pc = "rtc", !.ks = Kinds, !.todo = todo]  OBVIOUS
  <2>3. r.pc = "rtc"  BY <1>1, <2>2 DEF Locals
  <2> QED BY <2>1, <2>2, <2>3, Zenon DEF PlainStep, Plain
<1> QED BY <1>2, <1>3, <1>4, <1>5

LEMMA CallsPlain ==
    ASSUME TypeOK, NEW h, NEW b, PeerFreeLock(h) \/ ChannelFree(h) \/ CleanupLock \/ Poll(b)
    PROVE  PlainStep
<1> DEFINE c == th[Script]
<1>1. c \in Locals  BY ScriptThread, Local
<1>2. CASE PeerFreeLock(h)
  <2>1. PICK r : r = [Idle EXCEPT !.pc = "pf_sweep", !.kind = "peer_free",
                                  !.obj = Get(peers, h).rtc, !.peer = h]
    OBVIOUS
  <2>2. r.pc = "pf_sweep"  BY <2>1 DEF Idle
  <2>3. th' = [th EXCEPT ![Script] = r]  BY <1>2, <2>1 DEF PeerFreeLock
  <2> QED BY <2>2, <2>3 DEF PlainStep, Plain
<1>3. CASE ChannelFree(h)
  <2>1. PICK r : r = [Idle EXCEPT !.pc = "rtc", !.kind = "channel_free", !.ks = Kinds,
                                  !.todo = ClearAndDelete(<<Get(chans, h).rtc>>)]
    OBVIOUS
  <2>2. r.pc = "rtc"  BY <2>1 DEF Idle
  <2>3. th' = [th EXCEPT ![Script] = r]  BY <1>3, <2>1 DEF ChannelFree
  <2> QED BY <2>2, <2>3 DEF PlainStep, Plain
<1>4. CASE CleanupLock
  <2>1. PICK r : r = [c EXCEPT !.pc = "cl_sweep", !.kind = "cleanup"]  OBVIOUS
  <2>2. r.pc = "cl_sweep"  BY <1>1, <2>1 DEF Locals
  <2>3. th' = [th EXCEPT ![Script] = r]  BY <1>4, <2>1 DEF CleanupLock
  <2> QED BY <2>2, <2>3 DEF PlainStep, Plain
<1>5. CASE Poll(b)
  <2>1. PICK r : r = [Idle EXCEPT !.pc = "rtc", !.kind = "poll", !.ks = Kinds,
                                  !.todo = ClearAndDelete(orphans), !.again = b]
    OBVIOUS
  <2>2. r.pc = "rtc"  BY <2>1 DEF Idle
  <2>3. th' = [th EXCEPT ![Script] = r]  BY <1>5, <2>1 DEF Poll
  <2> QED BY <2>2, <2>3 DEF PlainStep, Plain
<1> QED BY <1>2, <1>3, <1>4, <1>5

LEMMA DrainPlain ==
    ASSUME TypeOK, DrainLock \/ DrainDeliver \/ DrainEnd
    PROVE  PlainStep
<1> DEFINE c == th[Script]
<1>1. c \in Locals  BY ScriptThread, Local
<1>2. CASE DrainLock
  <2>1. PICK r : r = [c EXCEPT !.pc = "drain", !.used = 2]  OBVIOUS
  <2>2. r.pc = "drain"  BY <1>1, <2>1 DEF Locals
  <2>3. th' = [th EXCEPT ![Script] = r]  BY <1>2, <2>1 DEF DrainLock
  <2> QED BY <2>2, <2>3 DEF PlainStep, Plain
<1>3. CASE DrainDeliver
  <2>1. PICK r : r = [c EXCEPT !.used = @ + Wire(Head(queue)), !.n = @ + 1]  OBVIOUS
  <2>2. r.pc = "drain"  BY <1>1, <1>3, <2>1 DEF Locals, DrainDeliver, At
  <2>3. th' = [th EXCEPT ![Script] = r]  BY <1>3, <2>1 DEF DrainDeliver
  <2> QED BY <2>2, <2>3 DEF PlainStep, Plain
<1>4. CASE DrainEnd  BY <1>4, PlainGoto, PlainIdle DEF DrainEnd, Plain
<1> QED BY <1>2, <1>3, <1>4

LEMMA MadeHands ==
    ASSUME TypeOK, NEW t \in Threads, NEW r, th' = [th EXCEPT ![t] = r],
           NEW id \in RtcIds, rtc[id].kind = "none", NEW o, rtc' = [rtc EXCEPT ![id] = o],
           \/ r.pc = "lookup" /\ r.dc = id
           \/ r.pc = "register" /\ r.dc = id /\ Get(peers, r.peer) # Null
           \/ r.pc = "pn_alloc" /\ r.obj = id
    PROVE  HandsMove
<1>1. KindsGrow  BY DEF KindsGrow, TypeOK, LibraryOK
<1>2. TakesUp(t, r)  BY DEF TakesUp, Unregistered, AfterRegister
<1> QED BY <1>1, <1>2, HandsByRecord

LEMMA LibraryHands ==
    ASSUME TypeOK, Library
    PROVE  HandsMove
<1>1. ASSUME NEW d \in RtcIds, RtcChannelOpens(d) \/ RtcChannelCloses(d) PROVE HandsMove
  <2>1. KindsGrow
    BY <1>1 DEF RtcChannelOpens, RtcChannelCloses, KindsGrow, TypeOK, LibraryOK, RtcObjects
  <2> QED BY <1>1, <2>1, HandsStill DEF RtcChannelOpens, RtcChannelCloses
<1>2. ASSUME NEW w \in Workers, NEW id \in RtcIds, NEW k \in Kinds, Fire(w, id, k) PROVE HandsMove
  <2>1. PICK n \in Argument(k) :
           th' = [th EXCEPT ![w] = [Idle EXCEPT !.pc = "body", !.obj = id, !.kind = k, !.n = n]]
    BY <1>2, Zenon DEF Fire
  <2>2. PICK r : r = [Idle EXCEPT !.pc = "body", !.obj = id, !.kind = k, !.n = n]  OBVIOUS
  <2>3. r.pc = "body" /\ r.obj = id /\ r.kind = k  BY <2>2 DEF Idle
  <2>4. KindsGrow  BY <1>2 DEF Fire, KindsGrow, TypeOK, LibraryOK, RtcObjects
  <2>5. TakesUp(w, r)
    <3>1. k \in wired[id]  BY <1>2 DEF Fire
    <3> QED BY <2>3, <3>1 DEF TakesUp, Unregistered, AfterRegister
  <2> QED BY <2>1, <2>2, <2>4, <2>5, WorkerThread, HandsByRecord
<1>3. ASSUME NEW w \in Workers, NEW p \in RtcIds, NEW d \in RtcIds, FireDataChannel(w, p, d)
      PROVE  HandsMove
  <2>1. PICK n \in Sizes :
           th' = [th EXCEPT ![w] = [Idle EXCEPT !.pc = "lookup", !.obj = p, !.dc = d,
                                              !.kind = "DATA_CHANNEL", !.n = n]]
    BY <1>3, Zenon DEF FireDataChannel
  <2>2. PICK r : r = [Idle EXCEPT !.pc = "lookup", !.obj = p, !.dc = d, !.kind = "DATA_CHANNEL", !.n = n]
    OBVIOUS
  <2>3. r.pc = "lookup" /\ r.dc = d  BY <2>2 DEF Idle
  <2>4. PICK st \in {"new", "open"} : rtc' = [rtc EXCEPT ![d] = Object("dc", st, p)]
    BY <1>3 DEF FireDataChannel
  <2>5. rtc[d].kind = "none" /\ w \in Threads
    BY <1>3, WorkerThread DEF FireDataChannel, IsNewId
  <2> QED BY <2>1, <2>2, <2>3, <2>4, <2>5, MadeHands
<1> QED BY <1>1, <1>2, <1>3 DEF Library

LEMMA NewHands ==
    ASSUME TypeOK, NEW h, NEW d \in RtcIds, ChannelNew(h, d) \/ PeerNew(d)
    PROVE  HandsMove
<1>1. CASE ChannelNew(h, d)
  <2>1. PICK r : r = [Idle EXCEPT !.pc = "register", !.dc = d, !.peer = h]  OBVIOUS
  <2>2. r.pc = "register" /\ r.dc = d /\ Get(peers, r.peer) # Null
    BY <1>1, <2>1 DEF Idle, ChannelNew
  <2>3. th' = [th EXCEPT ![Script] = r] /\ rtc[d].kind = "none"
    BY <1>1, <2>1 DEF ChannelNew, IsNewId
  <2>4. PICK o : rtc' = [rtc EXCEPT ![d] = o]  BY <1>1 DEF ChannelNew
  <2> QED BY <2>2, <2>3, <2>4, ScriptThread, MadeHands
<1>2. CASE PeerNew(d)
  <2>1. PICK r : r = [th[Script] EXCEPT !.pc = "pn_alloc", !.obj = d]  OBVIOUS
  <2>2. th[Script] \in Locals  BY ScriptThread, Local
  <2>3. r.pc = "pn_alloc" /\ r.obj = d  BY <2>1, <2>2 DEF Locals
  <2>4. th' = [th EXCEPT ![Script] = r] /\ rtc[d].kind = "none"
    BY <1>2, <2>1 DEF PeerNew, IsNewId
  <2>5. PICK o : rtc' = [rtc EXCEPT ![d] = o]  BY <1>2 DEF PeerNew
  <2> QED BY <2>3, <2>4, <2>5, ScriptThread, MadeHands
<1> QED BY <1>1, <1>2

LEMMA CallbackHands ==
    ASSUME TypeOK, NEW w \in Workers,
           PeerCallback(w) \/ ChannelCallback(w) \/ OpenCallback(w) \/ Orphan(w) \/ Revalidate(w) \/ Lookup(w)
    PROVE  HandsMove
<1>1. KindsGrow
  BY KindsKept DEF PeerCallback, ChannelCallback, OpenCallback, Orphan, Revalidate, Lookup, rtcVars
<1>2. CASE Return(w)
  <2>1. Idle.pc \in Plain  BY IdleHand DEF Plain
  <2> QED BY <1>1, <1>2, <2>1, WorkerThread, PlainTakes, HandsByRecord DEF Return
<1>3. CASE Lookup(w)
  <2>1. PICK r : r = [th[w] EXCEPT !.pc = IF rtcPeer[th[w].obj] = NoHandle THEN "orphan" ELSE "register",
                                   !.peer = rtcPeer[th[w].obj]]
    OBVIOUS
  <2>2. th[w] \in Locals /\ th[w].pc = "lookup" /\ th' = [th EXCEPT ![w] = r]
    BY <1>3, <2>1, WorkerThread, Local DEF Lookup, At
  <2>3. /\ r.pc \in {"orphan", "register"} /\ r.dc = th[w].dc /\ r.peer = rtcPeer[th[w].obj]
        /\ r.pc = "register" => r.peer # NoHandle
    BY <2>1, <2>2 DEF Locals
  <2>4. th[w].obj \in RtcIds /\ mu = Nobody  BY <1>3, <2>2, WorkerThread, Local DEF Lookup
  <2>5. TakesUp(w, r)  BY <2>2, <2>3, <2>4 DEF TakesUp, Unregistered, AfterRegister
  <2> QED BY <1>1, <2>2, <2>5, WorkerThread, HandsByRecord
<1> QED BY <1>2, <1>3 DEF PeerCallback, ChannelCallback, OpenCallback, Orphan, Revalidate

LEMMA GotoHands ==
    ASSUME TypeOK, NEW t \in Threads, NEW l, Goto(t, l), KindsGrow,
           \/ th[t].pc \in Unregistered /\ l \in {"refused", "orphan"}
           \/ th[t].pc \in AfterRegister /\ l \in AfterRegister
    PROVE  HandsMove
<1>1. PICK r : r = [th[t] EXCEPT !.pc = l]  OBVIOUS
<1>2. th[t] \in Locals  BY Local
<1>3. r.pc = l /\ SameHand(r, th[t])  BY <1>1, <1>2 DEF Locals, SameHand
<1>4. th' = [th EXCEPT ![t] = r]  BY <1>1 DEF Goto
<1>5. TakesUp(t, r)  BY <1>3 DEF TakesUp, Unregistered, AfterRegister, SameHand
<1> QED BY <1>4, <1>5, HandsByRecord

LEMMA RegisterHands ==
    ASSUME TypeOK, NEW t \in Threads, Register(t) \/ WireChannel(t) \/ CheckOpen(t) \/ AnnounceOpen(t)
    PROVE  HandsMove
<1>1. KindsGrow  BY KindsKept DEF Register, WireChannel, CheckOpen, AnnounceOpen, rtcVars
<1>2. th[t] \in Locals  BY Local
<1>3. CASE Register(t) /\ AllocHandle(chans) = NoHandle
  <2>1. PICK l \in {"refused", "orphan"} : Goto(t, l)  BY <1>3 DEF Register
  <2> QED BY <1>1, <1>3, <2>1, GotoHands DEF Register, At, Unregistered
<1>4. CASE Register(t) /\ AllocHandle(chans) # NoHandle
  <2>1. Registers(t)  BY <1>4 DEF Registers, AllocHandle
  <2>2. PICK r : r = [th[t] EXCEPT !.pc = "wire", !.chan = AllocHandle(chans), !.ks = WiredAtBirth(ChannelCallbacks)]
    OBVIOUS
  <2>3. r.pc = "wire"  BY <1>2, <2>2 DEF Locals
  <2>4. th' = [th EXCEPT ![t] = r]  BY <1>4, <2>2 DEF Register
  <2>5. TakesUp(t, r)  BY <2>1, <2>3 DEF TakesUp, Unregistered
  <2> QED BY <1>1, <2>4, <2>5, HandsByRecord
<1>5. CASE WireChannel(t) /\ th[t].ks = {}
  BY <1>1, <1>5, GotoHands DEF WireChannel, At, AfterRegister
<1>6. CASE WireChannel(t) /\ th[t].ks # {}
  <2>1. PICK r : r = [th[t] EXCEPT !.ks = @ \ {FirstOf(th[t].ks, ChannelCallbacks)}]
    OBVIOUS
  <2>2. r.pc = th[t].pc /\ SameHand(r, th[t]) /\ th[t].pc = "wire"
    BY <1>2, <1>6, <2>1 DEF Locals, SameHand, WireChannel, At
  <2>3. th' = [th EXCEPT ![t] = r]  BY <1>6, <2>1 DEF WireChannel
  <2>4. TakesUp(t, r)  BY <2>2 DEF TakesUp, Unregistered, AfterRegister
  <2> QED BY <1>1, <2>3, <2>4, HandsByRecord
<1>7. ASSUME Registered(t), th[t].pc \in AfterRegister
      PROVE  HandsMove
  <2>1. CASE t = Script  BY <1>1, <1>7, <2>1, PlainIdle, PlainHands DEF Registered
  <2>2. CASE t # Script  BY <1>1, <1>7, <2>2, GotoHands DEF Registered, AfterRegister
  <2> QED BY <2>1, <2>2
<1>8. CASE CheckOpen(t)
  <2>1. th[t].pc \in AfterRegister  BY <1>8 DEF CheckOpen, At, AfterRegister
  <2> QED BY <1>1, <1>7, <1>8, <2>1, GotoHands DEF CheckOpen, AfterRegister
<1>9. CASE AnnounceOpen(t)  BY <1>7, <1>9 DEF AnnounceOpen, At, AfterRegister
<1> QED BY <1>3, <1>4, <1>5, <1>6, <1>8, <1>9

LEMMA ScriptKinds ==
    ASSUME TypeOK, \/ PeerRefused \/ ChannelRefused \/ WirePeer \/ PeerAlloc
                   \/ ClearCallback \/ DeleteObject \/ RtcCleanup \/ RtcJoin \/ RtcDone
    PROVE  KindsGrow
<1>1. CASE PeerRefused \/ ChannelRefused
  BY <1>1 DEF PeerRefused, ChannelRefused, KindsGrow, TypeOK, LibraryOK, RtcObjects
<1>2. CASE DeleteObject
  BY <1>2 DEF DeleteObject, KindsGrow, TypeOK, LibraryOK, RtcObjects
<1>3. CASE RtcCleanup  BY <1>3, SMTT(30) DEF RtcCleanup, KindsGrow, TypeOK, LibraryOK, RtcObjects
<1>4. CASE WirePeer \/ PeerAlloc \/ ClearCallback \/ RtcJoin \/ RtcDone
  BY <1>4, KindsKept, Zenon DEF WirePeer, PeerAlloc, ClearCallback, RtcJoin, RtcDone, rtcVars
<1> QED BY <1>1, <1>2, <1>3, <1>4

LEMMA NextHands ==
    ASSUME TypeOK, [Next]_vars
    PROVE  HandsMove
<1>1. CASE Library  BY <1>1, LibraryHands
<1>2. ASSUME NEW w \in Workers, CallbackStep(w) PROVE HandsMove
  BY <1>2, CallbackHands, RegisterHands, WorkerThread DEF CallbackStep
<1>3. CASE Call
  <2>1. ASSUME NEW h, PeerClose(h) \/ ChannelClose(h) \/ SetBufferedLow(h) PROVE HandsMove
    <3>1. ASSUME PeerClose(h) PROVE KindsGrow
      BY <3>1 DEF PeerClose, KindsGrow, TypeOK, LibraryOK, RtcObjects
    <3>2. ASSUME ChannelClose(h) PROVE KindsGrow
      BY <3>2 DEF ChannelClose, KindsGrow, TypeOK, LibraryOK, RtcObjects
    <3>3. ASSUME SetBufferedLow(h) PROVE KindsGrow  BY <3>3, KindsKept DEF SetBufferedLow
    <3>4. KindsGrow  BY <2>1, <3>1, <3>2, <3>3
    <3> QED BY <2>1, <3>4, HandsStill DEF PeerClose, ChannelClose, SetBufferedLow
  <2>2. ASSUME NEW h, PeerFreeLock(h) \/ ChannelFree(h) \/ CleanupLock PROVE HandsMove
    <3>1. KindsGrow
      BY <2>2, KindsKept DEF PeerFreeLock, ChannelFree, CleanupLock, rtcVars
    <3> QED BY <2>2, <3>1, CallsPlain, PlainHands
  <2> QED BY <1>3, <2>1, <2>2, NewHands DEF Call
<1>4. CASE PollStart \/ PollRetry
  <2>1. PICK b : Poll(b)  BY <1>4, Zenon DEF PollStart, PollRetry
  <2>2. KindsGrow  BY <2>1, KindsKept DEF Poll, rtcVars
  <2> QED BY <2>1, <2>2, CallsPlain, PlainHands
<1>5. CASE ScriptStep /\ ~PollRetry
  <2>1. CASE PeerAlloc  BY <2>1, PeerAllocPlain, ScriptKinds, PlainHands
  <2>2. CASE PeerRefused \/ ChannelRefused \/ WirePeer
    BY <2>2, PeerWirePlain, ScriptKinds, PlainHands
  <2>3. CASE Register(Script) \/ WireChannel(Script) \/ CheckOpen(Script) \/ AnnounceOpen(Script)
    BY <2>3, ScriptThread, RegisterHands
  <2>4. CASE ClearCallback \/ DeleteObject \/ RtcCleanup \/ RtcJoin \/ RtcDone
    BY <2>4, TeardownPlain, ScriptKinds, PlainHands
  <2>5. CASE PeerFreeSweep \/ PeerFreeDone \/ CleanupChannel \/ CleanupPeer \/ CleanupReset
    <3>1. KindsGrow
      BY <2>5, KindsKept, Zenon DEF PeerFreeSweep, PeerFreeDone, CleanupChannel, CleanupPeer, CleanupReset, rtcVars
    <3> QED BY <2>5, <3>1, SweepPlain, PlainHands, SMTT(30)
  <2>6. CASE DrainLock \/ DrainDeliver \/ DrainEnd
    <3>1. KindsGrow  BY <2>6, KindsKept DEF DrainLock, DrainDeliver, DrainEnd, rtcVars
    <3> QED BY <2>6, <3>1, DrainPlain, PlainHands
  <2>7. CASE DrainDiscard  BY <2>7, HandsStill, KindsKept DEF DrainDiscard, rtcVars
  <2> QED BY <1>5, <2>1, <2>2, <2>3, <2>4, <2>5, <2>6, <2>7 DEF ScriptStep
<1>6. CASE UNCHANGED vars  BY <1>6, HandsStill, KindsKept DEF vars, rtcVars
<1> QED BY <1>1, <1>2, <1>3, <1>4, <1>5, <1>6 DEF Next

\* ---------------------------------------------------------------- generations

LEMMA SomeIds ==
    ASSUME NEW S, S \subseteq RtcIds
    PROVE  IsFiniteSet(S) /\ Cardinality(S) \in Nat /\ Cardinality(S) <= MaxRtcId
<1>1. IsFiniteSet(RtcIds) /\ Cardinality(RtcIds) = MaxRtcId
  BY FS_Interval, ShimAssumption DEF RtcIds
<1> QED BY <1>1, FS_Subset, FS_CardinalityType

LEMMA MoreIds ==
    ASSUME NEW S, NEW T, S \subseteq T, T \subseteq RtcIds
    PROVE  /\ Cardinality(S) <= Cardinality(T)
           /\ \A x \in T : x \notin S => Cardinality(S) + 1 <= Cardinality(T)
<1>1. IsFiniteSet(T) /\ IsFiniteSet(S) /\ Cardinality(S) \in Nat /\ Cardinality(T) \in Nat
  BY SomeIds
<1>2. Cardinality(S) <= Cardinality(T)  BY <1>1, FS_Subset
<1>3. ASSUME NEW x \in T, x \notin S PROVE Cardinality(S) + 1 <= Cardinality(T)
  <2>1. Cardinality(S \cup {x}) = Cardinality(S) + 1  BY <1>1, <1>3, FS_AddElement
  <2>2. Cardinality(S \cup {x}) <= Cardinality(T)  BY <1>1, <1>3, FS_Subset
  <2> QED BY <2>1, <2>2
<1> QED BY <1>2, <1>3

LEMMA SettledGrows ==
    ASSUME TypeOK, HandsMove
    PROVE  Settled \subseteq Settled' /\ Minted \subseteq Minted'
<1>1. ASSUME NEW d \in Settled PROVE d \in Settled'
  <2>1. d \in RtcIds /\ rtc[d].kind = "dc" /\ rtc'[d].kind = "dc"
    BY <1>1 DEF Settled, IsDc, HandsMove, KindsGrow
  <2>2. ASSUME NEW t \in Threads, th'[t].pc \in Unregistered, th'[t].dc = d PROVE FALSE
    BY <2>1, <2>2, <1>1 DEF HandsMove, TakesUp, Settled
  <2> QED BY <2>1, <2>2 DEF Settled, IsDc
<1>2. ASSUME NEW p \in Minted PROVE p \in Minted'
  <2>1. p \in RtcIds /\ rtc[p].kind = "pc" /\ rtc'[p].kind = "pc"
    BY <1>2 DEF Minted, IsPc, HandsMove, KindsGrow
  <2>2. ASSUME th'[Script].pc = "pn_alloc", th'[Script].obj = p PROVE FALSE
    <3>1. TakesUp(Script, th'[Script])  BY ScriptThread DEF HandsMove
    <3> QED BY <2>1, <2>2, <3>1, <1>2 DEF TakesUp, Minted, At
  <2> QED BY <2>1, <2>2 DEF Minted, IsPc, At
<1> QED BY <1>1, <1>2

\* What register_channel gives its thread.
LEMMA RegisterFacts ==
    ASSUME TypeOK, MapsInv, NEW t \in Threads, Registers(t)
    PROVE  /\ th[t].pc = "register" /\ th[t].dc \in RtcIds /\ IsDc(th[t].dc) /\ th[t].peer \in Handles
           /\ th'[t].pc = "wire" /\ th'[t].dc = th[t].dc /\ th'[t].peer = th[t].peer
           /\ th'[t].chan = AllocHandle(chans)
           /\ \A u \in Threads : u # t => th'[u] = th[u]
           /\ \A u \in Threads : th[u].pc \in Unregistered /\ th[u].dc = th[t].dc => u = t
           /\ chans' = Alloc(chans, [rtc |-> th[t].dc, peer |-> th[t].peer, announced |-> FALSE])
           /\ [rtc |-> th[t].dc, peer |-> th[t].peer, announced |-> FALSE] \in ChannelObjects
           /\ [rtc |-> th[t].dc, peer |-> th[t].peer, announced |-> FALSE] # Null
           /\ UNCHANGED rtc
<1> DEFINE c == th[t]
<1>1. c \in Locals /\ c.pc = "register" /\ c.dc \in RtcIds /\ c.peer \in Handles
  BY Local DEF Registers, Register, At, ChannelLabels, RegisterLabels
<1>2. AllocHandle(chans) # NoHandle
  <2>1. AllocHandle(chans) \in Handles  BY TablesTyped, AllocSlot DEF Registers
  <2> QED BY <2>1 DEF Handles, NoHandle
<1>3. PICK r : r = [c EXCEPT !.pc = "wire", !.chan = AllocHandle(chans), !.ks = WiredAtBirth(ChannelCallbacks)]
  OBVIOUS
<1>4. th' = [th EXCEPT ![t] = r]  BY <1>2, <1>3 DEF Registers, Register
<1>5. r.pc = "wire" /\ r.dc = c.dc /\ r.peer = c.peer /\ r.chan = AllocHandle(chans)
  BY <1>1, <1>3 DEF Locals
<1>6. th'[t] = r /\ \A u \in Threads : u # t => th'[u] = th[u]  BY <1>4, ThreadSet
<1>7. IsDc(c.dc) /\ \A u \in Threads : th[u].pc \in Unregistered /\ th[u].dc = c.dc => u = t
  BY <1>1 DEF MapsInv, FreshInHand, Unregistered, IsDc
<1>8. chans' = Alloc(chans, [rtc |-> c.dc, peer |-> c.peer, announced |-> FALSE]) /\ UNCHANGED rtc
  BY <1>2 DEF Registers, Register, rtcVars
<1>9. [rtc |-> c.dc, peer |-> c.peer, announced |-> FALSE] \in ChannelObjects
  BY <1>1 DEF ChannelObjects
<1>10. [rtc |-> c.dc, peer |-> c.peer, announced |-> FALSE] # Null  BY <1>9, NullNone
<1> QED BY <1>1, <1>5, <1>6, <1>7, <1>8, <1>9, <1>10

LEMMA InitGens ==
    ASSUME Init
    PROVE  GensInv
<1>1. Cardinality(Settled) \in Nat /\ Cardinality(Minted) \in Nat
  BY SomeIds DEF Settled, Minted
<1>2. chans = EmptyTable /\ peers = EmptyTable  BY DEF Init
<1>3. ASSUME NEW n \in Nat PROVE GenBound(EmptyTable, n)  BY <1>3 DEF GenBound, EmptyTable
<1> QED BY <1>1, <1>2, <1>3 DEF GensInv

LEMMA NextGens ==
    ASSUME TypeOK, MapsInv, GensInv, [Next]_vars
    PROVE  GensInv'
<1>0. TypeOK'  BY NextTyped
<1>1. /\ TableOK(peers, PeerObjects) /\ TableOK(chans, ChannelObjects)
      /\ TableOK(peers', PeerObjects) /\ TableOK(chans', ChannelObjects)
      /\ FreeListOK(peers) /\ FreeListOK(chans)
  BY <1>0, TablesTyped DEF MapsInv, TypeOK, TablesOK
<1>2. HandsMove  BY NextHands
<1>3. Settled \subseteq Settled' /\ Minted \subseteq Minted'  BY <1>2, SettledGrows
<1>4. Settled \subseteq RtcIds /\ Settled' \subseteq RtcIds /\ Minted \subseteq RtcIds /\ Minted' \subseteq RtcIds
  BY DEF Settled, Minted
<1>5. PICK n : n = Cardinality(Settled)  OBVIOUS
<1>6. PICK m : m = Cardinality(Settled')  OBVIOUS
<1>7. n \in Nat /\ m \in Nat /\ n <= m  BY <1>3, <1>4, <1>5, <1>6, SomeIds, MoreIds
<1>8. GenBound(chans', m)
  <2>1. CASE ChannelsKept
    <3>0. Shrinks(chans, chans', ChannelObjects)  BY <2>1, KeptShrinks
    <3>1. GenBound(chans, n)  BY <1>5 DEF GensInv
    <3>2. GenBound(chans', n)  BY <1>1, <1>7, <3>0, <3>1, TablesTyped, BoundShrinks
    <3> QED BY <1>1, <1>7, <3>2, BoundWeaker
  <2>2. ASSUME NEW t \in Threads, Registers(t) PROVE GenBound(chans', m)
    <3>1. PICK d : d = th[t].dc  OBVIOUS
    <3>2. d \in RtcIds /\ d \notin Settled
      BY <2>2, <3>1, RegisterFacts DEF Settled, Unregistered
    <3>3. d \in Settled'
      <4>1. rtc'[d].kind = "dc"  BY <2>2, <3>1, RegisterFacts DEF IsDc
      <4>2. \A u \in Threads : th'[u].pc \in Unregistered /\ th'[u].dc = d => FALSE
        BY <2>2, <3>1, RegisterFacts DEF Unregistered
      <4> QED BY <3>2, <4>1, <4>2 DEF Settled, IsDc
    <3>4. n + 1 <= m  BY <1>3, <1>4, <1>5, <1>6, <3>2, <3>3, MoreIds
    <3>5. GenBound(chans, n)  BY <1>5 DEF GensInv
    <3>6. PICK o : o # Null /\ chans' = Alloc(chans, o)  BY <2>2, RegisterFacts
    <3>7. CanAlloc(chans)  BY <2>2 DEF Registers
    <3>8. GenBound(chans', n + 1)  BY <1>1, <1>7, <3>5, <3>6, <3>7, BoundAlloc
    <3>9. n + 1 \in Nat  BY <1>7
    <3> QED BY <1>1, <1>7, <3>4, <3>8, <3>9, BoundWeaker
  <2> QED BY <2>1, <2>2, ChannelsStep DEF ChannelsMove
<1>9. PICK j : j = Cardinality(Minted)  OBVIOUS
<1>10. PICK k : k = Cardinality(Minted')  OBVIOUS
<1>11. j \in Nat /\ k \in Nat /\ j <= k  BY <1>3, <1>4, <1>9, <1>10, SomeIds, MoreIds
<1>12. GenBound(peers', k)
  <2>1. CASE Shrinks(peers, peers', PeerObjects)
    <3>1. GenBound(peers, j)  BY <1>9 DEF GensInv
    <3>2. GenBound(peers', j)  BY <1>1, <1>11, <2>1, <3>1, TablesTyped, BoundShrinks
    <3> QED BY <1>1, <1>11, <3>2, BoundWeaker
  <2>2. CASE Mints
    <3>1. PICK p : p = th[Script].obj  OBVIOUS
    <3>2. p \in RtcIds /\ IsPc(p) /\ th[Script].pc = "pn_alloc"
      <4>1. th[Script].pc = "pn_alloc"  BY <2>2 DEF Mints, PeerAlloc, At
      <4>2. th[Script].obj \in RtcIds  BY <4>1, ScriptThread, Local DEF PeerLabels
      <4> QED BY <3>1, <4>1, <4>2 DEF MapsInv, PeerInHand, At, IsPc
    <3>3. p \notin Minted  BY <3>1, <3>2 DEF Minted, At
    <3>4. p \in Minted'
      <4>1. PICK r : th' = [th EXCEPT ![Script] = r] /\ r.pc \in Plain
        BY <2>2, PeerAllocPlain DEF Mints, PlainStep
      <4>2. th'[Script].pc # "pn_alloc"  BY <4>1, ScriptThread, ThreadSet DEF Plain
      <4>3. UNCHANGED rtc  BY <2>2 DEF Mints, PeerAlloc, rtcVars
      <4> QED BY <3>2, <4>2, <4>3 DEF Minted, At, IsPc
    <3>5. j + 1 <= k  BY <1>3, <1>4, <1>9, <1>10, <3>3, <3>4, MoreIds
    <3>6. GenBound(peers, j)  BY <1>9 DEF GensInv
    <3>7. PICK o : o = [rtc |-> p]  OBVIOUS
    <3>8. o # Null
      <4>1. o \in PeerObjects  BY <3>2, <3>7 DEF PeerObjects
      <4> QED BY <4>1, NullNone
    <3>9. AllocHandle(peers) # NoHandle
      <4>1. AllocHandle(peers) \in Handles  BY <2>2, TablesTyped, AllocSlot DEF Mints
      <4> QED BY <4>1 DEF Handles, NoHandle
    <3>10. peers' = Alloc(peers, o) /\ CanAlloc(peers)
      BY <2>2, <3>1, <3>7, <3>9 DEF Mints, PeerAlloc
    <3>11. GenBound(peers', j + 1) /\ j + 1 \in Nat
      BY <1>1, <1>11, <3>6, <3>8, <3>10, BoundAlloc
    <3> QED BY <1>1, <1>11, <3>5, <3>11, BoundWeaker
  <2> QED BY <2>1, <2>2, PeersStep DEF PeersMove, Shrinks
<1> QED BY <1>6, <1>8, <1>10, <1>12 DEF GensInv

\* ------------------------------------------------------ handles across a step

\* No generation wraps while libdatachannel has made fewer objects than a slot
\* has generations.
LEMMA TablesUnwrapped ==
    ASSUME TypeOK, GensInv, MaxRtcId < GEN_MAX
    PROVE  Unwrapped(chans) /\ Unwrapped(peers)
<1>1. Settled \subseteq RtcIds /\ Minted \subseteq RtcIds  BY DEF Settled, Minted
<1>2. PICK n : n = Cardinality(Settled)  OBVIOUS
<1>3. PICK m : m = Cardinality(Minted)  OBVIOUS
<1>4. n \in Nat /\ m \in Nat /\ n < GEN_MAX /\ m < GEN_MAX
  <2>1. n \in Nat /\ m \in Nat /\ n <= MaxRtcId /\ m <= MaxRtcId
    BY <1>1, <1>2, <1>3, SomeIds
  <2> QED BY <2>1, ShimAssumption, HandleTableAssumption
<1>5. GenBound(chans, n) /\ GenBound(peers, m)  BY <1>2, <1>3 DEF GensInv
<1> QED BY <1>4, <1>5, TablesTyped, BoundUnwrapped

LEMMA TablesEvolve ==
    ASSUME TypeOK, MapsInv, [Next]_vars
    PROVE  Evolves(chans, chans', ChannelObjects) /\ Evolves(peers, peers', PeerObjects)
<1>1. Evolves(chans, chans', ChannelObjects)
  <2>1. CASE ChannelsKept  BY <2>1, KeptShrinks DEF Evolves
  <2>2. ASSUME NEW t \in Threads, Registers(t) PROVE Evolves(chans, chans', ChannelObjects)
    <3>1. PICK o : o \in ChannelObjects /\ chans' = Alloc(chans, o)
      BY <2>2, RegisterFacts
    <3>2. CanAlloc(chans)  BY <2>2 DEF Registers
    <3> QED BY <3>1, <3>2 DEF Evolves
  <2> QED BY <2>1, <2>2, ChannelsStep DEF ChannelsMove
<1>2. Evolves(peers, peers', PeerObjects)
  <2>1. CASE Shrinks(peers, peers', PeerObjects)  BY <2>1 DEF Evolves
  <2>2. CASE Mints
    <3>1. th[Script].obj \in RtcIds
      BY <2>2, ScriptThread, Local DEF Mints, PeerAlloc, At, PeerLabels
    <3>2. PICK o : o = [rtc |-> th[Script].obj]  OBVIOUS
    <3>3. o \in PeerObjects  BY <3>1, <3>2 DEF PeerObjects
    <3>4. AllocHandle(peers) # NoHandle
      <4>1. AllocHandle(peers) \in Handles  BY <2>2, TablesTyped, AllocSlot DEF Mints
      <4> QED BY <4>1 DEF Handles, NoHandle
    <3>5. peers' = Alloc(peers, o) /\ CanAlloc(peers)
      BY <2>2, <3>2, <3>4 DEF Mints, PeerAlloc
    <3> QED BY <3>3, <3>5 DEF Evolves
  <2> QED BY <2>1, <2>2, PeersStep DEF PeersMove, Shrinks
<1> QED BY <1>1, <1>2

\* A handle freed once names nothing, ever after.
LEMMA DeadForever ==
    ASSUME TypeOK, MapsInv, GensInv, MaxRtcId < GEN_MAX, [Next]_vars, NEW h
    PROVE  (Dead(chans, h) => Dead(chans', h)) /\ (Dead(peers, h) => Dead(peers', h))
  BY TablesTyped, TablesUnwrapped, TablesEvolve, DeadStays

LEMMA DeadGone ==
    ASSUME TypeOK, NEW h
    PROVE  (Dead(chans, h) => Get(chans, h) = Null) /\ (Dead(peers, h) => Get(peers, h) = Null)
  BY TablesTyped, DeadNull

\* A live channel stays what it is, or its handle is dead.
LEMMA EntryStays ==
    ASSUME TypeOK, MapsInv, GensInv, MaxRtcId < GEN_MAX, [Next]_vars,
           NEW h, NEW d, NEW p, Names(h, d, p)
    PROVE  /\ Names(h, d, p)' \/ Dead(chans', h)
           /\ Get(chans, h).announced => Dead(chans', h) \/ Get(chans', h).announced
<1>1. TableOK(chans, ChannelObjects) /\ Get(chans, h) # Null /\ IsLive(chans, h) /\ h \in Handles
  BY TablesTyped, ChannelEntry DEF Names, Get
<1>2. CASE UNCHANGED chans  BY <1>2 DEF Names
<1>3. ASSUME NEW g, chans' = Free(chans, g)
      PROVE  (Get(chans', h) = Get(chans, h) /\ h # g) \/ Dead(chans', h)
  <2>1. CASE g = h  BY <1>1, <1>3, <2>1, TablesUnwrapped, FreedDead
  <2>2. CASE g # h  BY <1>1, <1>3, <2>2, GetFree
  <2> QED BY <2>1, <2>2
<1>4. ASSUME NEW g, Marks(g)
      PROVE  /\ Get(chans', h) # Null /\ Get(chans', h).rtc = Get(chans, h).rtc
             /\ Get(chans', h).peer = Get(chans, h).peer
             /\ Get(chans, h).announced => Get(chans', h).announced
  <2>1. Get(chans, g) # Null  BY <1>1, <1>4 DEF Marks, Get, IsLive
  <2>2. Get(chans, g) \in ChannelObjects  BY <2>1, ChannelEntry
  <2>3. PICK o : o = [Get(chans, g) EXCEPT !.announced = TRUE]  OBVIOUS
  <2>4. o \in ChannelObjects /\ o.rtc = Get(chans, g).rtc /\ o.peer = Get(chans, g).peer /\ o.announced
    BY <2>2, <2>3 DEF ChannelObjects
  <2>5. chans' = Put(chans, g, o)  BY <1>4, <2>3 DEF Marks
  <2>6. o # Null  BY <2>4, NullNone
  <2>7. \A f : Get(chans', f) = IF f = g THEN o ELSE Get(chans, f)
    <3>1. IsLive(chans, g)  BY <1>4 DEF Marks
    <3> QED BY <1>1, <2>5, <2>6, <3>1, GetPut
  <2> QED BY <1>1, <2>4, <2>6, <2>7
<1>5. ASSUME NEW t \in Threads, Registers(t)
      PROVE  Get(chans', h) = Get(chans, h)
  <2>1. PICK o : o \in ChannelObjects /\ chans' = Alloc(chans, o)  BY <1>5, RegisterFacts
  <2>2. CanAlloc(chans) /\ FreeListOK(chans)  BY <1>5 DEF Registers, MapsInv
  <2>3. \A f : Get(chans', f) = IF f = AllocHandle(chans) THEN o ELSE Get(chans, f)
    BY <1>1, <2>1, <2>2, NullNone, GetAlloc
  <2>4. Get(chans, AllocHandle(chans)) = Null  BY <1>1, <2>2, GetAlloc
  <2> QED BY <1>1, <2>3, <2>4
<1> QED BY <1>1, <1>2, <1>3, <1>4, <1>5, ChannelsStep DEF ChannelsMove, ChannelsKept, Names

LEMMA InitHand ==
    ASSUME Init
    PROVE  HandInv
  BY IdleHand DEF Init, HandInv, AfterRegister

LEMMA NextHand ==
    ASSUME TypeOK, MapsInv, GensInv, MaxRtcId < GEN_MAX, HandInv, [Next]_vars
    PROVE  HandInv'
<1> SUFFICES ASSUME NEW t \in Threads, NEW r, r = th'[t], r.pc \in AfterRegister
             PROVE  HoldsItsOwn(r)'
  BY DEF HandInv
<1>1. KindsGrow /\ TakesUp(t, r)  BY NextHands DEF HandsMove
<1>2. CASE th[t].pc \in AfterRegister /\ SameHand(r, th[t])
  <2>1. PICK h : h = r.chan  OBVIOUS
  <2>2. PICK d : d = r.dc  OBVIOUS
  <2>3. PICK p : p = r.peer  OBVIOUS
  <2>4. th[t].chan = h /\ th[t].dc = d /\ th[t].peer = p
    BY <1>2, <2>1, <2>2, <2>3 DEF SameHand
  <2>5. d \in RtcIds /\ rtc[d].kind = "dc" /\ (Names(h, d, p) \/ Dead(chans, h))
    BY <1>2, <2>4 DEF HandInv, HoldsItsOwn, IsDc
  <2>6. rtc'[d].kind = "dc"  BY <1>1, <2>5 DEF KindsGrow
  <2>7. Names(h, d, p)' \/ Dead(chans', h)  BY <2>5, EntryStays, DeadForever
  <2> QED BY <2>1, <2>2, <2>3, <2>5, <2>6, <2>7 DEF HoldsItsOwn, IsDc
<1>3. CASE Registers(t)
  <2>1. PICK h : h = AllocHandle(chans)  OBVIOUS
  <2>2. PICK d : d = th[t].dc  OBVIOUS
  <2>3. PICK p : p = th[t].peer  OBVIOUS
  <2>4. PICK o : o = [rtc |-> d, peer |-> p, announced |-> FALSE]  OBVIOUS
  <2>5. /\ r.chan = h /\ r.dc = d /\ r.peer = p /\ chans' = Alloc(chans, o) /\ o # Null
        /\ d \in RtcIds /\ rtc'[d].kind = "dc"
    BY <1>3, <2>1, <2>2, <2>3, <2>4, RegisterFacts DEF IsDc
  <2>6. Get(chans', h) = o
    BY <1>3, <2>1, <2>5, TablesTyped, GetAlloc DEF Registers, MapsInv
  <2>7. Names(h, d, p)'  BY <2>4, <2>5, <2>6 DEF Names
  <2> QED BY <2>5, <2>7 DEF HoldsItsOwn, IsDc
<1> QED BY <1>1, <1>2, <1>3 DEF TakesUp

LEMMA GoneStep ==
    ASSUME TypeOK, MapsInv, [Next]_vars
    PROVE  FreesOne
<1>1. ASSUME UNCHANGED gone PROVE FreesOne  BY <1>1, SMTT(30) DEF FreesOne
<1>5. CASE Library
  BY <1>1, <1>5, Zenon DEF Library, RtcChannelOpens, RtcChannelCloses, Fire, FireDataChannel, appVars
<1>6. ASSUME NEW t, \/ PeerCallback(t) \/ ChannelCallback(t) \/ OpenCallback(t) \/ Lookup(t) \/ Orphan(t)
                    \/ Revalidate(t) \/ Register(t) \/ WireChannel(t) \/ CheckOpen(t) \/ AnnounceOpen(t)
      PROVE FreesOne
  BY <1>1, <1>6, SMTT(30) DEF PeerCallback, ChannelCallback, OpenCallback, Lookup, Orphan, Revalidate, Register,
     WireChannel, CheckOpen, AnnounceOpen, appVars
<1>7. CASE Call
  <2>1. ASSUME NEW h, ChannelFree(h) PROVE FreesOne  BY <2>1 DEF ChannelFree, FreesOne
  <2> QED
    BY <1>1, <1>7, <2>1, Zenon DEF Call, PeerNew, PeerClose, PeerFreeLock, ChannelNew, ChannelClose,
       SetBufferedLow, CleanupLock, appVars
<1>8. CASE PollStart \/ PollRetry  BY <1>1, <1>8 DEF PollStart, PollRetry, Poll, appVars
<1>9. CASE ScriptStep /\ ~PollRetry
  <2>1. CASE PeerAlloc \/ PeerRefused \/ WirePeer \/ ChannelRefused
    BY <1>1, <2>1, SMTT(30) DEF PeerAlloc, PeerRefused, WirePeer, ChannelRefused, appVars
  <2>2. CASE ClearCallback \/ DeleteObject \/ RtcCleanup \/ RtcJoin \/ RtcDone
    BY <1>1, <2>2 DEF ClearCallback, DeleteObject, RtcCleanup, RtcJoin, RtcDone, appVars
  <2>3. CASE PeerFreeSweep
    <3>1. PICK h : h = FirstHandle(ChannelsOf(th[Script].peer))  OBVIOUS
    <3>2. Get(chans, h) # Null  BY <2>3, <3>1, SweptChannel DEF PeerFreeSweep, ChannelsOf
    <3> QED BY <2>3, <3>1, <3>2 DEF PeerFreeSweep, FreesOne
  <2>4. CASE CleanupChannel
    <3>1. PICK h : h = FirstHandle(LiveHandles(chans))  OBVIOUS
    <3>2. Get(chans, h) # Null  BY <2>4, <3>1, SweptChannel DEF CleanupChannel
    <3> QED BY <2>4, <3>1, <3>2 DEF CleanupChannel, FreesOne
  <2>5. CASE PeerFreeDone
    <3>1. Get(peers, th[Script].peer) # Null
      BY <2>5 DEF MapsInv, PeerInHand, PeerFreeDone
    <3> QED BY <2>5, <3>1 DEF PeerFreeDone, FreesOne
  <2>6. CASE CleanupPeer
    <3>1. PICK h : h = FirstHandle(LiveHandles(peers))  OBVIOUS
    <3>2. Get(peers, h) # Null
      <4>1. LiveHandles(peers) \subseteq Handles /\ LiveHandles(peers) # {}
        BY <2>6, LivePeers, SMTT(30) DEF CleanupPeer
      <4> QED BY <3>1, <4>1, FirstHandleMember, LivePeers
    <3> QED BY <2>6, <3>1, <3>2 DEF CleanupPeer, FreesOne
  <2>7. CASE CleanupReset \/ DrainLock \/ DrainDiscard \/ DrainDeliver \/ DrainEnd
    BY <1>1, <2>7 DEF CleanupReset, DrainLock, DrainDiscard, DrainDeliver, DrainEnd, appVars
  <2> QED BY <1>6, <1>9, <2>1, <2>2, <2>3, <2>4, <2>5, <2>6, <2>7 DEF ScriptStep
<1>10. CASE UNCHANGED vars  BY <1>1, <1>10 DEF vars, appVars
<1> QED BY <1>5, <1>6, <1>7, <1>8, <1>9, <1>10 DEF Next, CallbackStep

LEMMA NextGone ==
    ASSUME TypeOK, MapsInv, GensInv, MaxRtcId < GEN_MAX, GoneInv, [Next]_vars
    PROVE  GoneInv'
<1> SUFFICES ASSUME NEW h
             PROVE  /\ <<"peer", h>> \in gone' => Dead(peers', h)
                    /\ <<"chan", h>> \in gone' => Dead(chans', h)
  BY Zenon DEF GoneInv
<1>1. /\ <<"peer", h>> \in gone => Dead(peers', h)
      /\ <<"chan", h>> \in gone => Dead(chans', h)
  BY DeadForever DEF GoneInv
<1>2. ASSUME Get(chans, h) # Null, chans' = Free(chans, h) PROVE Dead(chans', h)
  BY <1>2, TablesTyped, TablesUnwrapped, GetFacts, FreedDead
<1>3. ASSUME Get(peers, h) # Null, peers' = Free(peers, h) PROVE Dead(peers', h)
  BY <1>3, TablesTyped, TablesUnwrapped, GetFacts, FreedDead
<1> QED BY <1>1, <1>2, <1>3, GoneStep DEF FreesOne

\* ------------------------------------------------------- what the app is told

LEMMA WiredStep ==
    ASSUME TypeOK, HandInv, [Next]_vars
    PROVE  WiresOpen
<1>1. ASSUME UNCHANGED wired PROVE WiresOpen  BY <1>1 DEF WiresOpen
<1>2. ASSUME NEW t \in Threads, WireChannel(t) PROVE WiresOpen
  <2>1. IsDc(th[t].dc)  BY <1>2, SMTT(30) DEF WireChannel, At, AfterRegister, HandInv, HoldsItsOwn
  <2> QED BY <1>2, <2>1 DEF WireChannel, WiresOpen, TypeOK, LibraryOK
<1>5. CASE Library
  BY <1>1, <1>5, Zenon DEF Library, RtcChannelOpens, RtcChannelCloses, Fire, FireDataChannel
<1>6. ASSUME NEW t, \/ PeerCallback(t) \/ ChannelCallback(t) \/ OpenCallback(t) \/ Lookup(t) \/ Orphan(t)
                    \/ Revalidate(t) \/ Register(t) \/ CheckOpen(t) \/ AnnounceOpen(t)
      PROVE WiresOpen
  BY <1>1, <1>6 DEF PeerCallback, ChannelCallback, OpenCallback, Lookup, Orphan, Revalidate, Register,
     CheckOpen, AnnounceOpen, rtcVars
<1>7. CASE Call
  <2>1. ASSUME NEW h, SetBufferedLow(h) PROVE WiresOpen
    BY <2>1 DEF SetBufferedLow, WiresOpen, TypeOK, LibraryOK
  <2> QED
    BY <1>1, <1>7, <2>1, Zenon DEF Call, PeerNew, PeerClose, PeerFreeLock, ChannelNew, ChannelClose,
       ChannelFree, CleanupLock, rtcVars
<1>8. CASE PollStart \/ PollRetry  BY <1>1, <1>8 DEF PollStart, PollRetry, Poll, rtcVars
<1>9. CASE ScriptStep /\ ~PollRetry
  <2>1. CASE PeerAlloc \/ PeerRefused \/ ChannelRefused
    BY <1>1, <2>1 DEF PeerAlloc, PeerRefused, ChannelRefused, rtcVars
  <2>2. CASE WirePeer
    <3>1. CASE th[Script].ks = {}  BY <1>1, <2>2, <3>1 DEF WirePeer
    <3>2. CASE th[Script].ks # {}
      <4>1. th[Script].ks \subseteq Elems(PeerCallbacks)
        BY <2>2, ScriptThread, Local DEF WirePeer, At
      <4>2. FirstOf(th[Script].ks, PeerCallbacks) # "E_CHANNEL_OPEN"
        <5>1. "E_CHANNEL_OPEN" \notin Elems(PeerCallbacks)  BY DEF Elems, PeerCallbacks
        <5> QED BY <3>2, <4>1, <5>1, FirstOfMember DEF PeerCallbacks
      <4> QED BY <2>2, <3>2, <4>2 DEF WirePeer, WiresOpen, TypeOK, LibraryOK
    <3> QED BY <3>1, <3>2
  <2>3. CASE ClearCallback  BY <2>3 DEF ClearCallback, WiresOpen, TypeOK, LibraryOK
  <2>4. CASE DeleteObject  BY <2>4 DEF DeleteObject, WiresOpen, TypeOK, LibraryOK
  <2>5. CASE RtcCleanup  BY <2>5 DEF RtcCleanup, WiresOpen
  <2>6. CASE RtcJoin \/ RtcDone  BY <1>1, <2>6, SMTT(30) DEF RtcJoin, RtcDone, rtcVars
  <2>7. CASE PeerFreeSweep \/ PeerFreeDone \/ CleanupChannel \/ CleanupPeer \/ CleanupReset
    BY <1>1, <2>7, Zenon DEF PeerFreeSweep, PeerFreeDone, CleanupChannel, CleanupPeer, CleanupReset, rtcVars
  <2>8. CASE DrainLock \/ DrainDiscard \/ DrainDeliver \/ DrainEnd
    BY <1>1, <2>8 DEF DrainLock, DrainDiscard, DrainDeliver, DrainEnd, rtcVars
  <2> QED
    BY <1>2, <1>6, <1>9, ScriptThread, <2>1, <2>2, <2>3, <2>4, <2>5, <2>6, <2>7, <2>8 DEF ScriptStep
<1>10. CASE UNCHANGED vars  BY <1>1, <1>10 DEF vars, rtcVars
<1> QED BY <1>2, <1>5, <1>6, <1>7, <1>8, <1>9, <1>10, WorkerThread DEF Next, CallbackStep

LEMMA InitWired ==
    ASSUME Init
    PROVE  WiredInv
  BY IdleHand DEF Init, WiredInv, OpensChannel

LEMMA NextWired ==
    ASSUME TypeOK, HandInv, WiredInv, [Next]_vars
    PROVE  WiredInv'
<1>1. KindsGrow /\ \A t \in Threads : TakesUp(t, th'[t])  BY NextHands DEF HandsMove
<1>2. \A i \in RtcIds : IsDc(i) => IsDc(i)'  BY <1>1 DEF KindsGrow, IsDc
<1>3. \A i \in RtcIds : "E_CHANNEL_OPEN" \in wired[i] => IsDc(i)'  BY <1>2 DEF WiredInv
<1>4. \A i \in RtcIds : "E_CHANNEL_OPEN" \in wired'[i] => IsDc(i)'
  BY <1>2, <1>3, WiredStep DEF WiresOpen
<1>5. ASSUME NEW t \in Threads, NEW r, r = th'[t] PROVE OpensChannel(r)'
  <2>1. TakesUp(t, r)  BY <1>1, <1>5
  <2>2. OpensChannel(th[t])  BY DEF WiredInv
  <2> QED BY <1>2, <1>3, <2>1, <2>2 DEF TakesUp, OpensChannel
<1> QED BY <1>4, <1>5 DEF WiredInv

LEMMA Unlocked ==
    ASSUME TypeOK, LockDiscipline, MapsInv, mu = Nobody
    PROVE  Pointed(rtcPeer, peers) /\ Pointed(rtcChan, chans)
<1>1. th[Script].pc # "cl_sweep"  BY ShimAssumption DEF LockDiscipline, LoopLabels
<1> QED BY <1>1 DEF MapsInv, MapsPointed, At

LEMMA PeerCallbackSays ==
    ASSUME TypeOK, LockDiscipline, MapsInv, WiredInv, NEW w \in Workers, PeerCallback(w)
    PROVE  StoryMoves
<1>1. PICK h : h = rtcPeer[th[w].obj]  OBVIOUS
<1>2. PICK e : e = Event(th[w].kind, h, NoHandle, th[w].n)  OBVIOUS
<1>3. w \in Threads /\ th[w].pc = "body" /\ mu = Nobody /\ IsPc(th[w].obj)
  BY WorkerThread DEF PeerCallback, At
<1>4. th[w].kind \in CallbackNames /\ th[w].obj \in RtcIds /\ th[w].n \in Nat
  BY <1>3, Local DEF PeerCallback, At
<1>5. CASE h = NoHandle  BY <1>1, <1>5 DEF PeerCallback, StoryMoves, queueVars, appVars
<1>6. CASE h # NoHandle
  <2>1. Get(peers, h) # Null  BY <1>1, <1>3, <1>4, <1>6, Unlocked DEF Pointed
  <2>2. h \in Handles  BY <2>1, PeerEntry
  <2>3. e \in Events  BY <1>2, <1>4, <2>2 DEF Event, Events, AnyHandle
  <2>4. th[w].kind # "E_CHANNEL_OPEN"
    <3>1. OpensChannel(th[w])  BY <1>3 DEF WiredInv
    <3> QED BY <1>3, <3>1 DEF OpensChannel, IsPc, IsDc
  <2>5. th[w].kind # "E_CHANNEL_INCOMING"
    BY <1>4 DEF CallbackNames, Elems, PeerCallbacks, ChannelCallbacks
  <2>6. FromPeer(e)  BY <1>2, <2>1, <2>4, <2>5 DEF FromPeer, Event, PeerCallback, appVars
  <2>7. Enqueue(e) /\ UNCHANGED log  BY <1>1, <1>2, <1>6 DEF PeerCallback, appVars
  <2> QED BY <2>3, <2>6, <2>7 DEF StoryMoves, Says
<1> QED BY <1>5, <1>6

LEMMA ChannelCallbackSays ==
    ASSUME TypeOK, LockDiscipline, MapsInv, NEW w \in Workers, ChannelCallback(w)
    PROVE  StoryMoves
<1> DEFINE c == th[w]
<1>1. PICK h : h = rtcChan[c.obj]  OBVIOUS
<1>2. PICK p : p = IF Get(chans, h) = Null THEN NoHandle ELSE Get(chans, h).peer  OBVIOUS
<1>3. w \in Threads /\ c.pc = "body" /\ mu = Nobody /\ c.kind # "E_CHANNEL_OPEN"
  BY WorkerThread DEF ChannelCallback, At
<1>4. c.kind \in CallbackNames /\ c.obj \in RtcIds /\ c.n \in Nat
  BY <1>3, Local DEF ChannelCallback, At
<1>5. CASE h = NoHandle  BY <1>1, <1>5 DEF ChannelCallback, StoryMoves, queueVars, appVars
<1>6. CASE h # NoHandle
  <2>1. Get(chans, h) # Null  BY <1>1, <1>3, <1>4, <1>6, Unlocked DEF Pointed
  <2>2. h \in Handles /\ p \in Handles /\ p = Get(chans, h).peer
    BY <1>2, <2>1, ChannelEntry
  <2>3. PICK e : e \in {Event("E_CHANNEL_ERROR", p, h, 0), Event(c.kind, p, h, c.n)} /\ Enqueue(e)
    BY <1>1, <1>2, <1>6 DEF ChannelCallback
  <2>4. e \in Events
    BY <1>4, <2>2, <2>3 DEF Event, Events, AnyHandle, CallbackNames, Elems, ChannelCallbacks
  <2>5. c.kind # "E_CHANNEL_INCOMING"
    BY <1>4 DEF CallbackNames, Elems, PeerCallbacks, ChannelCallbacks
  <2>6. FromChannel(e)
    BY <1>3, <2>1, <2>2, <2>3, <2>5 DEF FromChannel, Event, ChannelCallback, appVars, shimVars
  <2>7. UNCHANGED log  BY DEF ChannelCallback, appVars
  <2> QED BY <2>3, <2>4, <2>6, <2>7 DEF StoryMoves, Says
<1> QED BY <1>5, <1>6

LEMMA OpenSays ==
    ASSUME TypeOK, NEW h, NEW p, Announce(h, Get(chans, h), p), UNCHANGED log,
           Get(chans, h) # Null => p = Get(chans, h).peer
    PROVE  StoryMoves
<1>1. CASE UNCHANGED <<chans, queueVars>>  BY <1>1 DEF StoryMoves, queueVars
<1>2. CASE Marks(h) /\ Enqueue(Event("E_CHANNEL_OPEN", p, h, 0))
  <2>1. Get(chans, h) # Null  BY <1>2, TablesTyped, GetFacts DEF Marks
  <2>2. h \in Handles /\ p \in Handles /\ p = Get(chans, h).peer  BY <2>1, ChannelEntry
  <2>3. PICK e : e = Event("E_CHANNEL_OPEN", p, h, 0)  OBVIOUS
  <2>4. e \in Events
    BY <2>2, <2>3 DEF Event, Events, AnyHandle, CallbackNames, Elems, ChannelCallbacks
  <2>5. FromOpen(e)  BY <1>2, <2>2, <2>3 DEF FromOpen, Event
  <2> QED BY <1>2, <2>3, <2>4, <2>5 DEF StoryMoves, Says
<1> QED BY <1>1, <1>2, AnnounceMarks

LEMMA AnnounceOpenSays ==
    ASSUME TypeOK, HandInv, NEW t \in Threads, AnnounceOpen(t)
    PROVE  StoryMoves
<1>1. PICK h : h = th[t].chan  OBVIOUS
<1>2. PICK p : p = th[t].peer  OBVIOUS
<1>3. Announce(h, Get(chans, h), p) /\ UNCHANGED log  BY <1>1, <1>2 DEF AnnounceOpen
<1>4. HoldsItsOwn(th[t])  BY DEF AnnounceOpen, At, AfterRegister, HandInv
<1>5. Get(chans, h) # Null => p = Get(chans, h).peer
  BY <1>1, <1>2, <1>4, DeadGone DEF HoldsItsOwn, Names
<1> QED BY <1>3, <1>5, OpenSays

LEMMA RegisterSays ==
    ASSUME TypeOK, MapsInv, NEW t \in Threads, Register(t)
    PROVE  StoryMoves
<1>1. CASE ~CanAlloc(chans)
  BY <1>1 DEF Register, AllocHandle, StoryMoves, queueVars, appVars
<1>2. CASE CanAlloc(chans) /\ ~AnnouncesIncoming(t)
  BY <1>2 DEF Register, StoryMoves, queueVars, appVars
<1>3. CASE CanAlloc(chans) /\ AnnouncesIncoming(t)
  <2>1. Registers(t)  BY <1>3 DEF Registers
  <2>2. PICK h : h = AllocHandle(chans)  OBVIOUS
  <2>3. h \in Handles  BY <1>3, <2>2, TablesTyped, AllocSlot
  <2>4. h # NoHandle  BY <2>3 DEF Handles, NoHandle
  <2>5. th[t].peer \in Handles /\ th[t].n \in Nat
    BY <2>1, RegisterFacts, Local DEF Locals
  <2>6. PICK e : e = Event("E_CHANNEL_INCOMING", th[t].peer, h, th[t].n)  OBVIOUS
  <2>7. Enqueue(e) /\ UNCHANGED <<log, known>>
    BY <1>3, <2>2, <2>4, <2>6 DEF Register, appVars
  <2>8. e \in Events  BY <2>3, <2>5, <2>6 DEF Event, Events, AnyHandle
  <2>9. FromRegister(e)  BY <2>1, <2>2, <2>6, <2>7 DEF FromRegister, Event
  <2> QED BY <2>7, <2>8, <2>9 DEF StoryMoves, Says
<1> QED BY <1>1, <1>2, <1>3

LEMMA StoryStep ==
    ASSUME TypeOK, LockDiscipline, MapsInv, HandInv, WiredInv, [Next]_vars
    PROVE  StoryMoves
<1>1. ASSUME UNCHANGED <<queue, log, shed>> PROVE StoryMoves  BY <1>1, SMTT(30) DEF StoryMoves
<1>5. CASE Library
  BY <1>1, <1>5, ZenonT(30) DEF Library, RtcChannelOpens, RtcChannelCloses, Fire, FireDataChannel, appVars, queueVars
<1>6. ASSUME NEW w \in Workers, CallbackStep(w) PROVE StoryMoves
  <2>1. CASE OpenCallback(w)
    <3>1. PICK h : h = rtcChan[th[w].obj]  OBVIOUS
    <3>2. PICK p : p = IF Get(chans, h) = Null THEN NoHandle ELSE Get(chans, h).peer
      OBVIOUS
    <3>3. Announce(h, Get(chans, h), p) /\ UNCHANGED log
      BY <2>1, <3>1, <3>2 DEF OpenCallback, appVars
    <3> QED BY <3>2, <3>3, OpenSays
  <2>2. CASE Lookup(w) \/ Orphan(w) \/ Revalidate(w) \/ WireChannel(w) \/ CheckOpen(w)
    BY <1>1, <2>2 DEF Lookup, Orphan, Revalidate, WireChannel, CheckOpen, queueVars, appVars
  <2> QED
    BY <1>6, <2>1, <2>2, WorkerThread, PeerCallbackSays, ChannelCallbackSays, AnnounceOpenSays, RegisterSays
       DEF CallbackStep
<1>7. CASE Call
  BY <1>1, <1>7, Zenon DEF Call, PeerNew, PeerClose, PeerFreeLock, ChannelNew, ChannelClose,
     SetBufferedLow, ChannelFree, CleanupLock, queueVars, appVars
<1>8. CASE PollStart \/ PollRetry
  BY <1>1, <1>8 DEF PollStart, PollRetry, Poll, queueVars, appVars
<1>9. CASE ScriptStep /\ ~PollRetry
  <2>1. CASE PeerAlloc \/ PeerRefused \/ WirePeer \/ ChannelRefused \/ WireChannel(Script) \/ CheckOpen(Script)
    BY <1>1, <2>1, SMTT(30) DEF PeerAlloc, PeerRefused, WirePeer, ChannelRefused, WireChannel, CheckOpen, queueVars, appVars
  <2>2. CASE ClearCallback \/ DeleteObject \/ RtcCleanup \/ RtcJoin \/ RtcDone
    BY <1>1, <2>2 DEF ClearCallback, DeleteObject, RtcCleanup, RtcJoin, RtcDone, queueVars, appVars
  <2>3. CASE PeerFreeSweep \/ PeerFreeDone \/ CleanupChannel \/ CleanupPeer
    BY <1>1, <2>3 DEF PeerFreeSweep, PeerFreeDone, CleanupChannel, CleanupPeer, queueVars
  <2>4. CASE CleanupReset \/ DrainDiscard \/ DrainDeliver  BY <2>4 DEF StoryMoves
  <2>5. CASE DrainLock  BY <1>1, <2>5 DEF DrainLock, queueVars, appVars
  <2>6. CASE DrainEnd
    <3>1. CASE Reports
      BY <2>6, <3>1 DEF DrainEnd, Reports, OwesReport, Reported, StoryMoves
    <3>2. CASE ~Reports  BY <1>1, <2>6, <3>2 DEF DrainEnd
    <3> QED BY <3>1, <3>2
  <2> QED
    BY <1>9, <2>1, <2>2, <2>3, <2>4, <2>5, <2>6, ScriptThread, AnnounceOpenSays, RegisterSays DEF ScriptStep
<1>10. CASE UNCHANGED vars  BY <1>1, <1>10 DEF vars, queueVars, appVars
<1> QED BY <1>5, <1>6, <1>7, <1>8, <1>9, <1>10 DEF Next

\* ------------------------------------------------------- nothing after a free

LEMMA DeliversLive ==
    ASSUME TypeOK, LockDiscipline, MapsInv, GoneInv, HandInv, WiredInv, [Next]_vars,
           NEW i \in DOMAIN log' \ DOMAIN log
    PROVE  <<"peer", log'[i].peer>> \notin gone /\ <<"chan", log'[i].chan>> \notin gone
<1>0. log \in Seq(Events) /\ queue \in Seq(Events)  BY DEF TypeOK, AppOK, QueueOK
<1>1. \A h : /\ <<"peer", h>> \in gone => h \in Handles /\ Get(peers, h) = Null
             /\ <<"chan", h>> \in gone => h \in Handles /\ Get(chans, h) = Null
  BY DeadGone, Zenon DEF GoneInv, Dead
<1>2. NoHandle \notin Handles  BY DEF NoHandle, Handles
<1>3. CASE DrainDeliver
  <2>1. PICK e : e = Head(queue)  OBVIOUS
  <2>2. log' = Append(log, e) /\ Deliverable(e)  BY <1>3, <2>1 DEF DrainDeliver
  <2>3. log'[i] = e  BY <1>0, <2>2
  <2> QED BY <1>1, <1>2, <2>2, <2>3 DEF Deliverable
<1>4. CASE Reported
  <2>1. PICK e : e = OverflowReport  OBVIOUS
  <2>2. log' = Append(log, e) /\ e.peer = NoHandle /\ e.chan = NoHandle
    BY <1>4, <2>1 DEF Reported, OverflowReport, EventReport, Event
  <2>3. log'[i] = e  BY <1>0, <2>2
  <2> QED BY <1>1, <1>2, <2>2, <2>3
<1>5. UNCHANGED log => FALSE  OBVIOUS
<1> QED BY <1>3, <1>4, <1>5, StoryStep DEF StoryMoves, Says, DrainDiscard, CleanupReset, appVars

\* ------------------------------------------------------- one open per channel

LEMMA ThinSame ==
    ASSUME NEW s
    PROVE  Thins(s, s)
<1> DEFINE f == [i \in DOMAIN s |-> i]
<1>1. f \in [DOMAIN s -> DOMAIN s] /\ \A i \in DOMAIN s : f[i] = i  OBVIOUS
<1> HIDE DEF f
<1> QED BY <1>1 DEF Thins

LEMMA ThinPop ==
    ASSUME NEW E, NEW l \in Seq(E), NEW q \in Seq(E), q # <<>>
    PROVE  Thins(l \o q, l \o Tail(q))
<1> DEFINE s == l \o q
           r == l \o Tail(q)
           f == [i \in DOMAIN r |-> IF i <= Len(l) THEN i ELSE i + 1]
<1>1. Len(q) \in Nat \ {0} /\ Tail(q) \in Seq(E) /\ Len(Tail(q)) = Len(q) - 1 /\ Len(l) \in Nat
  OBVIOUS
<1>2. DOMAIN r = 1 .. Len(l) + Len(q) - 1 /\ DOMAIN s = 1 .. Len(l) + Len(q)  BY <1>1
<1>3. \A i \in DOMAIN r : r[i] = IF i <= Len(l) THEN l[i] ELSE q[i - Len(l) + 1]
  BY <1>1, <1>2
<1>4. \A i \in DOMAIN s : s[i] = IF i <= Len(l) THEN l[i] ELSE q[i - Len(l)]
  BY <1>1, <1>2
<1> HIDE DEF r, s
<1>5. \A i \in DOMAIN r : f[i] = IF i <= Len(l) THEN i ELSE i + 1  OBVIOUS
<1>6. f \in [DOMAIN r -> DOMAIN s]  BY <1>1, <1>2
<1> HIDE DEF f
<1>7. \A i, j \in DOMAIN r : f[i] = f[j] => i = j  BY <1>1, <1>2, <1>5
<1>8. ASSUME NEW i \in DOMAIN r PROVE r[i] = s[f[i]]
  <2>1. CASE i <= Len(l)  BY <1>1, <1>2, <1>3, <1>4, <1>5, <2>1
  <2>2. CASE i > Len(l)
    <3>1. i \in Nat /\ i + 1 \in DOMAIN s /\ i + 1 > Len(l) /\ f[i] = i + 1
      BY <1>1, <1>2, <1>5, <2>2
    <3>2. r[i] = q[i - Len(l) + 1] /\ s[i + 1] = q[i + 1 - Len(l)]
      BY <1>1, <1>2, <1>3, <1>4, <2>2, <3>1
    <3>3. i - Len(l) + 1 = i + 1 - Len(l)  BY <1>1, <3>1
    <3> QED BY <3>1, <3>2, <3>3
  <2> QED BY <1>1, <1>2, <2>1, <2>2
<1>9. Thins(s, r)  BY <1>6, <1>7, <1>8 DEF Thins
<1> QED BY <1>9 DEF r, s

LEMMA ThinReset ==
    ASSUME NEW E, NEW l \in Seq(E), NEW q \in Seq(E)
    PROVE  Thins(l \o q, l \o <<>>)
<1> DEFINE s == l \o q
           f == [i \in DOMAIN l |-> i]
<1>1. l \o << >> = l  OBVIOUS
<1>2. DOMAIN l \subseteq DOMAIN s /\ \A i \in DOMAIN l : s[i] = l[i]  OBVIOUS
<1>3. f \in [DOMAIN l -> DOMAIN s] /\ \A i \in DOMAIN l : f[i] = i  BY <1>2
<1> HIDE DEF f
<1> QED BY <1>1, <1>2, <1>3 DEF Thins

\* What a step does to the story: some of it is discarded, or it grows.
LEMMA ToldStep ==
    ASSUME TypeOK, LockDiscipline, MapsInv, HandInv, WiredInv, [Next]_vars
    PROVE  \/ Thins(Told, Told')
           \/ \E e \in Events : Told' = Append(Told, e) /\ (e.type = "E_CHANNEL_OPEN" => Marks(e.chan))
<1>0. log \in Seq(Events) /\ queue \in Seq(Events)  BY DEF TypeOK, AppOK, QueueOK
<1>1. CASE UNCHANGED <<queue, log, shed>>  BY <1>1, ThinSame DEF Told
<1>2. CASE Says
  <2>1. PICK e \in Events : Enqueue(e) /\ UNCHANGED log /\ (e.type = "E_CHANNEL_OPEN" => Marks(e.chan))
    BY <1>2 DEF Says, FromPeer, FromChannel, FromOpen, FromRegister
  <2>2. CASE Overfull(e)  BY <2>1, <2>2, ThinSame DEF Enqueue, Told
  <2>3. CASE ~Overfull(e)
    <3>1. queue' = Append(queue, e) /\ log' = log  BY <2>1, <2>3 DEF Enqueue
    <3>2. log \o Append(queue, e) = Append(log \o queue, e)  BY <1>0
    <3> QED BY <2>1, <3>1, <3>2 DEF Told
  <2> QED BY <2>2, <2>3
<1>3. CASE DrainDiscard
  <2>1. queue # <<>> /\ queue' = Tail(queue) /\ log' = log
    BY <1>3 DEF DrainDiscard, PopFront, appVars
  <2> QED BY <1>0, <2>1, ThinPop DEF Told
<1>4. CASE DrainDeliver
  <2>1. queue # <<>> /\ queue' = Tail(queue) /\ log' = Append(log, Head(queue))
    BY <1>4 DEF DrainDeliver, PopFront
  <2>2. Append(log, Head(queue)) \o Tail(queue) = log \o queue  BY <1>0, <2>1
  <2> QED BY <2>1, <2>2, ThinSame DEF Told
<1>5. CASE Reported
  <2>1. PICK e : e = OverflowReport  OBVIOUS
  <2>2. e \in Events /\ e.type # "E_CHANNEL_OPEN"
    BY <2>1 DEF OverflowReport, EventReport, Event, Events, AnyHandle, TypeOK, QueueOK
  <2>3. queue = <<>> /\ queue' = <<>> /\ log' = Append(log, e)  BY <1>5, <2>1 DEF Reported
  <2>4. Append(log, e) \o << >> = Append(log \o << >>, e)  BY <1>0, <2>2
  <2> QED BY <2>2, <2>3, <2>4 DEF Told
<1>6. CASE CleanupReset
  <2>1. queue' = <<>> /\ log' = log  BY <1>6 DEF CleanupReset, appVars
  <2> QED BY <1>0, <2>1, ThinReset DEF Told
<1> QED BY <1>1, <1>2, <1>3, <1>4, <1>5, <1>6, StoryStep DEF StoryMoves

LEMMA AnnouncedStays ==
    ASSUME TypeOK, MapsInv, GensInv, MaxRtcId < GEN_MAX, [Next]_vars, NEW h, Announced(h)
    PROVE  Announced(h)'
<1>1. CASE Dead(chans, h)  BY <1>1, DeadForever DEF Announced
<1>2. CASE Get(chans, h) # Null /\ Get(chans, h).announced
  <2>1. PICK d : d = Get(chans, h).rtc  OBVIOUS
  <2>2. PICK p : p = Get(chans, h).peer  OBVIOUS
  <2>3. Names(h, d, p)  BY <1>2, <2>1, <2>2 DEF Names
  <2>4. Names(h, d, p)' \/ Dead(chans', h)  BY <2>3, EntryStays
  <2>5. Dead(chans', h) \/ Get(chans', h).announced  BY <1>2, <2>3, EntryStays
  <2> QED BY <2>4, <2>5 DEF Announced, Names
<1> QED BY <1>1, <1>2 DEF Announced

LEMMA MarksAnnounce ==
    ASSUME TypeOK, NEW h, Marks(h)
    PROVE  ~Announced(h) /\ Announced(h)'
<1>1. TableOK(chans, ChannelObjects) /\ Get(chans, h) # Null /\ IsLive(chans, h)
  BY TablesTyped, GetFacts DEF Marks
<1>2. Get(chans, h) \in ChannelObjects /\ ~Get(chans, h).announced
  BY <1>1, ChannelEntry DEF Marks
<1>3. PICK o : o = [Get(chans, h) EXCEPT !.announced = TRUE]  OBVIOUS
<1>4. o \in ChannelObjects /\ o.announced  BY <1>2, <1>3 DEF ChannelObjects
<1>5. o # Null /\ chans' = Put(chans, h, o)  BY <1>3, <1>4, NullNone DEF Marks
<1>6. Get(chans', h) = o  BY <1>1, <1>5, GetPut
<1> QED BY <1>1, <1>2, <1>4, <1>5, <1>6, DeadGone DEF Announced

LEMMA NextOpen ==
    ASSUME TypeOK, LockDiscipline, MapsInv, GensInv, MaxRtcId < GEN_MAX, HandInv, WiredInv, OpenInv, [Next]_vars
    PROVE  OpenInv'
<1>1. PICK s : s = Told  OBVIOUS
<1>2. PICK r : r = Told'  OBVIOUS
<1>3. \A i \in DOMAIN s : IsOpen(s[i]) => Announced(s[i].chan)'
  BY <1>1, AnnouncedStays DEF OpenInv
<1>4. \A i, j \in DOMAIN s : IsOpen(s[i]) /\ IsOpen(s[j]) /\ s[i].chan = s[j].chan => i = j
  BY <1>1 DEF OpenInv, OpenOnce, IsOpen
<1> SUFFICES /\ \A i \in DOMAIN r : IsOpen(r[i]) => Announced(r[i].chan)'
             /\ \A i, j \in DOMAIN r : IsOpen(r[i]) /\ IsOpen(r[j]) /\ r[i].chan = r[j].chan => i = j
  BY <1>2 DEF OpenInv, OpenOnce, IsOpen
<1>5. CASE Thins(s, r)
  <2>1. PICK f \in [DOMAIN r -> DOMAIN s] :
           /\ \A i, j \in DOMAIN r : f[i] = f[j] => i = j
           /\ \A i \in DOMAIN r : r[i] = s[f[i]]
    BY <1>5 DEF Thins
  <2> QED BY <1>3, <1>4, <2>1
<1>6. ASSUME NEW e \in Events, r = Append(s, e), IsOpen(e) => Marks(e.chan)
      PROVE  /\ \A i \in DOMAIN r : IsOpen(r[i]) => Announced(r[i].chan)'
             /\ \A i, j \in DOMAIN r : IsOpen(r[i]) /\ IsOpen(r[j]) /\ r[i].chan = r[j].chan => i = j
  <2>1. s \in Seq(Events)  BY <1>1 DEF TypeOK, AppOK, QueueOK, Told
  <2>2. PICK n : n = Len(s) + 1  OBVIOUS
  <2>3. DOMAIN r = DOMAIN s \cup {n} /\ n \notin DOMAIN s /\ r[n] = e /\ \A i \in DOMAIN s : r[i] = s[i]
    BY <1>6, <2>1, <2>2
  <2>4. IsOpen(e) => Announced(e.chan)' /\ ~Announced(e.chan)  BY <1>6, MarksAnnounce
  <2>5. \A i \in DOMAIN s : IsOpen(s[i]) => Announced(s[i].chan)  BY <1>1 DEF OpenInv
  <2> QED BY <1>3, <1>4, <2>3, <2>4, <2>5
<1> QED BY <1>1, <1>2, <1>5, <1>6, ToldStep DEF IsOpen

\* --------------------------------------------------------------- the theorems

LEMMA InitOpen ==
    ASSUME Init
    PROVE  OpenInv
<1>1. Told = <<>>  BY DEF Init, Told
<1> QED BY <1>1 DEF OpenInv, OpenOnce

LEMMA InitGone ==
    ASSUME Init
    PROVE  GoneInv
  BY DEF Init, GoneInv

LEMMA NextStory ==
    ASSUME TypeOK, LockDiscipline, MapsInv, StoryInv, MaxRtcId < GEN_MAX, [Next]_vars
    PROVE  StoryInv'
<1>1. GensInv'  BY NextGens DEF StoryInv
<1>2. HandInv'  BY NextHand DEF StoryInv
<1>3. WiredInv'  BY NextWired DEF StoryInv
<1>4. GoneInv'  BY NextGone DEF StoryInv
<1>5. OpenInv'  BY NextOpen DEF StoryInv
<1> QED BY <1>1, <1>2, <1>3, <1>4, <1>5 DEF StoryInv

\* What the story proofs rest on, in every state: no slot has given out more
\* handles than the library has made objects; a thread at work on a channel
\* holds its handle or a dead one; only channels report an open; what the app
\* freed is dead; and an announced open is marked on its channel.  A callback
\* that comes back to the lock finds its handle what it was or stale for good.
THEOREM StoryInvariant ==
    ASSUME MaxRtcId < GEN_MAX
    PROVE  Spec => []StoryInv
<1>1. Init => StoryInv  BY InitGens, InitHand, InitWired, InitGone, InitOpen DEF StoryInv
<1>2. TypeOK /\ LockDiscipline /\ MapsInv /\ StoryInv /\ [Next]_vars => StoryInv'
  BY NextStory
<1> QED BY <1>1, <1>2, TypeCorrect, LockDisciplined, MapsInvariant, PTL DEF Spec

\* The open callback and the already-open check of register_channel announce a
\* channel's open at most once between them: openAnnounced is read and set in
\* one locked section, and a handle is never given to a second channel.
THEOREM OpensOnce ==
    ASSUME MaxRtcId < GEN_MAX
    PROVE  Spec => []OpenOnce
<1>1. StoryInv => OpenOnce  BY DEF StoryInv, OpenInv
<1> QED BY <1>1, StoryInvariant, PTL

\* After dcx_peer_free, dcx_channel_free or dcx_cleanup has freed a handle, no
\* dcx_poll delivers an event that names it: the drain re-validates each event
\* against the tables, and a freed handle never becomes live again.
THEOREM FreedStaysSilent ==
    ASSUME MaxRtcId < GEN_MAX
    PROVE  Spec => NothingAfterFree
<1>1. TypeOK /\ LockDiscipline /\ MapsInv /\ StoryInv /\ [Next]_vars
        => [\A i \in DOMAIN log' \ DOMAIN log :
              <<"peer", log'[i].peer>> \notin gone /\ <<"chan", log'[i].chan>> \notin gone]_vars
  BY DeliversLive DEF StoryInv
<1> QED
  BY <1>1, TypeCorrect, LockDisciplined, MapsInvariant, StoryInvariant, PTL DEF Spec, NothingAfterFree

\* ------------------------------------------------------ handles before events

LEMMA LearntStays ==
    ASSUME TypeOK, [Next]_vars, NEW h, Learnt(h)
    PROVE  StaysLearnt(h)
<1>1. ASSUME known \subseteq known', th'[Script] = th[Script] PROVE StaysLearnt(h)
  BY <1>1 DEF StaysLearnt, Learnt, ScriptHolds
<1>2. ASSUME NEW w \in Workers, NEW r, th' = [th EXCEPT ![w] = r], known \subseteq known'
      PROVE  StaysLearnt(h)
  <2>1. th'[Script] = th[Script]  BY <1>2, ThreadSet, WorkerThread, ScriptThread
  <2> QED BY <1>1, <1>2, <2>1
<1>3. ASSUME known \subseteq known', th[Script].pc \notin AfterRegister PROVE StaysLearnt(h)
  BY <1>3 DEF StaysLearnt, Learnt, ScriptHolds
<1>4. ASSUME NEW t \in Threads, NEW r, th' = [th EXCEPT ![t] = r], known \subseteq known',
             r.pc \in AfterRegister, r.chan = th[t].chan
      PROVE  StaysLearnt(h)
  <2>1. th'[t] = r /\ \A u \in Threads : u # t => th'[u] = th[u]  BY <1>4, ThreadSet
  <2> QED BY <1>4, <2>1, ScriptThread DEF StaysLearnt, Learnt, ScriptHolds
<1>5. ASSUME NEW t \in Threads, NEW l \in AfterRegister, Goto(t, l), known \subseteq known' PROVE StaysLearnt(h)
  <2>1. PICK r : r = [th[t] EXCEPT !.pc = l]  OBVIOUS
  <2>2. th[t] \in Locals  BY Local
  <2>3. r.pc = l /\ r.chan = th[t].chan  BY <2>1, <2>2 DEF Locals
  <2>4. th' = [th EXCEPT ![t] = r]  BY <1>5, <2>1 DEF Goto
  <2> QED BY <1>4, <1>5, <2>3, <2>4
<1>6. ASSUME NEW t \in Threads, Registered(t) PROVE StaysLearnt(h)
  <2>1. CASE t = Script  BY <1>6, <2>1 DEF Registered, StaysLearnt, Learnt, ScriptHolds
  <2>2. CASE t # Script  BY <1>5, <1>6, <2>2 DEF Registered, AfterRegister
  <2> QED BY <2>1, <2>2
<1>7. ASSUME NEW t \in Threads, WireChannel(t) \/ CheckOpen(t) \/ AnnounceOpen(t) PROVE StaysLearnt(h)
  <2>1. CASE WireChannel(t)
    <3>1. known \subseteq known'  BY <2>1 DEF WireChannel, appVars
    <3>2. CASE th[t].ks = {}  BY <1>5, <2>1, <3>1, <3>2 DEF WireChannel, AfterRegister
    <3>3. CASE th[t].ks # {}
      <4>1. PICK r : r = [th[t] EXCEPT !.ks = @ \ {FirstOf(th[t].ks, ChannelCallbacks)}]
        OBVIOUS
      <4>2. th[t] \in Locals /\ th[t].pc = "wire"  BY <2>1, Local DEF WireChannel, At
      <4>3. r.pc \in AfterRegister /\ r.chan = th[t].chan
        BY <4>1, <4>2 DEF Locals, AfterRegister
      <4>4. th' = [th EXCEPT ![t] = r]  BY <2>1, <3>3, <4>1 DEF WireChannel
      <4> QED BY <1>4, <3>1, <4>3, <4>4
    <3> QED BY <3>2, <3>3
  <2>2. CASE CheckOpen(t)  BY <1>5, <1>6, <2>2 DEF CheckOpen, AfterRegister
  <2>3. CASE AnnounceOpen(t)  BY <1>6, <2>3, SMTT(30) DEF AnnounceOpen
  <2> QED BY <1>7, <2>1, <2>2, <2>3
<1>8. CASE Library
  BY <1>1, <1>2, <1>8, Zenon DEF Library, RtcChannelOpens, RtcChannelCloses, Fire, FireDataChannel, appVars
<1>9. ASSUME NEW w \in Workers, CallbackStep(w) PROVE StaysLearnt(h)
  <2>1. CASE PeerCallback(w) \/ ChannelCallback(w) \/ OpenCallback(w) \/ Lookup(w) \/ Orphan(w) \/ Revalidate(w)
    <3>1. known \subseteq known'
      BY <2>1 DEF PeerCallback, ChannelCallback, OpenCallback, Lookup, Orphan, Revalidate, appVars
    <3>2. \E r : th' = [th EXCEPT ![w] = r]
      BY <2>1 DEF PeerCallback, ChannelCallback, OpenCallback, Lookup, Orphan, Revalidate, Return
    <3> QED BY <1>2, <3>1, <3>2
  <2>2. CASE Register(w)
    <3>1. known \subseteq known'  BY <2>2 DEF Register, appVars
    <3>2. \E r : th' = [th EXCEPT ![w] = r]  BY <2>2, SMTT(30) DEF Register, Goto
    <3> QED BY <1>2, <3>1, <3>2
  <2> QED BY <1>7, <1>9, <2>1, <2>2, WorkerThread DEF CallbackStep
<1>10. CASE Call
  BY <1>3, <1>10, Zenon DEF Call, PeerNew, PeerClose, PeerFreeLock, ChannelNew, ChannelClose,
     SetBufferedLow, ChannelFree, CleanupLock, appVars, At, AfterRegister
<1>11. CASE PollStart \/ PollRetry
  BY <1>3, <1>11 DEF PollStart, PollRetry, Poll, appVars, At, AfterRegister
<1>12. CASE ScriptStep /\ ~PollRetry
  <2>1. CASE PeerAlloc \/ PeerRefused \/ WirePeer \/ ChannelRefused \/ Register(Script)
    BY <1>3, <2>1, SMTT(30) DEF PeerAlloc, PeerRefused, WirePeer, ChannelRefused, Register, appVars, At, AfterRegister
  <2>2. CASE ClearCallback \/ DeleteObject \/ RtcCleanup \/ RtcJoin \/ RtcDone
    BY <1>3, <2>2, ZenonT(30) DEF ClearCallback, DeleteObject, RtcCleanup, RtcJoin, RtcDone, appVars, At, Owes, AfterRegister
  <2>3. CASE PeerFreeSweep \/ PeerFreeDone \/ CleanupChannel \/ CleanupPeer \/ CleanupReset
    BY <1>3, <2>3, Zenon DEF PeerFreeSweep, PeerFreeDone, CleanupChannel, CleanupPeer, CleanupReset, appVars, At, AfterRegister
  <2>4. CASE DrainLock \/ DrainDiscard \/ DrainDeliver \/ DrainEnd
    BY <1>3, <2>4 DEF DrainLock, DrainDiscard, DrainDeliver, DrainEnd, appVars, At, AfterRegister
  <2> QED BY <1>7, <1>12, <2>1, <2>2, <2>3, <2>4, ScriptThread DEF ScriptStep
<1>13. CASE UNCHANGED vars  BY <1>1, <1>13 DEF vars, appVars
<1> QED BY <1>8, <1>9, <1>10, <1>11, <1>12, <1>13 DEF Next

LEMMA SafeStays ==
    ASSUME TypeOK, MapsInv, GensInv, MaxRtcId < GEN_MAX, [Next]_vars, NEW h, NEW p, Safe(h, p)
    PROVE  Safe(h, p)'
  BY LearntStays, DeadForever DEF Safe, StaysLearnt

LEMMA IssuedForever ==
    ASSUME TypeOK, MapsInv, GensInv, MaxRtcId < GEN_MAX, [Next]_vars, NEW h
    PROVE  /\ Issued(chans, h) => Issued(chans', h)
           /\ Issued(peers, h) => Issued(peers', h)
<1>1. FreeListOK(chans) /\ FreeListOK(peers)  BY DEF MapsInv
<1> QED BY <1>1, TablesTyped, TablesUnwrapped, TablesEvolve, IssuedStays

\* A registration's handle is live after the step, and no other is new.
LEMMA RegisteredEntry ==
    ASSUME TypeOK, MapsInv, NEW t \in Threads, Registers(t)
    PROVE  /\ AllocHandle(chans) \in Handles
           /\ Get(chans', AllocHandle(chans)) # Null
           /\ Get(chans', AllocHandle(chans)).peer = th[t].peer
           /\ Get(chans', AllocHandle(chans)).rtc = th[t].dc
           /\ \A h : h # AllocHandle(chans) => Get(chans', h) = Get(chans, h)
<1>1. PICK h : h = AllocHandle(chans)  OBVIOUS
<1>2. PICK p : p = th[t].peer  OBVIOUS
<1>3. PICK o : o = [rtc |-> th[t].dc, peer |-> p, announced |-> FALSE]  OBVIOUS
<1>4. chans' = Alloc(chans, o) /\ o # Null  BY <1>2, <1>3, RegisterFacts
<1>5. CanAlloc(chans) /\ FreeListOK(chans)  BY DEF Registers, MapsInv
<1>6. \A g : Get(chans', g) = IF g = h THEN o ELSE Get(chans, g)
  BY <1>1, <1>4, <1>5, TablesTyped, GetAlloc
<1>7. h \in Handles  BY <1>1, <1>5, TablesTyped, AllocSlot
<1>8. Get(chans', h) = o /\ o.peer = p /\ o.rtc = th[t].dc  BY <1>3, <1>6
<1>9. \A g : g # h => Get(chans', g) = Get(chans, g)  BY <1>6
<1> QED BY <1>1, <1>2, <1>4, <1>7, <1>8, <1>9

\* A live channel was live before, of the same peer, or was just registered.
LEMMA ChannelBefore ==
    ASSUME TypeOK, MapsInv, [Next]_vars, NEW h, Get(chans', h) # Null
    PROVE  \/ Get(chans, h) # Null /\ SameEntry(Get(chans, h), Get(chans', h))
           \/ \E t \in Threads : /\ Registers(t) /\ h = AllocHandle(chans)
                                 /\ Get(chans', h).peer = th[t].peer
                                 /\ Get(chans', h).rtc = th[t].dc
<1>1. TableOK(chans, ChannelObjects)  BY TablesTyped
<1>2. CASE UNCHANGED chans  BY <1>2 DEF SameEntry
<1>3. ASSUME NEW g, chans' = Free(chans, g) PROVE Get(chans, h) = Get(chans', h)
  BY <1>1, <1>3, GetFree
<1>4. ASSUME NEW g, Marks(g)
      PROVE  Get(chans, h) # Null /\ SameEntry(Get(chans, h), Get(chans', h))
  <2>1. IsLive(chans, g) /\ Get(chans, g) # Null
    BY <1>1, <1>4, TablesTyped, GetFacts DEF Marks
  <2>2. Get(chans, g) \in ChannelObjects  BY <2>1, ChannelEntry
  <2>3. PICK o : o = [Get(chans, g) EXCEPT !.announced = TRUE]  OBVIOUS
  <2>4. o \in ChannelObjects /\ SameEntry(Get(chans, g), o)
    BY <2>2, <2>3 DEF ChannelObjects, SameEntry
  <2>5. o # Null /\ chans' = Put(chans, g, o)  BY <1>4, <2>3, <2>4, NullNone DEF Marks
  <2>6. Get(chans', h) = IF h = g THEN o ELSE Get(chans, h)  BY <1>1, <2>1, <2>5, GetPut
  <2> QED BY <2>1, <2>4, <2>6 DEF SameEntry
<1>5. ASSUME NEW t \in Threads, Registers(t)
      PROVE  \/ Get(chans, h) # Null /\ SameEntry(Get(chans, h), Get(chans', h))
             \/ /\ h = AllocHandle(chans) /\ Get(chans', h).peer = th[t].peer
                /\ Get(chans', h).rtc = th[t].dc
  BY <1>5, RegisteredEntry DEF SameEntry
<1> QED BY <1>2, <1>3, <1>4, <1>5, ChannelsStep DEF ChannelsMove, ChannelsKept, SameEntry

LEMMA InitQueued ==
    ASSUME Init
    PROVE  QueuedInv
<1>1. \A h : Get(EmptyTable, h) = Null  BY DEF Get, IsLive, EmptyTable, Handles
<1> QED BY <1>1, IdleHand DEF Init, QueuedInv, Elems

LEMMA NextQueued ==
    ASSUME TypeOK, LockDiscipline, MapsInv, GensInv, MaxRtcId < GEN_MAX, HandInv, WiredInv, QueuedInv, [Next]_vars
    PROVE  QueuedInv'
<1>0. queue \in Seq(Events)  BY DEF TypeOK, QueueOK
<1>1. \A h : Issued(peers, h) => Issued(peers', h)  BY IssuedForever
<1>2. \A h : Issued(chans, h) => Issued(chans', h)  BY IssuedForever
<1>3. ASSUME NEW h \in Handles, Get(chans', h) # Null PROVE Issued(peers', Get(chans', h).peer)
  <2>1. CASE Get(chans, h) # Null /\ Get(chans, h).peer = Get(chans', h).peer
    BY <1>1, <2>1 DEF QueuedInv
  <2>2. ASSUME NEW t \in Threads, Registers(t), Get(chans', h).peer = th[t].peer
        PROVE  Issued(peers', Get(chans', h).peer)
    <3>1. Issued(peers, th[t].peer)  BY <2>2, RegisterFacts DEF QueuedInv
    <3> QED BY <1>1, <2>2, <3>1
  <2> QED BY <1>3, <2>1, <2>2, ChannelBefore DEF SameEntry
<1>4. ASSUME NEW t \in Threads, th'[t].pc = "register" PROVE Issued(peers', th'[t].peer)
  <2>1. TakesUp(t, th'[t])  BY NextHands DEF HandsMove
  <2>2. CASE th[t].pc = "register" /\ th'[t].peer = th[t].peer
    BY <1>1, <2>2 DEF QueuedInv
  <2>3. CASE Get(peers, th'[t].peer) # Null  BY <1>1, <2>3 DEF Issued
  <2>4. ASSUME mu = Nobody, NEW i \in RtcIds, rtcPeer[i] = th'[t].peer, th'[t].peer # NoHandle
        PROVE  Issued(peers', th'[t].peer)
    <3>1. Get(peers, th'[t].peer) # Null  BY <2>4, Unlocked DEF Pointed
    <3> QED BY <1>1, <3>1 DEF Issued
  <2> QED BY <1>4, <2>1, <2>2, <2>3, <2>4 DEF TakesUp
<1>5. \A e \in Elems(queue) : NamesIssued(e)'  BY <1>1, <1>2 DEF QueuedInv, NamesIssued
<1>6. ASSUME NEW e \in Events, FromPeer(e) \/ FromChannel(e) \/ FromOpen(e) \/ FromRegister(e)
      PROVE  NamesIssued(e)'
  <2>1. CASE FromPeer(e)  BY <1>1, <2>1 DEF FromPeer, NamesIssued, Issued
  <2>2. CASE FromChannel(e) \/ FromOpen(e)
    <3>1. Get(chans, e.chan) # Null /\ e.peer = Get(chans, e.chan).peer
      BY <2>2, TablesTyped, GetFacts DEF FromChannel, FromOpen, Marks
    <3>2. e.chan \in Handles  BY <3>1, ChannelEntry
    <3>3. Issued(chans, e.chan) /\ Issued(peers, e.peer)
      BY <3>1, <3>2 DEF QueuedInv, Issued
    <3> QED BY <1>1, <1>2, <3>3 DEF NamesIssued
  <2>3. CASE FromRegister(e)
    <3>1. PICK t \in Threads : Registers(t) /\ e.chan = AllocHandle(chans) /\ e.peer = th[t].peer
      BY <2>3 DEF FromRegister
    <3>2. Issued(chans', e.chan)  BY <3>1, RegisteredEntry DEF Issued
    <3>3. Issued(peers, e.peer)  BY <3>1, RegisterFacts DEF QueuedInv
    <3> QED BY <1>1, <3>2, <3>3 DEF NamesIssued
  <2> QED BY <1>6, <2>1, <2>2, <2>3
<1>7. \A e \in Elems(queue') : NamesIssued(e)'
  <2>1. CASE UNCHANGED queue \/ queue' = <<>>  BY <1>5, <2>1 DEF Elems
  <2>2. CASE queue # <<>> /\ queue' = Tail(queue)
    <3>1. \A i \in DOMAIN queue' : i + 1 \in DOMAIN queue /\ queue'[i] = queue[i + 1]
      BY <1>0, <2>2
    <3>2. Elems(queue') \subseteq Elems(queue)  BY <3>1 DEF Elems
    <3> QED BY <1>5, <3>2
  <2>3. ASSUME NEW e \in Events, NamesIssued(e)', queue' = Append(queue, e)
        PROVE  \A f \in Elems(queue') : NamesIssued(f)'
    <3>1. \A i \in DOMAIN queue' : (i \in DOMAIN queue /\ queue'[i] = queue[i]) \/ queue'[i] = e
      BY <1>0, <2>3
    <3>2. Elems(queue') \subseteq Elems(queue) \cup {e}  BY <3>1 DEF Elems
    <3> QED BY <1>5, <2>3, <3>2
  <2> QED
    BY <1>6, <2>1, <2>2, <2>3, StoryStep
       DEF StoryMoves, Says, Enqueue, DrainDiscard, DrainDeliver, PopFront, Reported, CleanupReset
<1> QED BY <1>3, <1>4, <1>7 DEF QueuedInv

\* Nothing is shed in a step after which nothing has been.
LEMMA NothingShed ==
    ASSUME TypeOK, LockDiscipline, MapsInv, HandInv, WiredInv, [Next]_vars, shed' = 0
    PROVE  /\ shed = 0
           /\ \A e : Enqueue(e) => queue' = Append(queue, e)
<1>0. shed \in Nat  BY DEF TypeOK, QueueOK
<1>1. \A e : Enqueue(e) => shed = 0 /\ queue' = Append(queue, e)
  BY <1>0 DEF Enqueue, Shed
<1>2. CASE Says  BY <1>1, <1>2 DEF Says
<1>3. CASE ~Says
  BY <1>1, <1>3, StoryStep DEF StoryMoves, DrainDiscard, DrainDeliver, Reported, DrainEnd, CleanupReset
<1> QED BY <1>1, <1>2, <1>3

LEMMA KnownGrows ==
    ASSUME TypeOK, [Next]_vars
    PROVE  known \subseteq known'
  BY LearntStays DEF StaysLearnt, Learnt

\* A registration is announced, or its handle is what the call will return.
LEMMA NewEntryFirst ==
    ASSUME TypeOK, LockDiscipline, MapsInv, HandInv, WiredInv, [Next]_vars, shed' = 0,
           NEW t \in Threads, Registers(t), NEW h, h = AllocHandle(chans), NEW p, p = th[t].peer
    PROVE  ScriptHolds(h)' \/ \E e : queue' = Append(queue, e) /\ Tells(e, h, p)
<1>1. CASE t = Script
  <2>1. th'[Script].pc = "wire" /\ th'[Script].chan = h  BY <1>1, RegisterFacts
  <2> QED BY <2>1 DEF ScriptHolds, AfterRegister
<1>2. CASE t # Script
  <2>1. h # NoHandle
    <3>1. h \in Handles  BY RegisteredEntry
    <3> QED BY <3>1 DEF Handles, NoHandle
  <2>2. PICK e : e = Event("E_CHANNEL_INCOMING", p, h, th[t].n)  OBVIOUS
  <2>3. Enqueue(e)  BY <1>2, <2>1, <2>2 DEF Registers, Register, AnnouncesIncoming
  <2>4. Tells(e, h, p)  BY <2>2 DEF Tells, Event
  <2>5. queue' = Append(queue, e)  BY <2>3, NothingShed
  <2> QED BY <2>4, <2>5
<1> QED BY <1>1, <1>2

\* The parts that survive when the queue stays, grows by e, or loses its head.
LEMMA FirstAppend ==
    ASSUME TypeOK, NEW e, NEW r, r = Append(queue, e)
    PROVE  /\ DOMAIN r = 1 .. Len(queue) + 1 /\ Len(r) = Len(queue) + 1
           /\ r[Len(queue) + 1] = e
           /\ \A i \in DOMAIN queue : i \in 1 .. Len(queue) /\ r[i] = queue[i]
           /\ \A n \in Nat : \A m \in Nat : \A h : \A p : n <= m /\ Foretold(queue, n, h, p) => Foretold(r, m, h, p)
<1>1. queue \in Seq(Events) /\ Len(queue) \in Nat  BY DEF TypeOK, QueueOK
<1>2. /\ DOMAIN r = 1 .. Len(queue) + 1 /\ Len(r) = Len(queue) + 1
      /\ r[Len(queue) + 1] = e
      /\ \A i \in DOMAIN queue : i \in 1 .. Len(queue) /\ r[i] = queue[i]
  BY <1>1
<1>3. ASSUME NEW n \in Nat, NEW m \in Nat, NEW h, NEW p, n <= m, Foretold(queue, n, h, p)
      PROVE  Foretold(r, m, h, p)
  <2>1. PICK j \in 1 .. n : j \in DOMAIN queue /\ Tells(queue[j], h, p)
    BY <1>3 DEF Foretold
  <2>2. j \in 1 .. m /\ j \in DOMAIN r /\ r[j] = queue[j]  BY <1>1, <1>2, <1>3, <2>1
  <2> QED BY <2>1, <2>2 DEF Foretold
<1> QED BY <1>2, <1>3

\* The first event is said to be safe, or is itself the INCOMING.
LEMMA FirstTail ==
    ASSUME TypeOK, queue # <<>>, NEW r, r = Tail(queue)
    PROVE  /\ \A i \in DOMAIN r : i \in Nat /\ i + 1 \in DOMAIN queue /\ r[i] = queue[i + 1]
           /\ Len(r) + 1 = Len(queue) /\ Len(r) \in Nat
           /\ \A n \in Nat : \A h : \A p :
                Foretold(queue, n + 1, h, p) => Foretold(r, n, h, p) \/ Tells(Head(queue), h, p)
<1>1. queue \in Seq(Events) /\ Len(queue) \in Nat /\ Head(queue) = queue[1]
  BY DEF TypeOK, QueueOK
<1>2. /\ \A i \in DOMAIN r : i \in Nat /\ i + 1 \in DOMAIN queue /\ r[i] = queue[i + 1]
      /\ Len(r) + 1 = Len(queue) /\ Len(r) \in Nat
      /\ DOMAIN r = 1 .. Len(r) /\ DOMAIN queue = 1 .. Len(queue)
  BY <1>1
<1>3. ASSUME NEW n \in Nat, NEW h, NEW p, Foretold(queue, n + 1, h, p), ~Tells(Head(queue), h, p)
      PROVE  Foretold(r, n, h, p)
  <2>1. PICK j \in 1 .. n + 1 : j \in DOMAIN queue /\ Tells(queue[j], h, p)
    BY <1>3 DEF Foretold
  <2>2. j # 1  BY <1>1, <1>3, <2>1
  <2>3. PICK k : k = j - 1  OBVIOUS
  <2>4. k \in 1 .. n /\ k \in DOMAIN r /\ k + 1 = j  BY <1>2, <1>3, <2>1, <2>2, <2>3
  <2>5. r[k] = queue[j]  BY <1>2, <2>4
  <2> QED BY <2>1, <2>4, <2>5 DEF Foretold
<1> QED BY <1>2, <1>3

LEMMA TableFollows ==
    ASSUME FirstState, MaxRtcId < GEN_MAX, [Next]_vars, shed' = 0,
           NEW q, q = queue, NEW r, r = queue', StillForetold(q, r),
           \A e : queue' = Append(queue, e) => \E j \in 1 .. Len(r) : j \in DOMAIN r /\ r[j] = e
    PROVE  TableFirst'
<1> USE DEF FirstState
<1>1. ASSUME NEW h \in Handles, Get(chans', h) # Null, NEW p, p = Get(chans', h).peer
      PROVE  EntryFirst(r, h, p)'
  <2>0. h # NoHandle  BY DEF Handles, NoHandle
  <2>1. CASE Get(chans, h) # Null /\ Get(chans, h).peer = p
    <3>1. EntryFirst(q, h, p)  BY <1>1, <2>1 DEF TableFirst
    <3> QED BY <2>0, <3>1, SafeStays DEF EntryFirst, StillForetold
  <2>2. ASSUME NEW t \in Threads, Registers(t), h = AllocHandle(chans), p = th[t].peer
        PROVE  EntryFirst(r, h, p)'
    <3>1. CASE ScriptHolds(h)'  BY <3>1 DEF EntryFirst, Safe, Learnt
    <3>2. ASSUME NEW e, queue' = Append(queue, e), Tells(e, h, p) PROVE EntryFirst(r, h, p)'
      <4>1. Foretold(r, Len(r), h, p)  BY <3>2 DEF Foretold
      <4> QED BY <4>1 DEF EntryFirst
    <3> QED BY <2>2, <3>1, <3>2, NewEntryFirst
  <2> QED BY <1>1, <2>1, <2>2, ChannelBefore DEF SameEntry
<1> QED BY <1>1 DEF TableFirst

\* The queue stays as it is.
LEMMA FirstSame ==
    ASSUME FirstState, MaxRtcId < GEN_MAX, [Next]_vars, shed' = 0, queue' = queue, log' = log
    PROVE  LogFirst' /\ QueueFirst' /\ TableFirst'
<1> USE DEF FirstState
<1>1. PICK q : q = queue  OBVIOUS
<1>2. q \in Seq(Events)  BY <1>1 DEF TypeOK, QueueOK
<1>3. known \subseteq known'  BY KnownGrows
<1>4. LogFirst'  BY <1>3 DEF LogFirst
<1>5. QueueFirst'
  <2>1. ASSUME NEW i \in DOMAIN q PROVE EventFirst(q, i)'
    <3>1. EventFirst(q, i)  BY <1>1, <2>1 DEF QueueFirst
    <3> QED BY <3>1, SafeStays DEF EventFirst
  <2> QED BY <1>1, <2>1 DEF QueueFirst
<1>6. StillForetold(q, q)  BY DEF StillForetold
<1>7. \A e : Append(q, e) # q
  <2>1. \A e : Len(Append(q, e)) = Len(q) + 1 /\ Len(q) \in Nat  BY <1>2
  <2>2. \A e : Append(q, e) = q => Len(q) = Len(q) + 1  BY <2>1
  <2> QED BY <2>1, <2>2
<1>8. TableFirst'  BY <1>1, <1>6, <1>7, TableFollows
<1> QED BY <1>4, <1>5, <1>8

\* An event is queued.
LEMMA FirstSays ==
    ASSUME FirstState, MaxRtcId < GEN_MAX, [Next]_vars, shed' = 0, log' = log, NEW e \in Events,
           queue' = Append(queue, e), FromPeer(e) \/ FromChannel(e) \/ FromOpen(e) \/ FromRegister(e)
    PROVE  LogFirst' /\ QueueFirst' /\ TableFirst'
<1> USE DEF FirstState
<1>1. PICK q : q = queue  OBVIOUS
<1>2. PICK r : r = queue'  OBVIOUS
<1>3. q \in Seq(Events) /\ r = Append(queue, e) /\ Len(q) \in Nat
  BY <1>1, <1>2 DEF TypeOK, QueueOK
<1>4. known \subseteq known'  BY KnownGrows
<1>5. LogFirst'  BY <1>4 DEF LogFirst
<1>6. PICK n : n = Len(q) + 1  OBVIOUS
<1>7. /\ DOMAIN r = 1 .. n /\ Len(r) = n /\ r[n] = e /\ n \in Nat
      /\ \A i \in DOMAIN q : i \in 1 .. Len(q) /\ r[i] = q[i]
  BY <1>1, <1>3, <1>6, FirstAppend
<1>8. \A k \in Nat : \A m \in Nat : \A h : \A p : k <= m /\ Foretold(q, k, h, p) => Foretold(r, m, h, p)
  BY <1>1, <1>3, FirstAppend
<1>9. QueueFirst'
  <2>1. ASSUME NEW i \in DOMAIN q PROVE EventFirst(r, i)'
    <3>1. EventFirst(q, i)  BY <1>1, <2>1 DEF QueueFirst
    <3>2. r[i] = q[i] /\ i \in Nat  BY <1>7, <2>1
    <3> QED BY <1>8, <3>1, <3>2, SafeStays DEF EventFirst
  <2>2. EventFirst(r, n)'
    <3>1. CASE FromPeer(e)  BY <1>7, <3>1 DEF FromPeer, EventFirst
    <3>2. CASE FromChannel(e) \/ FromOpen(e)
      <4>1. Get(chans, e.chan) # Null /\ e.peer = Get(chans, e.chan).peer
        BY <3>2, TablesTyped, GetFacts DEF FromChannel, FromOpen, Marks
      <4>2. e.chan \in Handles  BY <4>1, ChannelEntry
      <4>3. EntryFirst(q, e.chan, e.peer)  BY <1>1, <4>1, <4>2 DEF TableFirst
      <4>4. Safe(e.chan, e.peer)' \/ Foretold(r, n, e.chan, e.peer)
        BY <1>3, <1>6, <1>7, <1>8, <4>3, SafeStays DEF EntryFirst
      <4> QED BY <1>7, <4>4 DEF EventFirst
    <3>3. CASE FromRegister(e)
      <4>1. Tells(e, e.chan, e.peer)  BY <3>3 DEF FromRegister, Tells
      <4>2. n \in 1 .. n /\ n \in DOMAIN r  BY <1>3, <1>6, <1>7
      <4>3. Foretold(r, n, e.chan, e.peer)  BY <1>7, <4>1, <4>2 DEF Foretold
      <4> QED BY <1>7, <4>3 DEF EventFirst
    <3> QED BY <3>1, <3>2, <3>3
  <2>3. \A i \in DOMAIN r : i \in DOMAIN q \/ i = n  BY <1>3, <1>6, <1>7
  <2> QED BY <1>2, <2>1, <2>2, <2>3 DEF QueueFirst
<1>10. StillForetold(q, r)  BY <1>3, <1>6, <1>7, <1>8 DEF StillForetold
<1>11. ASSUME NEW f, queue' = Append(queue, f) PROVE \E j \in 1 .. Len(r) : j \in DOMAIN r /\ r[j] = f
  <2>1. Append(q, f)[Len(q) + 1] = f  BY <1>3
  <2>2. r[n] = f  BY <1>1, <1>2, <1>6, <1>11, <2>1
  <2>3. n \in 1 .. Len(r) /\ n \in DOMAIN r  BY <1>3, <1>6, <1>7
  <2> QED BY <2>2, <2>3
<1>12. TableFirst'  BY <1>1, <1>2, <1>10, <1>11, TableFollows
<1> QED BY <1>5, <1>9, <1>12

\* The first event leaves the queue: delivered, or discarded.
LEMMA HeadTold ==
    ASSUME FirstState, MaxRtcId < GEN_MAX, [Next]_vars, DrainDeliver \/ DrainDiscard,
           NEW h, NEW p, Tells(Head(queue), h, p), h # NoHandle
    PROVE  Safe(h, p)'
<1> USE DEF FirstState
<1>1. PICK e : e = Head(queue)  OBVIOUS
<1>2. queue # <<>> /\ queue \in Seq(Events)
  BY DEF DrainDeliver, DrainDiscard, TypeOK, QueueOK
<1>3. e \in Events /\ e \in Elems(queue)  BY <1>1, <1>2 DEF Elems
<1>4. e.type = "E_CHANNEL_INCOMING" /\ e.chan = h /\ e.peer = p  BY <1>1 DEF Tells
<1>5. CASE DrainDeliver  BY <1>1, <1>4, <1>5 DEF DrainDeliver, Safe, Learnt
<1>6. CASE DrainDiscard
  <2>1. NamesIssued(e) /\ ~Deliverable(e)  BY <1>1, <1>3, <1>6 DEF QueuedInv, DrainDiscard
  <2>2. Dead(peers, p) \/ Dead(chans, h)
    BY <1>4, <2>1 DEF NamesIssued, Deliverable, Issued
  <2>3. Safe(h, p)  BY <2>2 DEF Safe
  <2> QED BY <2>3, SafeStays
<1> QED BY <1>5, <1>6

LEMMA FirstPops ==
    ASSUME FirstState, MaxRtcId < GEN_MAX, [Next]_vars, shed' = 0, DrainDeliver \/ DrainDiscard
    PROVE  LogFirst' /\ QueueFirst' /\ TableFirst'
<1> USE DEF FirstState
<1>1. PICK q : q = queue  OBVIOUS
<1>2. PICK r : r = queue'  OBVIOUS
<1>3. q # <<>> /\ r = Tail(q) /\ q \in Seq(Events) /\ log \in Seq(Events)
  BY <1>1, <1>2 DEF DrainDeliver, DrainDiscard, PopFront, TypeOK, QueueOK, AppOK
<1>4. /\ \A i \in DOMAIN r : i \in Nat /\ i + 1 \in DOMAIN q /\ r[i] = q[i + 1]
      /\ Len(r) + 1 = Len(q) /\ Len(r) \in Nat
      /\ \A n \in Nat : \A h : \A p :
           Foretold(q, n + 1, h, p) => Foretold(r, n, h, p) \/ Tells(Head(q), h, p)
  BY <1>1, <1>3, FirstTail
<1>5. \A h : \A p : h # NoHandle /\ Tells(Head(q), h, p) => Safe(h, p)'  BY <1>1, HeadTold
<1>6. known \subseteq known'  BY KnownGrows
<1>7. QueueFirst'
  <2>1. ASSUME NEW i \in DOMAIN r PROVE EventFirst(r, i)'
    <3>1. i \in Nat /\ i + 1 \in DOMAIN q /\ r[i] = q[i + 1]  BY <1>4
    <3>2. EventFirst(q, i + 1)  BY <1>1, <3>1 DEF QueueFirst
    <3>3. ASSUME r[i].chan # NoHandle
          PROVE  Safe(r[i].chan, r[i].peer)' \/ Foretold(r, i, r[i].chan, r[i].peer)
      <4>1. Safe(r[i].chan, r[i].peer) \/ Foretold(q, i + 1, r[i].chan, r[i].peer)
        BY <3>1, <3>2, <3>3 DEF EventFirst
      <4> QED BY <1>4, <1>5, <3>1, <3>3, <4>1, SafeStays
    <3> QED BY <3>3 DEF EventFirst
  <2> QED BY <1>2, <2>1 DEF QueueFirst
<1>8. StillForetold(q, r)  BY <1>4, <1>5 DEF StillForetold
<1>9. ASSUME NEW e, Append(q, e) = r PROVE FALSE
  <2>1. Len(Append(q, e)) = Len(q) + 1 /\ Len(q) \in Nat  BY <1>3
  <2> QED BY <1>4, <1>9, <2>1
<1>10. TableFirst'  BY <1>1, <1>2, <1>8, <1>9, TableFollows
<1>11. LogFirst'
  <2>1. CASE DrainDiscard  BY <1>6, <2>1 DEF LogFirst, DrainDiscard, appVars
  <2>2. CASE DrainDeliver
    <3>1. PICK e : e = Head(q)  OBVIOUS
    <3>2. log' = Append(log, e) /\ Deliverable(e) /\ th[Script].pc = "drain"
      BY <1>1, <2>2, <3>1 DEF DrainDeliver, At
    <3>3. \A i \in DOMAIN log' : (i \in DOMAIN log /\ log'[i] = log[i]) \/ log'[i] = e
      BY <1>3, <3>2
    <3>4. 1 \in DOMAIN q /\ q[1] = e /\ e \in Events  BY <1>3, <3>1
    <3>5. EventFirst(q, 1)  BY <1>1, <3>4 DEF QueueFirst
    <3>6. ASSUME e.chan # NoHandle PROVE e.chan \in known'
      <4>1. CASE e.type = "E_CHANNEL_INCOMING"  BY <1>1, <2>2, <3>1, <4>1 DEF DrainDeliver
      <4>2. CASE Foretold(q, 1, e.chan, e.peer)
        <5>1. Tells(q[1], e.chan, e.peer)  BY <4>2 DEF Foretold
        <5> QED BY <3>4, <4>1, <5>1 DEF Tells
      <4>3. CASE Learnt(e.chan)
        BY <1>6, <3>2, <4>3 DEF Learnt, ScriptHolds, AfterRegister
      <4>4. ~Dead(chans, e.chan) /\ ~Dead(peers, e.peer)
        <5>1. NoHandle \notin Handles  BY DEF NoHandle, Handles
        <5> QED BY <3>2, <5>1, DeadGone DEF Deliverable, Dead
      <4> QED BY <3>4, <3>5, <3>6, <4>2, <4>3, <4>4 DEF EventFirst, Safe
    <3> QED BY <1>6, <3>3, <3>6 DEF LogFirst
  <2> QED BY <2>1, <2>2
<1> QED BY <1>7, <1>10, <1>11

\* The queue is empty after the step, or was already.
LEMMA FirstEmpty ==
    ASSUME FirstState, MaxRtcId < GEN_MAX, [Next]_vars, shed' = 0, Reported \/ CleanupReset
    PROVE  LogFirst' /\ QueueFirst' /\ TableFirst'
<1> USE DEF FirstState
<1>1. queue' = <<>>  BY DEF Reported, CleanupReset
<1>2. known \subseteq known'  BY KnownGrows
<1>3. QueueFirst'  BY <1>1 DEF QueueFirst
<1>4. CASE Reported
  <2>1. PICK e : e = OverflowReport  OBVIOUS
  <2>2. log' = Append(log, e) /\ e.chan = NoHandle
    BY <1>4, <2>1 DEF Reported, OverflowReport, EventReport, Event
  <2>3. log \in Seq(Events)  BY DEF TypeOK, AppOK
  <2>4. \A i \in DOMAIN log' : (i \in DOMAIN log /\ log'[i] = log[i]) \/ log'[i] = e
    BY <2>2, <2>3
  <2>5. LogFirst'  BY <1>2, <2>2, <2>4 DEF LogFirst
  <2>6. PICK q : q = queue  OBVIOUS
  <2>7. q = <<>> /\ queue' = q  BY <1>4, <2>6 DEF Reported
  <2>8. StillForetold(q, q)  BY DEF StillForetold
  <2>9. \A f : Append(q, f) # q  BY <2>7
  <2>10. TableFirst'  BY <2>6, <2>7, <2>8, <2>9, TableFollows
  <2> QED BY <1>3, <2>5, <2>10
<1>5. CASE CleanupReset
  <2>1. LogFirst'  BY <1>2, <1>5 DEF LogFirst, CleanupReset, appVars
  <2>2. \A h : Get(chans', h) = Null
    <3>1. chans' = chans /\ LiveHandles(chans) = {}  BY <1>5 DEF CleanupReset
    <3>2. \A h : Get(chans, h) # Null => h \in LiveHandles(chans)
      BY TablesTyped, GetFacts DEF LiveHandles
    <3> QED BY <3>1, <3>2
  <2>3. TableFirst'  BY <2>2 DEF TableFirst
  <2> QED BY <1>3, <2>1, <2>3
<1> QED BY <1>4, <1>5, SMTT(30)

LEMMA NextFirst ==
    ASSUME TypeOK, LockDiscipline, MapsInv, StoryInv, QueuedInv, FirstInv, MaxRtcId < GEN_MAX, [Next]_vars
    PROVE  FirstInv'
<1>1. ASSUME shed' = 0 PROVE LogFirst' /\ QueueFirst' /\ TableFirst'
  <2>1. GensInv /\ HandInv /\ WiredInv  BY DEF StoryInv
  <2>2. shed = 0 /\ \A e : Enqueue(e) => queue' = Append(queue, e)
    BY <1>1, <2>1, NothingShed
  <2>3. FirstState  BY <2>1, <2>2 DEF FirstState, FirstInv
  <2>4. CASE UNCHANGED <<queue, log, shed>>  BY <1>1, <2>3, <2>4, FirstSame
  <2>5. CASE Says
    <3>1. PICK e \in Events : /\ Enqueue(e) /\ UNCHANGED log
                              /\ FromPeer(e) \/ FromChannel(e) \/ FromOpen(e) \/ FromRegister(e)
      BY <2>5 DEF Says
    <3>2. queue' = Append(queue, e)  BY <2>2, <3>1
    <3> QED BY <1>1, <2>3, <3>1, <3>2, FirstSays
  <2> QED BY <1>1, <2>1, <2>3, <2>4, <2>5, FirstPops, FirstEmpty, StoryStep DEF StoryMoves
<1> QED BY <1>1 DEF FirstInv

LEMMA InitFirst ==
    ASSUME Init
    PROVE  FirstInv
<1>1. \A h : Get(EmptyTable, h) = Null  BY DEF Get, IsLive, EmptyTable, Handles
<1> QED BY <1>1 DEF Init, FirstInv, LogFirst, QueueFirst, TableFirst

\* While nothing has been shed, an event that names a channel reaches the app
\* after the handle has: as the result of dcx_channel_new, or as the INCOMING
\* that register_channel queues in the section that makes the channel live.
THEOREM HandlesFirst ==
    ASSUME MaxRtcId < GEN_MAX
    PROVE  Spec => []HandleFirst
<1>1. Init => QueuedInv /\ FirstInv  BY InitQueued, InitFirst
<1>2. TypeOK /\ LockDiscipline /\ MapsInv /\ StoryInv /\ (QueuedInv /\ FirstInv) /\ [Next]_vars
        => (QueuedInv /\ FirstInv)'
  BY NextQueued, NextFirst DEF StoryInv
<1>3. QueuedInv /\ FirstInv => HandleFirst  BY DEF FirstInv, LogFirst, HandleFirst
<1> QED BY <1>1, <1>2, <1>3, TypeCorrect, LockDisciplined, MapsInvariant, StoryInvariant, PTL DEF Spec

\* ------------------------------------------------------- no channel is leaked

LEMMA ElemsAppend ==
    ASSUME NEW S, NEW s \in Seq(S), NEW x
    PROVE  Elems(s) \subseteq Elems(Append(s, x)) /\ x \in Elems(Append(s, x))
<1> DEFINE r == Append(s, x)
<1>1. DOMAIN r = 1 .. Len(s) + 1 /\ DOMAIN s = 1 .. Len(s) /\ Len(s) \in Nat  OBVIOUS
<1>2. \A i \in DOMAIN s : i \in DOMAIN r /\ r[i] = s[i]  BY <1>1
<1>3. Len(s) + 1 \in DOMAIN r /\ r[Len(s) + 1] = x  BY <1>1
<1> QED BY <1>2, <1>3 DEF Elems

LEMMA ElemsCat ==
    ASSUME NEW S, NEW s \in Seq(S), NEW r \in Seq(S)
    PROVE  Elems(s) \subseteq Elems(s \o r) /\ Elems(r) \subseteq Elems(s \o r)
<1> DEFINE q == s \o r
<1>1. DOMAIN q = 1 .. Len(s) + Len(r) /\ Len(s) \in Nat /\ Len(r) \in Nat  OBVIOUS
<1>2. \A i \in DOMAIN s : i \in DOMAIN q /\ q[i] = s[i]  OBVIOUS
<1>3. ASSUME NEW i \in DOMAIN r PROVE Len(s) + i \in DOMAIN q /\ q[Len(s) + i] = r[i]
  BY <1>1
<1> QED BY <1>2, <1>3 DEF Elems

LEMMA ElemsTail ==
    ASSUME NEW S, NEW s \in Seq(S), s # <<>>
    PROVE  Elems(s) \subseteq {Head(s)} \cup Elems(Tail(s))
<1> SUFFICES ASSUME NEW i \in DOMAIN s PROVE s[i] \in {Head(s)} \cup Elems(Tail(s))
  BY DEF Elems
<1>1. i \in 1 .. Len(s) /\ Len(s) \in Nat  OBVIOUS
<1>2. CASE i = 1  BY <1>2
<1>3. CASE i # 1
  <2>1. PICK j : j = i - 1  OBVIOUS
  <2>2. j \in DOMAIN Tail(s) /\ Tail(s)[j] = s[i]  BY <1>1, <1>3, <2>1
  <2> QED BY <2>2 DEF Elems
<1> QED BY <1>2, <1>3

LEMMA ElemsDelete ==
    ASSUME NEW s \in Seq(RtcIds), NEW d \in Elems(s)
    PROVE  DeleteOf(d) \in Elems(Delete(s))
  BY DEF Elems, Delete, DeleteOf

LEMMA ElemsClearAndDelete ==
    ASSUME NEW s \in Seq(RtcIds), NEW d \in Elems(s)
    PROVE  DeleteOf(d) \in Elems(ClearAndDelete(s))
<1> DEFINE r == ClearAndDelete(s)
<1>1. PICK i \in DOMAIN s : s[i] = d  BY DEF Elems
<1>2. i \in 1 .. Len(s) /\ Len(s) \in Nat  OBVIOUS
<1>3. PICK k : k = 2 * i  OBVIOUS
<1>4. k \in 1 .. 2 * Len(s) /\ k % 2 = 0 /\ (k + 1) \div 2 = i
  <2>1. PICK n : n = Len(s)  OBVIOUS
  <2>2. i \in Nat /\ n \in Nat /\ 1 <= i /\ i <= n  BY <1>2, <2>1
  <2>3. k \in Nat /\ 1 <= k /\ k <= 2 * n  BY <1>3, <2>2
  <2>4. k % 2 = 0  BY <1>3, <2>2
  <2>5. (2 * i + 1) \div 2 = i  BY <2>2, SMTT(30)
  <2> QED BY <1>3, <2>1, <2>2, <2>3, <2>4, <2>5
<1>5. k \in DOMAIN r  BY <1>4 DEF ClearAndDelete
<1>6. r[k] = [op |-> IF k % 2 = 1 THEN "clear" ELSE "delete", id |-> s[(k + 1) \div 2]]
  BY <1>4 DEF ClearAndDelete
<1>7. r[k] = DeleteOf(d)  BY <1>1, <1>4, <1>6 DEF DeleteOf
<1> QED BY <1>5, <1>7 DEF Elems

\* Only thread t moves, to r: what was its, or nobody's thread, is still held.
LEMMA HeldMove ==
    ASSUME TypeOK, NEW d, Held(d), NEW t \in Threads, NEW r, th' = [th EXCEPT ![t] = r],
           Owned(d) \/ Parked(d) \/ Fresh(th[t], d) \/ (t = Script /\ Owed(th[t], d))
             => Owned(d)' \/ Parked(d)' \/ Fresh(r, d) \/ (t = Script /\ Owed(r, d))
    PROVE  Held(d)'
<1>1. th'[t] = r /\ \A u \in Threads : u # t => th'[u] = th[u]  BY ThreadSet
<1> QED BY <1>1, ScriptThread DEF Held

LEMMA HeldPlain ==
    ASSUME TypeOK, NEW d, Held(d), NEW t \in Threads, \E r : th' = [th EXCEPT ![t] = r],
           Owned(d) => Owned(d)', Parked(d) => Parked(d)',
           th[t].pc \notin Unregistered, t = Script => th[t].pc \notin Sweeps \cup {"rtc"}
    PROVE  Held(d)'
  BY HeldMove DEF Fresh, Owed

LEMMA HeldStill ==
    ASSUME NEW d, Held(d), UNCHANGED th, Owned(d) => Owned(d)', Parked(d) => Parked(d)'
    PROVE  Held(d)'
  BY DEF Held

\* Freeing a handle frees the one channel it owns.
LEMMA OwnedFree ==
    ASSUME TypeOK, NEW d, NEW h, chans' = Free(chans, h), Owned(d)
    PROVE  Owned(d)' \/ (Get(chans, h) # Null /\ Get(chans, h).rtc = d)
  BY TablesTyped, GetFree DEF Owned

LEMMA OwnedAnnounce ==
    ASSUME TypeOK, MapsInv, NEW d, NEW h, NEW p, Announce(h, Get(chans, h), p), Owned(d)
    PROVE  Owned(d)'
  BY AnnounceSame DEF SameChannels, Owned

\* register_channel hands the channel of its thread to a handle.
LEMMA HeldRegister ==
    ASSUME TypeOK, MapsInv, NEW d, Held(d), NEW t \in Threads, Register(t)
    PROVE  Held(d)'
<1>1. CASE CanAlloc(chans)
  <2>1. Registers(t)  BY <1>1 DEF Registers
  <2>2. PICK h : h = AllocHandle(chans)  OBVIOUS
  <2>3. PICK o : o = [rtc |-> th[t].dc, peer |-> th[t].peer, announced |-> FALSE]  OBVIOUS
  <2>4. chans' = Alloc(chans, o) /\ o # Null /\ o.rtc = th[t].dc
    BY <2>1, <2>3, RegisterFacts
  <2>5. FreeListOK(chans) /\ TableOK(chans, ChannelObjects) /\ h \in Handles
    BY <1>1, <2>2, TablesTyped, AllocSlot DEF MapsInv
  <2>6. \A g : Get(chans', g) = IF g = h THEN o ELSE Get(chans, g)
    BY <1>1, <2>2, <2>4, <2>5, GetAlloc
  <2>7. Get(chans, h) = Null  BY <1>1, <2>2, <2>5, GetAlloc
  <2>8. Owned(d) => Owned(d)'  BY <2>6, <2>7 DEF Owned
  <2>9. Fresh(th[t], d) => Owned(d)'  BY <2>4, <2>5, <2>6 DEF Owned, Fresh
  <2>10. Parked(d) => Parked(d)'  BY DEF Register, Parked
  <2>11. \E r : th' = [th EXCEPT ![t] = r]  BY DEF Register, Goto
  <2>12. th[t].pc = "register"  BY DEF Register, At
  <2> QED BY <2>8, <2>9, <2>10, <2>11, <2>12, HeldMove DEF Owed, Sweeps
<1>2. CASE ~CanAlloc(chans)
  <2>1. PICK l \in {"refused", "orphan"} : Goto(t, l) /\ UNCHANGED <<chans, orphans>>
    BY <1>2 DEF Register, AllocHandle
  <2>2. PICK r : r = [th[t] EXCEPT !.pc = l]  OBVIOUS
  <2>3. th[t] \in Locals  BY Local
  <2>4. r.pc \in Unregistered /\ r.dc = th[t].dc /\ th[t].pc = "register"
    BY <2>1, <2>2, <2>3 DEF Locals, Unregistered, Register, At
  <2>5. th' = [th EXCEPT ![t] = r]  BY <2>1, <2>2 DEF Goto
  <2>6. (Owned(d) => Owned(d)') /\ (Parked(d) => Parked(d)')  BY <2>1 DEF Owned, Parked
  <2>7. Fresh(th[t], d) => Fresh(r, d)  BY <2>4 DEF Fresh
  <2> QED BY <2>4, <2>5, <2>6, <2>7, HeldMove DEF Owed, Sweeps
<1> QED BY <1>1, <1>2

\* What keeps the channels in their owners' hands, and the parked ones parked.
LEMMA HeldSame ==
    ASSUME NEW d
    PROVE  /\ UNCHANGED chans => (Owned(d) => Owned(d)')
           /\ UNCHANGED orphans => (Parked(d) => Parked(d)')
  BY DEF Owned, Parked

LEMMA HeldOrphan ==
    ASSUME TypeOK, NEW d, Held(d), NEW w \in Workers, Orphan(w)
    PROVE  Held(d)'
<1>1. w \in Threads  BY WorkerThread
<1>2. orphans \in Seq(RtcIds) /\ orphans' = Append(orphans, th[w].dc)
  BY DEF Orphan, TypeOK, TablesOK
<1>3. Parked(d) \/ th[w].dc = d => Parked(d)'  BY <1>2, ElemsAppend DEF Parked
<1>4. Owned(d) => Owned(d)'  BY HeldSame DEF Orphan
<1>5. th' = [th EXCEPT ![w] = Idle] /\ w # Script  BY ShimAssumption DEF Orphan, Return
<1> QED BY <1>1, <1>3, <1>4, <1>5, HeldMove DEF Fresh

\* A channel whose peer went away is parked as its handle is freed.
LEMMA HeldRevalidate ==
    ASSUME TypeOK, HandInv, NEW d, Held(d), NEW w \in Workers, Revalidate(w)
    PROVE  Held(d)'
<1>1. w \in Threads /\ w # Script /\ th[w].pc = "revalidate"
  BY WorkerThread, ShimAssumption DEF Revalidate, At
<1>2. th' = [th EXCEPT ![w] = Idle]  BY DEF Revalidate, Return
<1>3. (Owned(d) => Owned(d)' \/ Parked(d)') /\ (Parked(d) => Parked(d)')
  <2>1. CASE Get(peers, th[w].peer) # Null  BY <2>1, HeldSame DEF Revalidate
  <2>2. CASE Get(peers, th[w].peer) = Null
    <3>1. PICK h : h = th[w].chan  OBVIOUS
    <3>2. chans' = Free(chans, h) /\ orphans' = Append(orphans, th[w].dc) /\ orphans \in Seq(RtcIds)
      BY <2>2, <3>1 DEF Revalidate, TypeOK, TablesOK
    <3>3. Parked(d) \/ th[w].dc = d => Parked(d)'  BY <3>2, ElemsAppend DEF Parked
    <3>4. HoldsItsOwn(th[w])  BY <1>1 DEF HandInv, AfterRegister
    <3>5. Get(chans, h) # Null => Get(chans, h).rtc = th[w].dc
      BY <3>1, <3>4, DeadGone DEF HoldsItsOwn, Names
    <3> QED BY <3>2, <3>3, <3>5, OwnedFree
  <2> QED BY <2>1, <2>2
<1> QED BY <1>1, <1>2, <1>3, HeldMove DEF Fresh, Unregistered

LEMMA HeldLookup ==
    ASSUME TypeOK, NEW d, Held(d), NEW w \in Workers, Lookup(w)
    PROVE  Held(d)'
<1>1. w \in Threads /\ w # Script /\ th[w].pc = "lookup" /\ th[w] \in Locals
  BY WorkerThread, ShimAssumption, Local DEF Lookup, At
<1>2. PICK r : r = [th[w] EXCEPT !.pc = IF rtcPeer[th[w].obj] = NoHandle THEN "orphan" ELSE "register",
                                 !.peer = rtcPeer[th[w].obj]]
  OBVIOUS
<1>3. r.pc \in Unregistered /\ r.dc = th[w].dc  BY <1>1, <1>2 DEF Locals, Unregistered
<1>4. th' = [th EXCEPT ![w] = r]  BY <1>2 DEF Lookup
<1>5. Fresh(th[w], d) => Fresh(r, d)  BY <1>3 DEF Fresh
<1>6. (Owned(d) => Owned(d)') /\ (Parked(d) => Parked(d)')
  BY HeldSame DEF Lookup, shimVars
<1> QED BY <1>1, <1>4, <1>5, <1>6, HeldMove

\* The script frees a channel's handle and owes its deletion.
LEMMA HeldFreed ==
    ASSUME TypeOK, NEW d, Held(d), NEW r, th' = [th EXCEPT ![Script] = r], th[Script].pc \notin Unregistered,
           NEW h, chans' = Free(chans, h), UNCHANGED orphans,
           Owed(th[Script], d) => Owed(r, d), Get(chans, h).rtc = d => Owed(r, d)
    PROVE  Held(d)'
  BY OwnedFree, HeldSame, HeldMove, ScriptThread DEF Fresh

LEMMA HeldChannelFree ==
    ASSUME TypeOK, NEW d, Held(d), NEW h, ChannelFree(h)
    PROVE  Held(d)'
<1>1. PICK e : e = Get(chans, h).rtc  OBVIOUS
<1>2. PICK r : r = [Idle EXCEPT !.pc = "rtc", !.kind = "channel_free", !.ks = Kinds,
                                !.todo = ClearAndDelete(<<e>>)]
  OBVIOUS
<1>3. r.pc = "rtc" /\ r.todo = ClearAndDelete(<<e>>)  BY <1>2, IdleTyped DEF Idle
<1>4. e \in RtcIds  BY <1>1, ChannelEntry DEF ChannelFree, ChannelObjects
<1>5. <<e>> \in Seq(RtcIds) /\ e \in Elems(<<e>>)  BY <1>4 DEF Elems
<1>6. e = d => Owed(r, d)  BY <1>3, <1>5, ElemsClearAndDelete DEF Owed
<1>7. th' = [th EXCEPT ![Script] = r] /\ chans' = Free(chans, h) /\ UNCHANGED orphans
  BY <1>1, <1>2 DEF ChannelFree
<1>8. th[Script].pc = "idle"  BY DEF ChannelFree, At
<1> QED BY <1>1, <1>6, <1>7, <1>8, HeldFreed DEF Owed, Sweeps, Unregistered

LEMMA HeldSwept ==
    ASSUME TypeOK, NEW d, Held(d), PeerFreeSweep \/ CleanupChannel
    PROVE  Held(d)'
<1> DEFINE c == th[Script]
<1>1. PICK h : /\ chans' = Free(chans, h)
               /\ th' = [th EXCEPT ![Script].dcs = Append(@, Get(chans, h).rtc)]
  BY DEF PeerFreeSweep, CleanupChannel
<1>2. c \in Locals /\ c.dcs \in Seq(RtcIds) /\ c.pc \in Sweeps /\ UNCHANGED orphans
  BY ScriptThread, Local DEF PeerFreeSweep, CleanupChannel, At, Sweeps
<1>3. PICK e : e = Get(chans, h).rtc  OBVIOUS
<1>4. PICK r : r = [c EXCEPT !.dcs = Append(@, e)]  OBVIOUS
<1>5. r.pc = c.pc /\ r.dcs = Append(c.dcs, e)  BY <1>2, <1>4 DEF Locals
<1>6. th' = [th EXCEPT ![Script] = r]  BY <1>1, <1>3, <1>4
<1>7. Elems(c.dcs) \subseteq Elems(r.dcs) /\ e \in Elems(r.dcs)
  BY <1>2, <1>5, ElemsAppend
<1>8. Owed(c, d) \/ e = d => Owed(r, d)  BY <1>2, <1>5, <1>7 DEF Owed, Sweeps
<1> QED BY <1>1, <1>2, <1>3, <1>6, <1>8, HeldFreed DEF Sweeps, Unregistered

\* The script's own moves, from a label at which it has no channel to register.
LEMMA HeldScript ==
    ASSUME TypeOK, NEW d, Held(d), NEW r, th' = [th EXCEPT ![Script] = r], th[Script].pc \notin Unregistered,
           UNCHANGED chans, Parked(d) => Parked(d)' \/ Owed(r, d), Owed(th[Script], d) => Owed(r, d)
    PROVE  Held(d)'
  BY HeldSame, HeldMove, ScriptThread DEF Fresh

LEMMA HeldCleanupPeer ==
    ASSUME TypeOK, NEW d, Held(d), CleanupPeer
    PROVE  Held(d)'
<1>1. PICK r : r = [th[Script] EXCEPT !.pcs = Append(@, Get(peers, FirstHandle(LiveHandles(peers))).rtc)]
  OBVIOUS
<1>2. th[Script] \in Locals /\ th[Script].pc = "cl_sweep"
  BY ScriptThread, Local DEF CleanupPeer, At
<1>3. r.pc = th[Script].pc /\ r.dcs = th[Script].dcs  BY <1>1, <1>2 DEF Locals
<1>4. th' = [th EXCEPT ![Script] = r] /\ UNCHANGED <<chans, orphans>>
  BY <1>1 DEF CleanupPeer
<1> QED BY <1>2, <1>3, <1>4, HeldSame, HeldScript DEF Owed, Sweeps, Unregistered

LEMMA HeldPeerFreeDone ==
    ASSUME TypeOK, NEW d, Held(d), PeerFreeDone
    PROVE  Held(d)'
<1> DEFINE c == th[Script]
<1>1. PICK todo : todo = Teardown(c.obj, c.dcs)  OBVIOUS
<1>2. PICK r : r = [c EXCEPT !.pc = "rtc", !.ks = Kinds, !.todo = todo]  OBVIOUS
<1>3. c \in Locals /\ c.pc = "pf_sweep" /\ c.dcs \in Seq(RtcIds) /\ c.obj \in AnyRtcId
  BY ScriptThread, Local DEF PeerFreeDone, At
<1>4. r.pc = "rtc" /\ r.todo = todo  BY <1>2, <1>3 DEF Locals
<1>5. th' = [th EXCEPT ![Script] = r] /\ UNCHANGED <<chans, orphans>>
  BY <1>1, <1>2 DEF PeerFreeDone
<1>6. d \in Elems(c.dcs) => DeleteOf(d) \in Elems(todo)
  <2>1. <<c.obj>> \in Seq(AnyRtcId)  BY <1>3
  <2>2. Clear(<<c.obj>>) \in Seq(Calls) /\ Delete(<<c.obj>>) \in Seq(Calls)
    BY <2>1, AnyCallsTyped
  <2>3. PICK a : a = Clear(<<c.obj>>)  OBVIOUS
  <2>4. PICK m : m = ClearAndDelete(c.dcs)  OBVIOUS
  <2>5. PICK b : b = Delete(<<c.obj>>)  OBVIOUS
  <2>6. a \in Seq(Calls) /\ m \in Seq(Calls) /\ b \in Seq(Calls) /\ todo = a \o m \o b
    BY <1>1, <1>3, <2>2, <2>3, <2>4, <2>5, CallsTyped DEF Teardown
  <2>7. Elems(m) \subseteq Elems(a \o m) /\ a \o m \in Seq(Calls)  BY <2>6, ElemsCat
  <2>8. Elems(a \o m) \subseteq Elems(todo)  BY <2>6, <2>7, ElemsCat
  <2> QED BY <1>3, <2>4, <2>7, <2>8, ElemsClearAndDelete
<1> QED BY <1>3, <1>4, <1>5, <1>6, HeldSame, HeldScript DEF Owed, Sweeps, Unregistered

LEMMA HeldCleanupReset ==
    ASSUME TypeOK, NEW d, Held(d), CleanupReset
    PROVE  Held(d)'
<1> DEFINE c == th[Script]
<1>1. PICK ds : ds = c.dcs \o orphans  OBVIOUS
<1>2. PICK last : last = <<[op |-> "cleanup", id |-> 0], [op |-> "join", id |-> 0]>>
  OBVIOUS
<1>3. PICK todo : todo = Clear(c.pcs) \o Clear(ds) \o Delete(ds) \o Delete(c.pcs) \o last
  OBVIOUS
<1>4. PICK r : r = [c EXCEPT !.pc = "rtc", !.ks = Kinds, !.todo = todo]  OBVIOUS
<1>5. c \in Locals /\ c.pc = "cl_sweep" /\ c.dcs \in Seq(RtcIds) /\ c.pcs \in Seq(RtcIds) /\ orphans \in Seq(RtcIds)
  BY ScriptThread, Local DEF CleanupReset, At, TypeOK, TablesOK
<1>6. r.pc = "rtc" /\ r.todo = todo  BY <1>4, <1>5, SMTT(30) DEF Locals
<1>7. th' = [th EXCEPT ![Script] = r] /\ UNCHANGED chans
  BY <1>1, <1>2, <1>3, <1>4 DEF CleanupReset
<1>8. ds \in Seq(RtcIds) /\ Elems(c.dcs) \subseteq Elems(ds) /\ Elems(orphans) \subseteq Elems(ds)
  BY <1>1, <1>5, ElemsCat
<1>9. d \in Elems(ds) => DeleteOf(d) \in Elems(todo)
  <2>1. last \in Seq(Calls)
    <3>1. [op |-> "cleanup", id |-> 0] \in Calls /\ [op |-> "join", id |-> 0] \in Calls
      BY DEF Calls, AnyRtcId
    <3> QED BY <1>2, <3>1
  <2>2. PICK a : a = Clear(c.pcs)  OBVIOUS
  <2>3. PICK b : b = Clear(ds)  OBVIOUS
  <2>4. PICK m : m = Delete(ds)  OBVIOUS
  <2>5. PICK n : n = Delete(c.pcs)  OBVIOUS
  <2>6. a \in Seq(Calls) /\ b \in Seq(Calls) /\ m \in Seq(Calls) /\ n \in Seq(Calls)
    BY <1>5, <1>8, <2>2, <2>3, <2>4, <2>5, CallsTyped
  <2>7. PICK ab : ab = a \o b  OBVIOUS
  <2>8. PICK abm : abm = ab \o m  OBVIOUS
  <2>9. PICK abmn : abmn = abm \o n  OBVIOUS
  <2>10. ab \in Seq(Calls) /\ abm \in Seq(Calls) /\ abmn \in Seq(Calls)
    BY <2>6, <2>7, <2>8, <2>9
  <2>11. todo = abmn \o last  BY <1>3, <2>2, <2>3, <2>4, <2>5, <2>7, <2>8, <2>9
  <2>12. Elems(m) \subseteq Elems(abm)  BY <2>6, <2>8, <2>10, ElemsCat
  <2>13. Elems(abm) \subseteq Elems(abmn)  BY <2>6, <2>9, <2>10, ElemsCat
  <2>14. Elems(abmn) \subseteq Elems(todo)  BY <2>1, <2>10, <2>11, ElemsCat
  <2> QED BY <1>8, <2>4, <2>12, <2>13, <2>14, ElemsDelete
<1> QED BY <1>5, <1>6, <1>7, <1>8, <1>9, HeldScript DEF Owed, Sweeps, Unregistered, Parked

LEMMA HeldPoll ==
    ASSUME TypeOK, NEW d, Held(d), NEW again, Poll(again), th[Script].pc \in {"idle", "retry"}
    PROVE  Held(d)'
<1>1. PICK r : r = [Idle EXCEPT !.pc = "rtc", !.kind = "poll", !.ks = Kinds,
                                !.todo = ClearAndDelete(orphans), !.again = again]
  OBVIOUS
<1>2. r.pc = "rtc" /\ r.todo = ClearAndDelete(orphans)  BY <1>1 DEF Idle
<1>3. th' = [th EXCEPT ![Script] = r] /\ UNCHANGED chans  BY <1>1 DEF Poll
<1>4. orphans \in Seq(RtcIds)  BY DEF TypeOK, TablesOK
<1>5. Parked(d) => Owed(r, d)  BY <1>2, <1>4, ElemsClearAndDelete DEF Parked, Owed
<1> QED BY <1>3, <1>5, HeldScript DEF Owed, Sweeps, Unregistered

\* The rtc calls the script owes: the head's is done, and was no deletion of d.
LEMMA HeldPopped ==
    ASSUME TypeOK, NEW d, Held(d), NEW op, Owes(op), UNCHANGED <<chans, orphans>>,
           NEW ks, th' = [th EXCEPT ![Script] = [th[Script] EXCEPT !.todo = Tail(@), !.ks = ks]],
           Head(th[Script].todo) # DeleteOf(d)
    PROVE  Held(d)'
<1> DEFINE c == th[Script]
<1>1. PICK r : r = [c EXCEPT !.todo = Tail(@), !.ks = ks]  OBVIOUS
<1>2. c \in Locals /\ c.todo \in Seq(Calls) /\ c.pc = "rtc" /\ c.todo # <<>>
  BY ScriptThread, Local DEF Owes, At
<1>3. r.pc = "rtc" /\ r.todo = Tail(c.todo)  BY <1>1, <1>2 DEF Locals
<1>4. Elems(c.todo) \subseteq {Head(c.todo)} \cup Elems(r.todo)  BY <1>2, <1>3, ElemsTail
<1>5. Owed(c, d) => Owed(r, d)  BY <1>2, <1>3, <1>4 DEF Owed, Sweeps
<1>6. th' = [th EXCEPT ![Script] = r]  BY <1>1
<1> QED BY <1>2, <1>5, <1>6, HeldSame, HeldScript DEF Unregistered

LEMMA HeldTodo ==
    ASSUME TypeOK, NEW d \in RtcIds, Held(d), Exists(d)',
           ClearCallback \/ DeleteObject \/ RtcCleanup \/ RtcJoin \/ RtcDone
    PROVE  Held(d)'
<1> DEFINE c == th[Script]
<1>1. c \in Locals /\ c.pc = "rtc"
  BY ScriptThread, Local, ZenonT(30) DEF ClearCallback, DeleteObject, RtcCleanup, RtcJoin, RtcDone, Owes, At
<1>2. UNCHANGED <<chans, orphans>>
  BY DEF ClearCallback, DeleteObject, RtcCleanup, RtcJoin, RtcDone, shimVars
<1>3. ASSUME th' = [th EXCEPT ![Script].todo = Tail(@)]
      PROVE  th' = [th EXCEPT ![Script] = [c EXCEPT !.todo = Tail(@), !.ks = c.ks]]
  <2>1. [c EXCEPT !.todo = Tail(@)] = [c EXCEPT !.todo = Tail(@), !.ks = c.ks]
    BY <1>1 DEF Locals
  <2> QED BY <1>3, <2>1
<1>4. ASSUME NEW op, Owes(op), op # "delete", th' = [th EXCEPT ![Script].todo = Tail(@)]
      PROVE  Held(d)'
  <2>1. Head(c.todo) # DeleteOf(d)  BY <1>4 DEF Owes, DeleteOf
  <2> QED BY <1>2, <1>3, <1>4, <2>1, HeldPopped, Zenon
<1>5. CASE ClearCallback
  <2>1. PICK left : left = c.ks \cap Elems(IF IsPc(Head(c.todo).id) THEN PeerCallbacks ELSE ChannelCallbacks)
    OBVIOUS
  <2>2. CASE left = {}
    <3>1. th' = [th EXCEPT ![Script] = [c EXCEPT !.todo = Tail(@), !.ks = Kinds]]
      BY <1>5, <2>1, <2>2 DEF ClearCallback
    <3>2. Owes("clear")  BY <1>5 DEF ClearCallback
    <3>3. Head(c.todo).op = "clear"  BY <3>2 DEF Owes
    <3>4. Head(c.todo) # DeleteOf(d)  BY <3>3 DEF DeleteOf
    <3> QED BY <1>2, <3>1, <3>2, <3>4, HeldPopped, Zenon
  <2>3. CASE left # {}
    <3>1. PICK k : th' = [th EXCEPT ![Script].ks = @ \ {k}]
      BY <1>5, <2>1, <2>3, Zenon DEF ClearCallback
    <3>2. PICK r : r = [c EXCEPT !.ks = @ \ {k}]  OBVIOUS
    <3>3. r.pc = c.pc /\ r.todo = c.todo  BY <1>1, <3>2 DEF Locals
    <3>4. th' = [th EXCEPT ![Script] = r]  BY <3>1, <3>2
    <3> QED BY <1>1, <1>2, <3>3, <3>4, HeldSame, HeldScript, Zenon DEF Owed, Sweeps, Unregistered
  <2> QED BY <2>2, <2>3
<1>6. CASE DeleteObject
  <2>1. CASE Head(c.todo).id = d
    <3>1. rtc'[d] = [rtc[d] EXCEPT !.st = "deleted"] /\ rtc[d] \in RtcObjects
      BY <1>6, <2>1 DEF DeleteObject, TypeOK, LibraryOK
    <3>2. rtc'[d].st = "deleted"  BY <3>1 DEF RtcObjects
    <3> QED BY <3>2 DEF Exists
  <2>2. CASE Head(c.todo).id # d
    <3>1. Owes("delete") /\ th' = [th EXCEPT ![Script].todo = Tail(@)] /\ Head(c.todo) # DeleteOf(d)
      BY <1>6, <2>2 DEF DeleteObject, DeleteOf
    <3> QED BY <1>2, <1>3, <3>1, HeldPopped, Zenon
  <2> QED BY <2>1, <2>2
<1>7. CASE RtcCleanup \/ RtcJoin  BY <1>4, <1>7 DEF RtcCleanup, RtcJoin
<1>8. CASE RtcDone
  <2>1. c.todo = <<>>  BY <1>8 DEF RtcDone
  <2>2. ~Owed(c, d)  BY <1>1, <2>1 DEF Owed, Sweeps, Elems
  <2>3. PICK r : th' = [th EXCEPT ![Script] = r]  BY <1>8 DEF RtcDone, Goto, Return
  <2> QED BY <1>1, <1>2, <2>2, <2>3, HeldSame, HeldScript DEF Unregistered
<1> QED BY <1>5, <1>6, <1>7, <1>8, SMTT(30)

LEMMA RisesByObject ==
    ASSUME TypeOK, NEW d \in RtcIds,
           \/ UNCHANGED rtc
           \/ rtc'[d].st = "deleted" \/ rtc'[d].kind # "dc"
           \/ rtc[d].kind = rtc'[d].kind /\ rtc[d].st # "deleted"
    PROVE  Rises(d)
  BY DEF Rises, Lives, IsDc, Exists

\* A write of the status, or of what was told, of an object that exists.
LEMMA RisesByWrite ==
    ASSUME TypeOK, NEW d \in RtcIds, NEW e, NEW o, rtc' = [rtc EXCEPT ![e] = o],
           e \in RtcIds => \/ o.st = "deleted" \/ o.kind # "dc"
                           \/ o.kind = rtc[e].kind /\ rtc[e].st # "deleted"
    PROVE  Rises(d)
<1>1. rtc'[d] = IF d = e THEN o ELSE rtc[d]  BY DEF TypeOK, LibraryOK
<1> QED BY <1>1, RisesByObject DEF Rises, Lives, IsDc, Exists

LEMMA RtcTyped ==
    ASSUME TypeOK, NEW e \in RtcIds
    PROVE  rtc[e] \in RtcObjects
  BY DEF TypeOK, LibraryOK

LEMMA LibraryRises ==
    ASSUME TypeOK, NEW d \in RtcIds, Library
    PROVE  Rises(d)
<1>1. ASSUME NEW e \in RtcIds, RtcChannelOpens(e) \/ RtcChannelCloses(e) PROVE Rises(d)
  <2>1. PICK s : rtc' = [rtc EXCEPT ![e].st = s]
    BY <1>1 DEF RtcChannelOpens, RtcChannelCloses
  <2>2. PICK o : o = [rtc[e] EXCEPT !.st = s]  OBVIOUS
  <2>3. o.kind = rtc[e].kind  BY <2>2, RtcTyped DEF RtcObjects
  <2>4. rtc' = [rtc EXCEPT ![e] = o] /\ rtc[e].st # "deleted"
    BY <1>1, <2>1, <2>2 DEF RtcChannelOpens, RtcChannelCloses
  <2> QED BY <2>3, <2>4, RisesByWrite
<1>2. ASSUME NEW w \in Workers, NEW e \in RtcIds, NEW k \in Kinds, Fire(w, e, k) PROVE Rises(d)
  <2>1. PICK o : o = [rtc[e] EXCEPT !.told = @ \cup ({k} \cap ToldOnce)]  OBVIOUS
  <2>2. o.kind = rtc[e].kind  BY <2>1, RtcTyped DEF RtcObjects
  <2>3. rtc' = [rtc EXCEPT ![e] = o] /\ rtc[e].st # "deleted"
    BY <1>2, <2>1 DEF Fire, Exists
  <2> QED BY <2>2, <2>3, RisesByWrite
<1>3. ASSUME NEW w \in Workers, NEW p \in RtcIds, NEW e \in RtcIds, FireDataChannel(w, p, e) PROVE Rises(d)
  <2>1. PICK n : th' = [th EXCEPT ![w] = [Idle EXCEPT !.pc = "lookup", !.obj = p, !.dc = e,
                                                      !.kind = "DATA_CHANNEL", !.n = n]]
    BY <1>3, Zenon DEF FireDataChannel
  <2>2. PICK r : r = [Idle EXCEPT !.pc = "lookup", !.obj = p, !.dc = e, !.kind = "DATA_CHANNEL", !.n = n]
    OBVIOUS
  <2>3. r.pc = "lookup" /\ r.dc = e  BY <2>2 DEF Idle
  <2>4. th'[w] = r /\ w \in Threads  BY <2>1, <2>2, WorkerThread, ThreadSet
  <2>5. Fresh(th'[w], e)  BY <2>3, <2>4 DEF Fresh, Unregistered
  <2>6. CASE d = e  BY <2>4, <2>5, <2>6 DEF Rises
  <2>7. CASE d # e
    <3>1. rtc'[d] = rtc[d]  BY <1>3, <2>7 DEF FireDataChannel, TypeOK, LibraryOK
    <3> QED BY <3>1 DEF Rises, Lives, IsDc, Exists
  <2> QED BY <2>6, <2>7
<1> QED BY <1>1, <1>2, <1>3 DEF Library

LEMMA CallRises ==
    ASSUME TypeOK, NEW d \in RtcIds, Call
    PROVE  Rises(d)
<1>1. ASSUME NEW p, PeerNew(p) PROVE Rises(d)
  <2>1. PICK o : o = Object("pc", "open", 0)  OBVIOUS
  <2>2. rtc' = [rtc EXCEPT ![p] = o] /\ o.kind # "dc"  BY <1>1, <2>1 DEF PeerNew, Object
  <2> QED BY <2>2, RisesByWrite
<1>2. ASSUME NEW h, PeerClose(h) PROVE Rises(d)
  <2>1. PICK s : (rtc'[d] = [rtc[d] EXCEPT !.st = s] /\ Exists(d)) \/ rtc'[d] = rtc[d]
    BY <1>2 DEF PeerClose
  <2>2. rtc'[d] # rtc[d] => rtc'[d].kind = rtc[d].kind /\ rtc[d].st # "deleted"
    BY <2>1, RtcTyped DEF RtcObjects, Exists
  <2> QED BY <2>2, RisesByObject DEF Rises, Lives, IsDc, Exists
<1>3. ASSUME NEW h, NEW e \in RtcIds, ChannelNew(h, e) PROVE Rises(d)
  <2>1. PICK r : r = [Idle EXCEPT !.pc = "register", !.dc = e, !.peer = h]  OBVIOUS
  <2>2. r.pc = "register" /\ r.dc = e  BY <2>1 DEF Idle
  <2>3. th' = [th EXCEPT ![Script] = r]  BY <1>3, <2>1 DEF ChannelNew
  <2>4. th'[Script] = r  BY <2>3, ScriptThread, ThreadSet
  <2>5. CASE d = e  BY <2>2, <2>4, <2>5, ScriptThread DEF Rises, Fresh, Unregistered
  <2>6. CASE d # e
    <3>1. rtc'[d] = rtc[d]  BY <1>3, <2>6 DEF ChannelNew, TypeOK, LibraryOK
    <3> QED BY <3>1 DEF Rises, Lives, IsDc, Exists
  <2> QED BY <2>5, <2>6
<1>4. ASSUME NEW h, ChannelClose(h) PROVE Rises(d)
  <2>1. PICK e : e = Get(chans, h).rtc  OBVIOUS
  <2>2. PICK o : o = [rtc[e] EXCEPT !.st = "closed"]  OBVIOUS
  <2>3. e \in RtcIds  BY <1>4, <2>1, ChannelEntry DEF ChannelClose, ChannelObjects
  <2>4. o.kind = rtc[e].kind  BY <2>2, <2>3, RtcTyped DEF RtcObjects
  <2>5. rtc' = [rtc EXCEPT ![e] = o] /\ rtc[e].st # "deleted"
    BY <1>4, <2>1, <2>2 DEF ChannelClose, Exists
  <2> QED BY <2>4, <2>5, RisesByWrite
<1>5. ASSUME NEW h, PeerFreeLock(h) \/ SetBufferedLow(h) \/ ChannelFree(h) \/ CleanupLock PROVE Rises(d)
  BY <1>5, RisesByObject DEF PeerFreeLock, SetBufferedLow, ChannelFree, CleanupLock, rtcVars
<1> QED BY <1>1, <1>2, <1>3, <1>4, <1>5 DEF Call

LEMMA ScriptRises ==
    ASSUME TypeOK, NEW d \in RtcIds, ScriptStep /\ ~PollRetry
    PROVE  Rises(d)
<1>1. ASSUME UNCHANGED rtc PROVE Rises(d)  BY <1>1, RisesByObject
<1>2. ASSUME NEW e, rtc' = [rtc EXCEPT ![e].st = "deleted"] PROVE Rises(d)
  <2>1. PICK o : o = [rtc[e] EXCEPT !.st = "deleted"]  OBVIOUS
  <2>2. e \in RtcIds => o.st = "deleted"  BY <2>1, RtcTyped DEF RtcObjects
  <2>3. rtc' = [rtc EXCEPT ![e] = o]  BY <1>2, <2>1
  <2> QED BY <2>2, <2>3, RisesByWrite
<1>3. CASE PeerRefused \/ ChannelRefused  BY <1>2, <1>3 DEF PeerRefused, ChannelRefused
<1>4. CASE DeleteObject
  <2>1. PICK e : e = Head(th[Script].todo).id  OBVIOUS
  <2>2. rtc'[d] = IF d = e THEN [rtc[d] EXCEPT !.st = "deleted"]
                  ELSE IF d \in Family(e) /\ Exists(d) THEN [rtc[d] EXCEPT !.st = "closed"] ELSE rtc[d]
    BY <1>4, <2>1 DEF DeleteObject
  <2>3. rtc[d] \in RtcObjects  BY RtcTyped
  <2>4. CASE d = e
    <3>1. rtc'[d].st = "deleted"  BY <2>2, <2>3, <2>4 DEF RtcObjects
    <3> QED BY <3>1, RisesByObject
  <2>5. CASE d # e /\ d \in Family(e) /\ Exists(d)
    <3>1. rtc'[d].kind = rtc[d].kind /\ rtc[d].st # "deleted"
      BY <2>2, <2>3, <2>5 DEF RtcObjects, Exists
    <3> QED BY <3>1, RisesByObject
  <2>6. CASE rtc'[d] = rtc[d]  BY <2>6 DEF Rises, Lives, IsDc, Exists
  <2> QED BY <2>2, <2>4, <2>5, <2>6
<1>5. CASE RtcCleanup
  <2>1. rtc'[d] = IF Exists(d) THEN [rtc[d] EXCEPT !.st = "deleted"] ELSE rtc[d]
    BY <1>5 DEF RtcCleanup
  <2>2. CASE Exists(d)
    <3>1. rtc'[d].st = "deleted"  BY <2>1, <2>2, RtcTyped DEF RtcObjects
    <3> QED BY <3>1, RisesByObject
  <2>3. CASE ~Exists(d)  BY <2>1, <2>3 DEF Rises, Lives, IsDc, Exists
  <2> QED BY <2>2, <2>3
<1>6. CASE PeerAlloc \/ WirePeer \/ Register(Script) \/ WireChannel(Script) \/ CheckOpen(Script) \/ AnnounceOpen(Script)
  BY <1>1, <1>6, SMTT(30) DEF PeerAlloc, WirePeer, Register, WireChannel, CheckOpen, AnnounceOpen, rtcVars
<1>7. CASE ClearCallback \/ RtcJoin \/ RtcDone
  BY <1>1, <1>7, SMTT(30) DEF ClearCallback, RtcJoin, RtcDone, rtcVars
<1>8. CASE PeerFreeSweep \/ PeerFreeDone \/ CleanupChannel \/ CleanupPeer \/ CleanupReset
  BY <1>1, <1>8 DEF PeerFreeSweep, PeerFreeDone, CleanupChannel, CleanupPeer, CleanupReset, rtcVars
<1>9. CASE DrainLock \/ DrainDiscard \/ DrainDeliver \/ DrainEnd
  BY <1>1, <1>9 DEF DrainLock, DrainDiscard, DrainDeliver, DrainEnd, rtcVars
<1> QED BY <1>3, <1>4, <1>5, <1>6, <1>7, <1>8, <1>9 DEF ScriptStep

LEMMA NextRises ==
    ASSUME TypeOK, NEW d \in RtcIds, [Next]_vars
    PROVE  Rises(d)
<1>1. ASSUME NEW w, CallbackStep(w) PROVE Rises(d)
  BY <1>1, RisesByObject DEF CallbackStep, PeerCallback, ChannelCallback, OpenCallback, Lookup, Orphan,
     Revalidate, Register, WireChannel, CheckOpen, AnnounceOpen, rtcVars
<1>2. CASE PollStart \/ PollRetry
  BY <1>2, RisesByObject DEF PollStart, PollRetry, Poll, rtcVars
<1>3. CASE UNCHANGED vars  BY <1>3, RisesByObject DEF vars, rtcVars
<1> QED BY <1>1, <1>2, <1>3, LibraryRises, CallRises, ScriptRises DEF Next

LEMMA HeldNext ==
    ASSUME TypeOK, MapsInv, HandInv, [Next]_vars, NEW d \in RtcIds, Held(d), Exists(d)', IsDc(d)
    PROVE  Held(d)'
<1>1. ASSUME UNCHANGED <<chans, orphans, th>> PROVE Held(d)'  BY <1>1, HeldStill, HeldSame
<1>2. ASSUME NEW t \in Threads, \E r : th' = [th EXCEPT ![t] = r], UNCHANGED <<chans, orphans>>,
             th[t].pc \notin Unregistered \cup Sweeps \cup {"rtc"}
      PROVE  Held(d)'
  BY <1>2, HeldPlain, HeldSame
<1>3. ASSUME NEW t \in Threads, WireChannel(t) \/ CheckOpen(t) PROVE Held(d)'
  <2>1. \E r : th' = [th EXCEPT ![t] = r]
    BY <1>3 DEF WireChannel, CheckOpen, Registered, Goto, Return
  <2>2. UNCHANGED <<chans, orphans>>  BY <1>3 DEF WireChannel, CheckOpen, shimVars
  <2>3. th[t].pc \in {"wire", "isopen"}  BY <1>3 DEF WireChannel, CheckOpen, At
  <2> QED BY <1>2, <2>1, <2>2, <2>3 DEF Unregistered, Sweeps
<1>4. ASSUME NEW t \in Threads, AnnounceOpen(t) \/ OpenCallback(t) PROVE Held(d)'
  <2>1. \E r : th' = [th EXCEPT ![t] = r]
    BY <1>4 DEF AnnounceOpen, OpenCallback, Registered, Goto, Return
  <2>2. UNCHANGED orphans  BY <1>4 DEF AnnounceOpen, OpenCallback
  <2>3. th[t].pc \in {"announce", "body"}  BY <1>4 DEF AnnounceOpen, OpenCallback, At
  <2>4. \E h : \E p : Announce(h, Get(chans, h), p)
    BY <1>4 DEF AnnounceOpen, OpenCallback
  <2>5. Owned(d) => Owned(d)'  BY <2>4, OwnedAnnounce
  <2> QED BY <2>1, <2>2, <2>3, <2>5, HeldPlain, HeldSame DEF Unregistered, Sweeps
<1>5. CASE Library
  <2>1. ASSUME NEW e \in RtcIds, RtcChannelOpens(e) \/ RtcChannelCloses(e) PROVE Held(d)'
    BY <1>1, <2>1 DEF RtcChannelOpens, RtcChannelCloses, shimVars
  <2>2. ASSUME NEW w \in Workers, NEW p, NEW e, NEW k, Fire(w, e, k) \/ FireDataChannel(w, p, e) PROVE Held(d)'
    <3>1. \E r : th' = [th EXCEPT ![w] = r]  BY <2>2, Zenon DEF Fire, FireDataChannel
    <3>2. UNCHANGED <<chans, orphans>> /\ th[w].pc = "idle"
      BY <2>2, Zenon DEF Fire, FireDataChannel, shimVars, At
    <3> QED BY <1>2, <3>1, <3>2, WorkerThread DEF Unregistered, Sweeps
  <2> QED BY <1>5, <2>1, <2>2 DEF Library
<1>6. ASSUME NEW w \in Workers, CallbackStep(w) PROVE Held(d)'
  <2>0. w \in Threads  BY WorkerThread
  <2>1. CASE PeerCallback(w) \/ ChannelCallback(w)
    <3>1. \E r : th' = [th EXCEPT ![w] = r]
      BY <2>1 DEF PeerCallback, ChannelCallback, Return
    <3>2. UNCHANGED <<chans, orphans>> /\ th[w].pc = "body"
      BY <2>1 DEF PeerCallback, ChannelCallback, shimVars, At
    <3> QED BY <1>2, <2>0, <3>1, <3>2 DEF Unregistered, Sweeps
  <2> QED
    BY <1>3, <1>4, <1>6, <2>0, <2>1, HeldLookup, HeldOrphan, HeldRevalidate, HeldRegister DEF CallbackStep
<1>7. CASE Call
  <2>1. ASSUME NEW h, PeerClose(h) \/ ChannelClose(h) \/ SetBufferedLow(h) PROVE Held(d)'
    BY <1>1, <2>1 DEF PeerClose, ChannelClose, SetBufferedLow, shimVars
  <2>2. ASSUME NEW h, NEW e, PeerNew(e) \/ PeerFreeLock(h) \/ ChannelNew(h, e) \/ CleanupLock PROVE Held(d)'
    <3>1. \E r : th' = [th EXCEPT ![Script] = r]
      BY <2>2 DEF PeerNew, PeerFreeLock, ChannelNew, CleanupLock
    <3>2. UNCHANGED <<chans, orphans>> /\ th[Script].pc = "idle"
      BY <2>2 DEF PeerNew, PeerFreeLock, ChannelNew, CleanupLock, shimVars, At
    <3> QED BY <1>2, <3>1, <3>2, ScriptThread DEF Unregistered, Sweeps
  <2> QED BY <1>7, <2>1, <2>2, HeldChannelFree DEF Call
<1>8. CASE PollStart \/ PollRetry  BY <1>8, HeldPoll DEF PollStart, PollRetry, At
<1>9. CASE ScriptStep /\ ~PollRetry
  <2>1. CASE PeerAlloc \/ WirePeer \/ PeerRefused
    <3>1. \E r : th' = [th EXCEPT ![Script] = r]
      BY <2>1 DEF PeerAlloc, WirePeer, PeerRefused, Goto, Return
    <3>2. UNCHANGED <<chans, orphans>> /\ th[Script].pc \in PeerLabels
      BY <2>1 DEF PeerAlloc, WirePeer, PeerRefused, shimVars, At, PeerLabels
    <3> QED BY <1>2, <3>1, <3>2, ScriptThread DEF Unregistered, Sweeps, PeerLabels
  <2>2. CASE ChannelRefused
    <3>1. th' = [th EXCEPT ![Script] = Idle] /\ UNCHANGED <<chans, orphans>> /\ th[Script].pc = "refused"
      BY <2>2 DEF ChannelRefused, Return, shimVars, At
    <3>2. th[Script].dc # d
      <4>1. ASSUME th[Script].dc = d PROVE FALSE
        <5>1. rtc'[d] = [rtc[d] EXCEPT !.st = "deleted"]
          BY <2>2, <4>1 DEF ChannelRefused, TypeOK, LibraryOK
        <5>2. rtc'[d].st = "deleted"  BY <5>1, RtcTyped DEF RtcObjects
        <5> QED BY <5>2 DEF Exists
      <4> QED BY <4>1
    <3>3. ~Fresh(th[Script], d) /\ ~Owed(th[Script], d)
      BY <3>1, <3>2 DEF Fresh, Owed, Sweeps
    <3> QED BY <3>1, <3>3, HeldMove, HeldSame, ScriptThread
  <2>3. CASE DrainLock \/ DrainEnd
    <3>1. \E r : th' = [th EXCEPT ![Script] = r]
      BY <2>3 DEF DrainLock, DrainEnd, Goto, Return
    <3>2. UNCHANGED <<chans, orphans>> /\ th[Script].pc \in {"drain_lock", "drain"}
      BY <2>3 DEF DrainLock, DrainEnd, shimVars, At
    <3> QED BY <1>2, <3>1, <3>2, ScriptThread DEF Unregistered, Sweeps
  <2>4. CASE DrainDiscard  BY <1>1, <2>4 DEF DrainDiscard, shimVars
  <2>5. CASE DrainDeliver
    <3>1. \E r : th' = [th EXCEPT ![Script] = r]  BY <2>5 DEF DrainDeliver
    <3>2. UNCHANGED <<chans, orphans>> /\ th[Script].pc = "drain"
      BY <2>5 DEF DrainDeliver, shimVars, At
    <3> QED BY <1>2, <3>1, <3>2, ScriptThread DEF Unregistered, Sweeps
  <2>6. CASE PeerFreeSweep \/ CleanupChannel \/ CleanupPeer \/ PeerFreeDone \/ CleanupReset
    BY <2>6, HeldSwept, HeldCleanupPeer, HeldPeerFreeDone, HeldCleanupReset
  <2>7. CASE ClearCallback \/ DeleteObject \/ RtcCleanup \/ RtcJoin \/ RtcDone
    BY <2>7, HeldTodo
  <2> QED
    BY <1>3, <1>4, <1>9, <2>1, <2>2, <2>3, <2>4, <2>5, <2>6, <2>7, HeldRegister, ScriptThread DEF ScriptStep
<1>10. CASE UNCHANGED vars  BY <1>1, <1>10 DEF vars, shimVars
<1> QED BY <1>5, <1>6, <1>7, <1>8, <1>9, <1>10 DEF Next

LEMMA NextHeld ==
    ASSUME TypeOK, MapsInv, HandInv, HeldInv, [Next]_vars
    PROVE  HeldInv'
<1> SUFFICES ASSUME NEW d \in RtcIds, IsDc(d)', Exists(d)' PROVE Held(d)'  BY DEF HeldInv
<1>1. CASE Lives(d)  BY <1>1, HeldNext DEF Lives, HeldInv
<1>2. CASE \E t \in Threads : Fresh(th'[t], d)  BY <1>2 DEF Held
<1> QED BY <1>1, <1>2, NextRises DEF Rises, Lives

\* A channel libdatachannel holds has an owner that will free it: a handle of
\* the app's, the list the next poll reaps, a teardown under way, or the thread
\* that is about to register it.  The sweeps, the reaper and the callback that
\* re-validates its peer hand the channel over without dropping it.
THEOREM NothingLeaks ==
    ASSUME MaxRtcId < GEN_MAX
    PROVE  Spec => []NoLeak
<1>1. Init => HeldInv  BY DEF Init, HeldInv, IsDc
<1>2. TypeOK /\ MapsInv /\ StoryInv /\ HeldInv /\ [Next]_vars => HeldInv'
  BY NextHeld DEF StoryInv
<1>3. TypeOK /\ MapsInv /\ HeldInv => NoLeak
  <2> SUFFICES ASSUME TypeOK, MapsInv, HeldInv, NEW d \in RtcIds, IsDc(d), Exists(d)
               PROVE  rtcChan[d] # NoHandle \/ d \in Elems(orphans) \/ InHand(d)
    BY DEF NoLeak
  <2>1. CASE Owned(d)
    <3>1. NoHandle \notin Handles  BY DEF NoHandle, Handles
    <3> QED BY <2>1, <3>1 DEF Owned, MapsInv, MapsNamed, Named
  <2>2. CASE Owed(th[Script], d)
    BY <2>2, ScriptThread DEF Owed, Sweeps, InHand, At, DeleteOf
  <2>3. ASSUME NEW t \in Threads, Fresh(th[t], d) PROVE InHand(d)
    BY <2>3 DEF Fresh, Unregistered, InHand, At
  <2> QED BY <2>1, <2>2, <2>3 DEF HeldInv, Held, Parked
<1> QED BY <1>1, <1>2, <1>3, TypeCorrect, MapsInvariant, StoryInvariant, PTL DEF Spec

\* ------------------------------------------------- an object is deleted quiet

LEMMA FireGrasps ==
    ASSUME TypeOK, NEW w \in Workers, NEW id \in RtcIds, NEW k \in Kinds, Fire(w, id, k)
    PROVE  Grasps(th[w], th'[w]) /\ \A u \in Threads : u # w => th'[u] = th[u]
<1>1. PICK n \in Argument(k) :
         th' = [th EXCEPT ![w] = [Idle EXCEPT !.pc = "body", !.obj = id, !.kind = k, !.n = n]]
  BY Zenon DEF Fire
<1>2. PICK r : r = [Idle EXCEPT !.pc = "body", !.obj = id, !.kind = k, !.n = n]  OBVIOUS
<1>3. r.pc = "body" /\ r.obj = id  BY <1>2 DEF Idle
<1>4. th'[w] = r /\ \A u \in Threads : u # w => th'[u] = th[u]
  BY <1>1, <1>2, WorkerThread, ThreadSet
<1>5. EntersBody(r)  BY <1>3 DEF Fire, Exists, EntersBody
<1> QED BY <1>4, <1>5 DEF Grasps

LEMMA FireDataChannelGrasps ==
    ASSUME TypeOK, NEW w \in Workers, NEW p \in RtcIds, NEW d \in RtcIds, FireDataChannel(w, p, d)
    PROVE  Grasps(th[w], th'[w]) /\ \A u \in Threads : u # w => th'[u] = th[u]
<1>1. PICK n \in Sizes :
         th' = [th EXCEPT ![w] = [Idle EXCEPT !.pc = "lookup", !.obj = p, !.dc = d,
                                              !.kind = "DATA_CHANNEL", !.n = n]]
  BY Zenon DEF FireDataChannel
<1>2. PICK r : r = [Idle EXCEPT !.pc = "lookup", !.obj = p, !.dc = d, !.kind = "DATA_CHANNEL", !.n = n]
  OBVIOUS
<1>3. r.pc = "lookup" /\ r.obj = p /\ r.dc = d /\ r.kind = "DATA_CHANNEL"
  BY <1>2 DEF Idle
<1>4. th'[w] = r /\ \A u \in Threads : u # w => th'[u] = th[u]
  BY <1>1, <1>2, WorkerThread, ThreadSet
<1>5. EntersDataChannel(r)  BY <1>3 DEF FireDataChannel, IsNewId, EntersDataChannel
<1> QED BY <1>4, <1>5 DEF Grasps

LEMMA GotoGrasps ==
    ASSUME TypeOK, NEW w \in Workers, NEW l \in ChannelLabels \ {"wire"}, Goto(w, l), th[w].pc \in ChannelLabels,
           l \in RegisterLabels => th[w].pc \in RegisterLabels
    PROVE  GoesOn(th[w], th'[w])
<1>1. PICK r : r = [th[w] EXCEPT !.pc = l]  OBVIOUS
<1>2. th[w] \in Locals  BY WorkerThread, Local
<1>3. r.pc = l /\ SameGrip(r, th[w]) /\ r.peer = th[w].peer
  BY <1>1, <1>2 DEF Locals, SameGrip
<1>4. th'[w] = r  BY <1>1, WorkerThread, ThreadSet DEF Goto
<1> QED BY <1>3, <1>4 DEF GoesOn

LEMMA CallbackGrasps ==
    ASSUME TypeOK, NEW w \in Workers, CallbackStep(w)
    PROVE  Grasps(th[w], th'[w]) /\ \A u \in Threads : u # w => th'[u] = th[u]
<1> DEFINE c == th[w]
<1>1. \A u \in Threads : u # w => th'[u] = th[u]
  BY WorkerThread, CallbackOutside, RegisterOutside DEF CallbackStep, MovesOutside
<1>2. c \in Locals /\ w \in Threads  BY WorkerThread, Local
<1>3. CASE Return(w)
  <2>1. th'[w] = Idle  BY <1>2, <1>3, ThreadSet DEF Return
  <2> QED BY <1>1, <2>1, IdleHand DEF Grasps
<1>4. CASE Lookup(w)
  <2>1. PICK r : r = [c EXCEPT !.pc = IF rtcPeer[c.obj] = NoHandle THEN "orphan" ELSE "register",
                               !.peer = rtcPeer[c.obj]]
    OBVIOUS
  <2>2. c.pc = "lookup" /\ th' = [th EXCEPT ![w] = r]  BY <1>4, <2>1 DEF Lookup, At
  <2>3. /\ r.pc \in {"orphan", "register"} /\ SameGrip(r, c) /\ r.peer = rtcPeer[c.obj]
        /\ r.pc = "register" => r.peer # NoHandle
    BY <1>2, <2>1 DEF Locals, SameGrip
  <2>4. th'[w] = r  BY <1>2, <2>2, ThreadSet
  <2>5. GoesOn(c, r)  BY <2>2, <2>3 DEF GoesOn, SameGrip, ChannelLabels, RegisterLabels
  <2> QED BY <1>1, <2>4, <2>5 DEF Grasps
<1>5. CASE Register(w) /\ AllocHandle(chans) = NoHandle
  <2>1. Goto(w, "orphan") /\ c.pc = "register"  BY <1>5, WorkerThread DEF Register, At
  <2> QED BY <1>1, <2>1, GotoGrasps DEF Grasps, ChannelLabels, RegisterLabels
<1>6. CASE Register(w) /\ AllocHandle(chans) # NoHandle
  <2>1. PICK r : r = [c EXCEPT !.pc = "wire", !.chan = AllocHandle(chans), !.ks = WiredAtBirth(ChannelCallbacks)]
    OBVIOUS
  <2>2. r.pc = "wire" /\ SameGrip(r, c) /\ r.peer = c.peer /\ r.ks \subseteq Kinds
    BY <1>2, <2>1 DEF Locals, SameGrip, WiredAtBirth
  <2>3. th' = [th EXCEPT ![w] = r] /\ c.pc = "register"  BY <1>6, <2>1 DEF Register, At
  <2>4. th'[w] = r  BY <1>2, <2>3, ThreadSet
  <2> QED BY <1>1, <2>2, <2>3, <2>4 DEF Grasps, GoesOn, ChannelLabels, RegisterLabels
<1>7. CASE WireChannel(w) /\ c.ks # {}
  <2>1. PICK r : r = [c EXCEPT !.ks = @ \ {FirstOf(c.ks, ChannelCallbacks)}]  OBVIOUS
  <2>2. r.pc = c.pc /\ SameGrip(r, c) /\ r.peer = c.peer /\ c.pc = "wire" /\ r.ks \subseteq c.ks
    BY <1>2, <1>7, <2>1 DEF Locals, SameGrip, WireChannel, At
  <2>3. th' = [th EXCEPT ![w] = r]  BY <1>7, <2>1 DEF WireChannel
  <2>4. th'[w] = r  BY <1>2, <2>3, ThreadSet
  <2> QED BY <1>1, <2>2, <2>4 DEF Grasps, GoesOn, ChannelLabels, RegisterLabels
<1>8. CASE WireChannel(w) /\ c.ks = {}
  <2>1. Goto(w, "isopen") /\ c.pc = "wire"  BY <1>8 DEF WireChannel, At
  <2> QED BY <1>1, <2>1, GotoGrasps DEF Grasps, ChannelLabels, RegisterLabels
<1>9. CASE CheckOpen(w) \/ AnnounceOpen(w)
  <2>1. PICK l \in {"announce", "revalidate"} : Goto(w, l)
    BY <1>9, WorkerThread DEF CheckOpen, AnnounceOpen, Registered
  <2>2. c.pc \in {"isopen", "announce"}  BY <1>9 DEF CheckOpen, AnnounceOpen, At
  <2> QED BY <1>1, <2>1, <2>2, GotoGrasps DEF Grasps, ChannelLabels, RegisterLabels
<1>10. Return(w) \/ Lookup(w) \/ Register(w) \/ WireChannel(w) \/ CheckOpen(w) \/ AnnounceOpen(w)
  BY DEF CallbackStep, PeerCallback, OpenCallback, ChannelCallback, Orphan, Revalidate
<1> QED BY <1>1, <1>3, <1>4, <1>5, <1>6, <1>7, <1>8, <1>9, <1>10

\* The script's steps leave the workers where they are.
LEMMA ScriptLeaves ==
    ASSUME TypeOK, Call \/ PollStart \/ ScriptStep, NEW w \in Workers
    PROVE  th'[w] = th[w]
<1>1. w # Script /\ w \in Threads  BY WorkerThread
<1>2. ASSUME \E r : th' = [th EXCEPT ![Script] = r] PROVE th'[w] = th[w]
  BY <1>1, <1>2 DEF TypeOK
<1>3. CASE Call
  <2>1. ASSUME NEW h, PeerClose(h) \/ ChannelClose(h) \/ SetBufferedLow(h) PROVE th'[w] = th[w]
    BY <2>1 DEF PeerClose, ChannelClose, SetBufferedLow
  <2>2. ASSUME NEW h, PeerFreeLock(h) \/ ChannelFree(h) \/ CleanupLock PROVE th'[w] = th[w]
    BY <1>2, <2>2, CallsPlain DEF PlainStep
  <2>3. ASSUME NEW h, NEW d, PeerNew(d) \/ ChannelNew(h, d) PROVE th'[w] = th[w]
    BY <1>2, <2>3 DEF PeerNew, ChannelNew
  <2> QED BY <1>3, <2>1, <2>2, <2>3 DEF Call
<1>4. CASE PollStart \/ PollRetry  BY <1>2, <1>4 DEF PollStart, PollRetry, Poll
<1>5. CASE ScriptStep /\ ~PollRetry
  <2>1. CASE PeerAlloc \/ PeerRefused \/ ChannelRefused \/ WirePeer
    BY <1>2, <2>1, PeerAllocPlain, PeerWirePlain DEF PlainStep
  <2>2. CASE Register(Script) \/ WireChannel(Script) \/ CheckOpen(Script) \/ AnnounceOpen(Script)
    BY <1>1, <2>2, ScriptThread, RegisterOutside DEF MovesOutside
  <2>3. CASE ClearCallback \/ DeleteObject \/ RtcCleanup \/ RtcJoin \/ RtcDone
    BY <1>2, <2>3, TeardownPlain DEF PlainStep
  <2>4. CASE PeerFreeSweep \/ PeerFreeDone \/ CleanupChannel \/ CleanupPeer \/ CleanupReset
    BY <1>2, <2>4, SweepPlain DEF PlainStep
  <2>5. CASE DrainLock \/ DrainDeliver \/ DrainEnd
    BY <1>2, <2>5, DrainPlain DEF PlainStep
  <2>6. CASE DrainDiscard  BY <2>6 DEF DrainDiscard
  <2> QED BY <1>5, <2>1, <2>2, <2>3, <2>4, <2>5, <2>6 DEF ScriptStep
<1> QED BY <1>3, <1>4, <1>5

\* Whatever the step, a worker is where it may be.
LEMMA WorkersGrasp ==
    ASSUME TypeOK, [Next]_vars, NEW w \in Workers
    PROVE  Grasps(th[w], th'[w])
<1>1. ASSUME th'[w] = th[w] PROVE Grasps(th[w], th'[w])  BY <1>1 DEF Grasps
<1>2. CASE Library
  <2>1. ASSUME NEW d \in RtcIds, RtcChannelOpens(d) \/ RtcChannelCloses(d) PROVE th'[w] = th[w]
    BY <2>1 DEF RtcChannelOpens, RtcChannelCloses
  <2> QED BY <1>1, <1>2, <2>1, WorkerThread, FireGrasps, FireDataChannelGrasps DEF Library
<1>3. ASSUME NEW v \in Workers, CallbackStep(v) PROVE Grasps(th[w], th'[w])
  BY <1>1, <1>3, WorkerThread, CallbackGrasps
<1>4. CASE UNCHANGED vars  BY <1>1, <1>4 DEF vars
<1> QED BY <1>1, <1>2, <1>3, <1>4, ScriptLeaves DEF Next

\* A live connection was live before, or the script just gave it its handle.
LEMMA PeerBefore ==
    ASSUME TypeOK, MapsInv, [Next]_vars, NEW h, Get(peers', h) # Null
    PROVE  \/ Get(peers, h) # Null /\ Get(peers', h) = Get(peers, h)
           \/ PeerAlloc /\ Get(peers', h).rtc = th[Script].obj
<1>1. TableOK(peers, PeerObjects) /\ FreeListOK(peers)  BY TablesTyped DEF MapsInv
<1>2. ASSUME NEW g, peers' = Free(peers, g) PROVE Get(peers', h) = Get(peers, h)
  BY <1>1, <1>2, GetFree
<1>3. CASE Mints
  <2>1. PICK o : o = [rtc |-> th[Script].obj]  OBVIOUS
  <2>2. At(Script, "pn_alloc") /\ AllocHandle(peers) # NoHandle
    BY <1>1, <1>3, AllocSlot DEF Mints, PeerAlloc, Handles, NoHandle
  <2>3. peers' = Alloc(peers, o)  BY <1>3, <2>1, <2>2 DEF Mints, PeerAlloc
  <2>4. th[Script].obj \in RtcIds  BY <2>2, ScriptThread, Local DEF At, PeerLabels
  <2>5. o # Null  BY <2>1, <2>4, NullNone DEF PeerObjects
  <2>6. Get(peers', h) = IF h = AllocHandle(peers) THEN o ELSE Get(peers, h)
    BY <1>1, <1>3, <2>3, <2>5, GetAlloc DEF Mints
  <2> QED BY <1>3, <2>1, <2>6 DEF Mints
<1> QED BY <1>2, <1>3, PeersStep DEF PeersMove

LEMMA OrphansMove ==
    ASSUME TypeOK, [Next]_vars, NEW d \in Elems(orphans')
    PROVE  d \in Elems(orphans) \/ \E w \in Workers : Parks(w, d)
<1>1. orphans \in Seq(RtcIds)  BY DEF TypeOK, TablesOK
<1>2. CASE UNCHANGED orphans  BY <1>2
<1>3. CASE orphans' = <<>>  BY <1>3 DEF Elems
<1>4. ASSUME NEW w \in Workers, Return(w), th[w].pc \in ChannelLabels, orphans' = Append(orphans, th[w].dc)
      PROVE  d \in Elems(orphans) \/ Parks(w, d)
  <2>1. th'[w] = Idle  BY <1>4, WorkerThread, ThreadSet DEF Return
  <2>2. th[w].dc \in RtcIds  BY <1>4, WorkerThread, Local
  <2>3. d \in Elems(orphans) \/ d = th[w].dc  BY <1>1, <1>4, <2>2, SMTT(30) DEF Elems
  <2> QED BY <1>4, <2>1, <2>3, IdleHand DEF Parks
<1>5. CASE Library
  BY <1>2, <1>5, Zenon DEF Library, RtcChannelOpens, RtcChannelCloses, Fire, FireDataChannel, shimVars
<1>6. ASSUME NEW w \in Workers, Orphan(w) PROVE d \in Elems(orphans) \/ Parks(w, d)
  BY <1>4, <1>6 DEF Orphan, At, ChannelLabels
<1>7. ASSUME NEW w \in Workers, Revalidate(w) PROVE d \in Elems(orphans) \/ Parks(w, d)
  <2>1. CASE Get(peers, th[w].peer) # Null  BY <1>2, <1>7, <2>1 DEF Revalidate
  <2>2. CASE Get(peers, th[w].peer) = Null
    BY <1>4, <1>7, <2>2 DEF Revalidate, At, ChannelLabels, RegisterLabels
  <2> QED BY <2>1, <2>2
<1>8. ASSUME NEW t, \/ PeerCallback(t) \/ ChannelCallback(t) \/ OpenCallback(t) \/ Lookup(t)
                    \/ Register(t) \/ WireChannel(t) \/ CheckOpen(t) \/ AnnounceOpen(t)
      PROVE d \in Elems(orphans)
  BY <1>2, <1>8, SMTT(30) DEF PeerCallback, ChannelCallback, OpenCallback, Lookup, Register,
     WireChannel, CheckOpen, AnnounceOpen, shimVars
<1>9. CASE Call
  BY <1>2, <1>9, Zenon DEF Call, PeerNew, PeerClose, PeerFreeLock, ChannelNew, ChannelClose,
     SetBufferedLow, ChannelFree, CleanupLock, shimVars
<1>10. CASE PollStart \/ PollRetry  BY <1>3, <1>10 DEF PollStart, PollRetry, Poll
<1>11. CASE ScriptStep /\ ~PollRetry
  <2>1. CASE PeerAlloc \/ PeerRefused \/ WirePeer \/ ChannelRefused
    BY <1>2, <2>1, SMTT(30) DEF PeerAlloc, PeerRefused, WirePeer, ChannelRefused, shimVars
  <2>2. CASE ClearCallback \/ DeleteObject \/ RtcCleanup \/ RtcJoin \/ RtcDone
    BY <1>2, <2>2 DEF ClearCallback, DeleteObject, RtcCleanup, RtcJoin, RtcDone, shimVars
  <2>3. CASE PeerFreeDone \/ PeerFreeSweep \/ CleanupChannel \/ CleanupPeer
    BY <1>2, <2>3 DEF PeerFreeDone, PeerFreeSweep, CleanupChannel, CleanupPeer
  <2>4. CASE CleanupReset  BY <1>3, <2>4 DEF CleanupReset
  <2>5. CASE DrainLock \/ DrainDiscard \/ DrainDeliver \/ DrainEnd
    BY <1>2, <2>5 DEF DrainLock, DrainDiscard, DrainDeliver, DrainEnd, shimVars
  <2> QED BY <1>8, <1>11, <2>1, <2>2, <2>3, <2>4, <2>5 DEF ScriptStep
<1>12. CASE UNCHANGED vars  BY <1>2, <1>12 DEF vars, shimVars
<1> QED BY <1>5, <1>6, <1>7, <1>8, <1>9, <1>10, <1>11, <1>12 DEF Next, CallbackStep

LEMMA WiresStep ==
    ASSUME TypeOK, [Next]_vars
    PROVE  WiresMove
<1>1. ASSUME \A i \in RtcIds : wired'[i] \subseteq wired[i] PROVE WiresMove
  BY <1>1 DEF WiresMove
<1>2. ASSUME UNCHANGED wired PROVE WiresMove  BY <1>2 DEF WiresMove
<1>3. ASSUME NEW t \in Threads, WireChannel(t) PROVE WiresMove
  <2>1. CASE th[t].ks = {}  BY <1>2, <1>3, <2>1 DEF WireChannel
  <2>2. CASE th[t].ks # {}
    <3>1. PICK k : k = FirstOf(th[t].ks, ChannelCallbacks)  OBVIOUS
    <3>2. th[t].pc = "wire" /\ th[t].ks \subseteq Elems(ChannelCallbacks)
      BY <1>3, Local DEF WireChannel, At
    <3>3. k \in th[t].ks  BY <2>2, <3>1, <3>2, FirstOfMember
    <3>4. \/ UNCHANGED wired
          \/ wired' = [wired EXCEPT ![th[t].dc] = @ \cup {k}]
      BY <1>3, <2>2, <3>1 DEF WireChannel
    <3> QED BY <3>2, <3>3, <3>4 DEF WiresMove, Wires, TypeOK, LibraryOK
  <2> QED BY <2>1, <2>2
<1>4. CASE WirePeer
  <2>1. CASE th[Script].ks = {}  BY <1>2, <1>4, <2>1 DEF WirePeer
  <2>2. CASE th[Script].ks # {}
    <3>1. PICK k : k = FirstOf(th[Script].ks, PeerCallbacks)  OBVIOUS
    <3>2. th[Script].pc = "pn_wire" /\ th[Script].ks \subseteq Elems(PeerCallbacks)
      BY <1>4, ScriptThread, Local DEF WirePeer, At
    <3>3. k \in th[Script].ks  BY <2>2, <3>1, <3>2, FirstOfMember
    <3>4. wired' = [wired EXCEPT ![th[Script].obj] = @ \cup {k}] /\ UNCHANGED rtcPeer
      BY <1>4, <2>2, <3>1, SMTT(30) DEF WirePeer, shimVars
    <3> QED BY <3>2, <3>3, <3>4 DEF WiresMove, Wires, TypeOK, LibraryOK
  <2> QED BY <2>1, <2>2
<1>5. CASE Library
  BY <1>2, <1>5, Zenon DEF Library, RtcChannelOpens, RtcChannelCloses, Fire, FireDataChannel
<1>6. ASSUME NEW t, \/ PeerCallback(t) \/ ChannelCallback(t) \/ OpenCallback(t) \/ Lookup(t) \/ Orphan(t)
                    \/ Revalidate(t) \/ Register(t) \/ CheckOpen(t) \/ AnnounceOpen(t)
      PROVE WiresMove
  BY <1>2, <1>6 DEF PeerCallback, ChannelCallback, OpenCallback, Lookup, Orphan, Revalidate, Register,
     CheckOpen, AnnounceOpen, rtcVars
<1>7. CASE Call
  <2>1. ASSUME NEW h, SetBufferedLow(h) PROVE WiresMove
    BY <2>1 DEF SetBufferedLow, WiresMove, Wires, TypeOK, LibraryOK
  <2> QED
    BY <1>2, <1>7, <2>1, Zenon DEF Call, PeerNew, PeerClose, PeerFreeLock, ChannelNew, ChannelClose,
       ChannelFree, CleanupLock, rtcVars
<1>8. CASE PollStart \/ PollRetry  BY <1>2, <1>8 DEF PollStart, PollRetry, Poll, rtcVars
<1>9. CASE ScriptStep /\ ~PollRetry
  <2>1. CASE PeerAlloc \/ PeerRefused \/ ChannelRefused
    BY <1>2, <2>1 DEF PeerAlloc, PeerRefused, ChannelRefused, rtcVars
  <2>3. CASE ClearCallback  BY <1>1, <2>3 DEF ClearCallback, TypeOK, LibraryOK
  <2>4. CASE DeleteObject  BY <1>1, <2>4 DEF DeleteObject, TypeOK, LibraryOK
  <2>5. CASE RtcCleanup  BY <1>1, <2>5 DEF RtcCleanup
  <2>6. CASE RtcJoin \/ RtcDone  BY <1>2, <2>6, SMTT(30) DEF RtcJoin, RtcDone, rtcVars
  <2>7. CASE PeerFreeSweep \/ PeerFreeDone \/ CleanupChannel \/ CleanupPeer \/ CleanupReset
    BY <1>2, <2>7, Zenon DEF PeerFreeSweep, PeerFreeDone, CleanupChannel, CleanupPeer, CleanupReset, rtcVars
  <2>8. CASE DrainLock \/ DrainDiscard \/ DrainDeliver \/ DrainEnd
    BY <1>2, <2>8 DEF DrainLock, DrainDiscard, DrainDeliver, DrainEnd, rtcVars
  <2> QED
    BY <1>3, <1>4, <1>6, <1>9, ScriptThread, <2>1, <2>3, <2>4, <2>5, <2>6, <2>7, <2>8 DEF ScriptStep
<1>10. CASE UNCHANGED vars  BY <1>2, <1>10 DEF vars, rtcVars
<1> QED BY <1>3, <1>5, <1>6, <1>7, <1>8, <1>9, <1>10, WorkerThread DEF Next, CallbackStep

\* ------------------------------------------------------- what a teardown owes

LEMMA CatParts ==
    ASSUME NEW S, NEW s \in Seq(S), NEW r \in Seq(S), NEW q, q = s \o r
    PROVE  /\ q \in Seq(S)
           /\ \A i \in DOMAIN s : i \in DOMAIN q /\ q[i] = s[i]
           /\ \A i \in DOMAIN r : Len(s) + i \in DOMAIN q /\ q[Len(s) + i] = r[i]
           /\ \A i \in DOMAIN q : \/ i \in DOMAIN s
                                  \/ i - Len(s) \in DOMAIN r /\ q[i] = r[i - Len(s)]
<1>1. DOMAIN q = 1 .. Len(s) + Len(r) /\ Len(s) \in Nat /\ Len(r) \in Nat  OBVIOUS
<1>2. ASSUME NEW i \in DOMAIN r PROVE Len(s) + i \in DOMAIN q /\ q[Len(s) + i] = r[i]
  BY <1>1
<1>3. ASSUME NEW i \in DOMAIN q, i \notin DOMAIN s PROVE i - Len(s) \in DOMAIN r /\ q[i] = r[i - Len(s)]
  <2>1. PICK k : k = i - Len(s)  OBVIOUS
  <2>2. k \in DOMAIN r /\ i = Len(s) + k  BY <1>1, <1>3, <2>1
  <2> QED BY <1>2, <2>1, <2>2
<1>4. \A i \in DOMAIN s : i \in DOMAIN q /\ q[i] = s[i]  OBVIOUS
<1> QED BY <1>2, <1>3, <1>4

LEMMA PreparedCat ==
    ASSUME NEW s \in Seq(Calls), NEW r \in Seq(Calls), Prepared(s), NEW q, q = s \o r,
           \A i \in DOMAIN r : r[i].op = "delete" => \/ \E j \in DOMAIN s : s[j] = ClearOf(r[i].id)
                                                     \/ \E j \in 1 .. i - 1 : r[j] = ClearOf(r[i].id)
    PROVE  Prepared(q)
<1>1. DOMAIN s = 1 .. Len(s) /\ DOMAIN r = 1 .. Len(r) /\ Len(s) \in Nat /\ Len(r) \in Nat
  OBVIOUS
<1>2. SUFFICES ASSUME NEW i \in DOMAIN q, q[i].op = "delete"
               PROVE  \E j \in 1 .. i - 1 : q[j] = ClearOf(q[i].id)
  BY DEF Prepared
<1>3. i \in Nat  BY CatParts
<1>4. CASE i \in DOMAIN s
  <2>1. q[i] = s[i]  BY <1>4, CatParts
  <2>2. PICK j \in 1 .. i - 1 : s[j] = ClearOf(q[i].id)  BY <1>2, <1>4, <2>1 DEF Prepared
  <2>3. q[j] = s[j]  BY <1>1, <1>4, <2>2, CatParts
  <2> QED BY <2>2, <2>3
<1>5. CASE i \notin DOMAIN s
  <2>1. PICK k : k = i - Len(s)  OBVIOUS
  <2>2. k \in DOMAIN r /\ q[i] = r[k] /\ i = Len(s) + k
    BY <1>1, <1>3, <1>5, <2>1, CatParts
  <2>3. CASE \E j \in DOMAIN s : s[j] = ClearOf(r[k].id)
    <3>1. PICK j \in DOMAIN s : s[j] = ClearOf(r[k].id)  BY <2>3
    <3>2. q[j] = s[j] /\ j \in 1 .. i - 1  BY <1>1, <2>2, CatParts
    <3> QED BY <2>2, <3>1, <3>2
  <2>4. CASE \E j \in 1 .. k - 1 : r[j] = ClearOf(r[k].id)
    <3>1. PICK j \in 1 .. k - 1 : r[j] = ClearOf(r[k].id)  BY <2>4
    <3>2. j \in DOMAIN r  BY <1>1, <2>2
    <3>3. q[Len(s) + j] = r[j] /\ Len(s) + j \in 1 .. i - 1  BY <1>1, <2>2, <3>2, CatParts
    <3> QED BY <2>2, <3>1, <3>3
  <2> QED BY <1>2, <2>2, <2>3, <2>4
<1> QED BY <1>4, <1>5

LEMMA ConcernsCat ==
    ASSUME NEW ids, NEW s \in Seq(Calls), NEW r \in Seq(Calls), Concerns(s, ids), Concerns(r, ids), NEW q, q = s \o r
    PROVE  Concerns(q, ids)
  BY CatParts DEF Concerns

LEMMA ClearParts ==
    ASSUME NEW ids \in Seq(RtcIds), NEW q, q = Clear(ids)
    PROVE  /\ q \in Seq(Calls) /\ DOMAIN q = DOMAIN ids
           /\ \A i \in DOMAIN ids : q[i] = ClearOf(ids[i])
           /\ Prepared(q) /\ Concerns(q, Elems(ids))
<1>1. q \in Seq(Calls)  BY CallsTyped
<1>2. DOMAIN q = DOMAIN ids /\ \A i \in DOMAIN ids : q[i] = ClearOf(ids[i])
  BY DEF Clear, ClearOf
<1>3. \A i \in DOMAIN q : q[i].op = "clear" /\ q[i].id \in Elems(ids)
  BY <1>2 DEF ClearOf, Elems
<1> QED BY <1>1, <1>2, <1>3 DEF Prepared, Concerns

LEMMA DeleteParts ==
    ASSUME NEW ids \in Seq(RtcIds), NEW q, q = Delete(ids)
    PROVE  /\ q \in Seq(Calls) /\ DOMAIN q = DOMAIN ids
           /\ \A i \in DOMAIN ids : q[i].id = ids[i]
           /\ Concerns(q, Elems(ids))
<1>1. q \in Seq(Calls)  BY CallsTyped
<1>2. DOMAIN q = DOMAIN ids /\ \A i \in DOMAIN ids : q[i].id = ids[i]  BY DEF Delete
<1> QED BY <1>1, <1>2 DEF Concerns, Elems

LEMMA ReapParts ==
    ASSUME NEW ids \in Seq(RtcIds), NEW q, q = ClearAndDelete(ids)
    PROVE  /\ q \in Seq(Calls) /\ Concerns(q, Elems(ids))
           /\ \A i \in DOMAIN q : q[i].op = "delete" => \E j \in 1 .. i - 1 : q[j] = ClearOf(q[i].id)
           /\ Prepared(q)
<1>1. q \in Seq(Calls)  BY CallsTyped
<1>2. PICK n : n = Len(ids)  OBVIOUS
<1>3. n \in Nat /\ DOMAIN ids = 1 .. n /\ DOMAIN q = 1 .. 2 * n
  BY <1>2 DEF ClearAndDelete
<1>4. \A i \in DOMAIN q : q[i] = [op |-> IF i % 2 = 1 THEN "clear" ELSE "delete", id |-> ids[(i + 1) \div 2]]
  BY DEF ClearAndDelete
<1>5. ASSUME NEW i \in 1 .. 2 * n
      PROVE  /\ (i + 1) \div 2 \in 1 .. n
             /\ i % 2 # 1 => i - 1 \in 1 .. 2 * n /\ (i - 1) % 2 = 1 /\ (i - 1 + 1) \div 2 = (i + 1) \div 2
  BY <1>3
<1>6. Concerns(q, Elems(ids))
  <2>1. \A i \in DOMAIN q : q[i].id = ids[(i + 1) \div 2]  BY <1>4
  <2>2. \A i \in DOMAIN q : (i + 1) \div 2 \in DOMAIN ids  BY <1>3, <1>5
  <2> QED BY <2>1, <2>2 DEF Concerns, Elems
<1>7. ASSUME NEW i \in DOMAIN q, q[i].op = "delete" PROVE \E j \in 1 .. i - 1 : q[j] = ClearOf(q[i].id)
  <2>1. i \in 1 .. 2 * n /\ i % 2 # 1 /\ q[i].id = ids[(i + 1) \div 2]
    BY <1>3, <1>4, <1>7
  <2>2. PICK j : j = i - 1  OBVIOUS
  <2>3. j \in DOMAIN q /\ j % 2 = 1 /\ (j + 1) \div 2 = (i + 1) \div 2
    BY <1>3, <1>5, <2>1, <2>2
  <2>5. j \in 1 .. i - 1  BY <1>3, <2>1, <2>2, <2>3
  <2>4. q[j] = ClearOf(q[i].id)  BY <1>4, <2>1, <2>3 DEF ClearOf
  <2> QED BY <2>4, <2>5
<1> QED BY <1>1, <1>6, <1>7 DEF Prepared

\* What the code of dcx_peer_free and of dcx_cleanup owes after its sweep.
LEMMA TeardownParts ==
    ASSUME NEW p \in RtcIds, NEW ds \in Seq(RtcIds), NEW q, q = Teardown(p, ds)
    PROVE  /\ q \in Seq(Calls) /\ Prepared(q) /\ Concerns(q, {p} \cup Elems(ds))
           /\ 1 \in DOMAIN q /\ q[1] = ClearOf(p)
<1>1. PICK one : one = <<p>>  OBVIOUS
<1>0. one \in Seq(RtcIds)  BY <1>1
<1>2. DOMAIN one = {1} /\ one[1] = p /\ Elems(one) = {p}  BY <1>1 DEF Elems
<1>3. PICK a : a = Clear(one)  OBVIOUS
<1>4. PICK b : b = ClearAndDelete(ds)  OBVIOUS
<1>5. PICK d : d = Delete(one)  OBVIOUS
<1>6. PICK ab : ab = a \o b  OBVIOUS
<1>7. q = ab \o d  BY <1>1, <1>3, <1>4, <1>5, <1>6 DEF Teardown
<1>8. /\ a \in Seq(Calls) /\ DOMAIN a = {1} /\ a[1] = ClearOf(p) /\ Prepared(a) /\ Concerns(a, {p})
      /\ d \in Seq(Calls) /\ DOMAIN d = {1} /\ d[1].id = p /\ Concerns(d, {p})
  <2>1. /\ a \in Seq(Calls) /\ DOMAIN a = DOMAIN one /\ (\A i \in DOMAIN one : a[i] = ClearOf(one[i]))
        /\ Prepared(a) /\ Concerns(a, Elems(one))
    BY <1>0, <1>3, ClearParts
  <2>2. /\ d \in Seq(Calls) /\ DOMAIN d = DOMAIN one /\ (\A i \in DOMAIN one : d[i].id = one[i])
        /\ Concerns(d, Elems(one))
    BY <1>0, <1>5, DeleteParts
  <2> QED BY <1>2, <2>1, <2>2
<1>9. /\ b \in Seq(Calls) /\ Concerns(b, Elems(ds))
      /\ \A i \in DOMAIN b : b[i].op = "delete" => \E j \in 1 .. i - 1 : b[j] = ClearOf(b[i].id)
  BY <1>4, ReapParts
<1>10. ab \in Seq(Calls) /\ 1 \in DOMAIN ab /\ ab[1] = ClearOf(p)
  <2>0. a \in Seq(Calls) /\ b \in Seq(Calls)  BY <1>8, <1>9
  <2>1. ab \in Seq(Calls) /\ \A i \in DOMAIN a : i \in DOMAIN ab /\ ab[i] = a[i]
    BY <1>6, <2>0, CatParts
  <2> QED BY <1>8, <2>1
<1>11. q \in Seq(Calls) /\ 1 \in DOMAIN q /\ q[1] = ClearOf(p)
  BY <1>7, <1>8, <1>10, CatParts
<1>12. Prepared(ab)
  <2>1. a \in Seq(Calls) /\ b \in Seq(Calls) /\ Prepared(a)  BY <1>8, <1>9
  <2> QED BY <1>6, <1>9, <2>1, PreparedCat
<1>13. Prepared(q)
  <2>1. \A i \in DOMAIN d : \E j \in DOMAIN ab : ab[j] = ClearOf(d[i].id)  BY <1>8, <1>10
  <2>2. ab \in Seq(Calls) /\ d \in Seq(Calls)  BY <1>8, <1>10
  <2> QED BY <1>7, <1>12, <2>1, <2>2, PreparedCat
<1>14. PICK ids : ids = {p} \cup Elems(ds)  OBVIOUS
<1>15. Concerns(a, ids) /\ Concerns(b, ids) /\ Concerns(d, ids)
  BY <1>8, <1>9, <1>14 DEF Concerns
<1>16. Concerns(ab, ids)  BY <1>6, <1>8, <1>9, <1>15, ConcernsCat
<1>17. Concerns(q, ids)  BY <1>7, <1>8, <1>10, <1>15, <1>16, ConcernsCat
<1> QED BY <1>11, <1>13, <1>14, <1>17

LEMMA CleanupParts ==
    ASSUME NEW ps \in Seq(RtcIds), NEW ds \in Seq(RtcIds), NEW q, q = CleanupCalls(ps, ds)
    PROVE  /\ q \in Seq(Calls) /\ Prepared(q) /\ Concerns(q, Elems(ps) \cup Elems(ds))
           /\ \A i \in DOMAIN ps : i \in DOMAIN q /\ q[i] = ClearOf(ps[i])
<1>1. PICK last : last = <<[op |-> "cleanup", id |-> 0], [op |-> "join", id |-> 0]>>
  OBVIOUS
<1>2. PICK a : a = Clear(ps)  OBVIOUS
<1>3. PICK b : b = Clear(ds)  OBVIOUS
<1>4. PICK m : m = Delete(ds)  OBVIOUS
<1>5. PICK n : n = Delete(ps)  OBVIOUS
<1>6. PICK ab : ab = a \o b  OBVIOUS
<1>7. PICK abm : abm = ab \o m  OBVIOUS
<1>8. PICK abmn : abmn = abm \o n  OBVIOUS
<1>9. q = abmn \o last  BY <1>1, <1>2, <1>3, <1>4, <1>5, <1>6, <1>7, <1>8 DEF CleanupCalls
<1>10. PICK ids : ids = Elems(ps) \cup Elems(ds)  OBVIOUS
<1>11. /\ a \in Seq(Calls) /\ DOMAIN a = DOMAIN ps /\ (\A i \in DOMAIN ps : a[i] = ClearOf(ps[i]))
       /\ Prepared(a) /\ Concerns(a, Elems(ps))
  BY <1>2, ClearParts
<1>12. /\ b \in Seq(Calls) /\ DOMAIN b = DOMAIN ds /\ (\A i \in DOMAIN ds : b[i] = ClearOf(ds[i]))
       /\ Concerns(b, Elems(ds)) /\ \A i \in DOMAIN b : b[i].op # "delete"
  <2>1. /\ b \in Seq(Calls) /\ DOMAIN b = DOMAIN ds /\ (\A i \in DOMAIN ds : b[i] = ClearOf(ds[i]))
        /\ Concerns(b, Elems(ds))
    BY <1>3, ClearParts
  <2>2. \A i \in DOMAIN b : b[i].op # "delete"  BY <2>1 DEF ClearOf
  <2> QED BY <2>1, <2>2
<1>13. m \in Seq(Calls) /\ DOMAIN m = DOMAIN ds /\ (\A i \in DOMAIN ds : m[i].id = ds[i]) /\ Concerns(m, Elems(ds))
  BY <1>4, DeleteParts
<1>14. n \in Seq(Calls) /\ DOMAIN n = DOMAIN ps /\ (\A i \in DOMAIN ps : n[i].id = ps[i]) /\ Concerns(n, Elems(ps))
  BY <1>5, DeleteParts
<1>15. last \in Seq(Calls) /\ \A i \in DOMAIN last : last[i].op \notin {"clear", "delete"}
  <2>1. [op |-> "cleanup", id |-> 0] \in Calls /\ [op |-> "join", id |-> 0] \in Calls
    BY DEF Calls, AnyRtcId
  <2> QED BY <1>1, <2>1
<1>16. ab \in Seq(Calls) /\ abm \in Seq(Calls) /\ abmn \in Seq(Calls) /\ q \in Seq(Calls)
  <2>1. ab \in Seq(Calls)  BY <1>6, <1>11, <1>12
  <2>2. abm \in Seq(Calls)  BY <1>7, <1>13, <2>1
  <2>3. abmn \in Seq(Calls)  BY <1>8, <1>14, <2>2
  <2>0. last \in Seq(Calls)  BY <1>15
  <2>4. q \in Seq(Calls)  BY <1>9, <2>0, <2>3
  <2> QED BY <2>1, <2>2, <2>3, <2>4
<1>17. ASSUME NEW i \in DOMAIN ps
       PROVE  i \in DOMAIN abm /\ abm[i] = ClearOf(ps[i]) /\ i \in DOMAIN q /\ q[i] = ClearOf(ps[i])
  <2>1. i \in DOMAIN ab /\ ab[i] = ClearOf(ps[i])
    <3>1. i \in DOMAIN a /\ a[i] = ClearOf(ps[i])  BY <1>11
    <3> QED BY <1>6, <1>11, <1>12, <3>1, CatParts
  <2>2. i \in DOMAIN abm /\ abm[i] = ClearOf(ps[i])  BY <1>7, <1>13, <1>16, <2>1, CatParts
  <2>3. i \in DOMAIN abmn /\ abmn[i] = ClearOf(ps[i])
    BY <1>8, <1>14, <1>16, <2>2, CatParts
  <2> QED
    <3>1. last \in Seq(Calls) /\ abmn \in Seq(Calls)  BY <1>15, <1>16
    <3>2. i \in DOMAIN q /\ q[i] = abmn[i]  BY <1>9, <2>3, <3>1, CatParts
    <3> QED BY <2>2, <2>3, <3>2
<1>18. ASSUME NEW i \in DOMAIN ds PROVE \E j \in DOMAIN ab : ab[j] = ClearOf(ds[i])
  <2>1. i \in DOMAIN b /\ b[i] = ClearOf(ds[i])  BY <1>12
  <2>2. Len(a) + i \in DOMAIN ab /\ ab[Len(a) + i] = b[i]
    BY <1>6, <1>11, <1>12, <2>1, CatParts
  <2> QED BY <2>1, <2>2
<1>19. Prepared(ab)  BY <1>6, <1>11, <1>12, PreparedCat
<1>20. Prepared(abm)
  <2>1. \A i \in DOMAIN m : \E j \in DOMAIN ab : ab[j] = ClearOf(m[i].id)  BY <1>13, <1>18
  <2> QED BY <1>7, <1>13, <1>16, <1>19, <2>1, PreparedCat, ZenonT(30)
<1>21. Prepared(abmn)
  <2>1. \A i \in DOMAIN n : \E j \in DOMAIN abm : abm[j] = ClearOf(n[i].id)
    BY <1>14, <1>17
  <2> QED BY <1>8, <1>14, <1>16, <1>20, <2>1, PreparedCat, ZenonT(30)
<1>22. Prepared(q)  BY <1>9, <1>15, <1>16, <1>21, PreparedCat
<1>23. Concerns(a, ids) /\ Concerns(b, ids) /\ Concerns(m, ids) /\ Concerns(n, ids) /\ Concerns(last, ids)
  BY <1>10, <1>11, <1>12, <1>13, <1>14, <1>15 DEF Concerns
<1>24. Concerns(ab, ids)  BY <1>6, <1>11, <1>12, <1>23, ConcernsCat
<1>25. Concerns(abm, ids)  BY <1>7, <1>13, <1>16, <1>23, <1>24, ConcernsCat
<1>26. Concerns(abmn, ids)  BY <1>8, <1>14, <1>16, <1>23, <1>25, ConcernsCat
<1>27. Concerns(q, ids)  BY <1>9, <1>15, <1>16, <1>23, <1>26, ConcernsCat
<1> QED BY <1>10, <1>16, <1>17, <1>22, <1>27

\* ----------------------------------- a connection that is needed stays joined

LEMMA TailParts ==
    ASSUME NEW S, NEW s \in Seq(S), s # <<>>, NEW q, q = Tail(s)
    PROVE  /\ q \in Seq(S) /\ 1 \in DOMAIN s /\ Head(s) = s[1]
           /\ \A i \in DOMAIN q : i \in Nat /\ i + 1 \in DOMAIN s /\ q[i] = s[i + 1]
           /\ \A i \in DOMAIN s : i \in Nat /\ (i # 1 => i - 1 \in DOMAIN q)
<1>1. DOMAIN s = 1 .. Len(s) /\ Len(s) \in Nat /\ Len(s) # 0  OBVIOUS
<1>2. q \in Seq(S) /\ Len(q) = Len(s) - 1 /\ Head(s) = s[1]  OBVIOUS
<1>3. DOMAIN q = 1 .. Len(s) - 1  BY <1>1, <1>2
<1>4. \A i \in 1 .. Len(s) - 1 : q[i] = s[i + 1]  BY <1>1
<1> QED BY <1>1, <1>2, <1>3, <1>4

LEMMA WorkersLeave ==
    ASSUME TypeOK, Library \/ \E w \in Workers : CallbackStep(w)
    PROVE  th'[Script] = th[Script] /\ UNCHANGED <<rtcPeer, peers>>
<1>1. Script \in Threads /\ \A w \in Workers : w # Script  BY ScriptThread, WorkerThread
<1>2. CASE Library
  <2>1. UNCHANGED <<rtcPeer, peers>>
    BY <1>2, Zenon DEF Library, RtcChannelOpens, RtcChannelCloses, Fire, FireDataChannel, shimVars
  <2>2. ASSUME NEW d \in RtcIds, RtcChannelOpens(d) \/ RtcChannelCloses(d) PROVE th'[Script] = th[Script]
    BY <2>2 DEF RtcChannelOpens, RtcChannelCloses
  <2>3. ASSUME NEW w \in Workers, NEW id \in RtcIds, NEW k \in Kinds, Fire(w, id, k) PROVE th'[Script] = th[Script]
    BY <1>1, <2>3, FireGrasps
  <2>4. ASSUME NEW w \in Workers, NEW p \in RtcIds, NEW d \in RtcIds, FireDataChannel(w, p, d)
        PROVE  th'[Script] = th[Script]
    BY <1>1, <2>4, FireDataChannelGrasps
  <2> QED BY <1>2, <2>1, <2>2, <2>3, <2>4, SMTT(30) DEF Library
<1>3. ASSUME NEW w \in Workers, CallbackStep(w) PROVE th'[Script] = th[Script] /\ UNCHANGED <<rtcPeer, peers>>
  <2>1. UNCHANGED <<rtcPeer, peers>>
    BY <1>3, Zenon DEF CallbackStep, PeerCallback, ChannelCallback, OpenCallback, Lookup, Orphan, Revalidate,
       Register, WireChannel, CheckOpen, AnnounceOpen, shimVars
  <2> QED BY <1>1, <1>3, <2>1, CallbackGrasps, SMTT(30)
<1> QED BY <1>2, <1>3

\* The steps a script in a teardown can take.
LEMMA RtcSteps ==
    ASSUME TypeOK, [Next]_vars, At(Script, "rtc")
    PROVE  \/ th'[Script] = th[Script] /\ UNCHANGED <<rtcPeer, peers>>
           \/ ClearCallback \/ DeleteObject \/ RtcCleanup \/ RtcJoin \/ RtcDone
<1>1. CASE Call \/ PollStart
  BY <1>1 DEF Call, PollStart, At, PeerNew, PeerClose, PeerFreeLock, ChannelNew, ChannelClose,
     SetBufferedLow, ChannelFree, CleanupLock
<1>2. CASE ScriptStep
  BY <1>2 DEF ScriptStep, At, PeerAlloc, PeerRefused, WirePeer, Register, WireChannel, CheckOpen, AnnounceOpen,
     ChannelRefused, PeerFreeSweep, PeerFreeDone, CleanupChannel, CleanupPeer, CleanupReset,
     PollRetry, DrainLock, DrainDiscard, DrainDeliver, DrainEnd
<1>3. CASE UNCHANGED vars  BY <1>3 DEF vars, shimVars
<1> QED BY <1>1, <1>2, <1>3, WorkersLeave DEF Next

LEMMA ClearStep ==
    ASSUME TypeOK, ClearCallback, NEW c, c = th[Script]
    PROVE  /\ c.pc = "rtc" /\ c.todo \in Seq(Calls) /\ c.todo # <<>> /\ Head(c.todo).op = "clear"
           /\ UNCHANGED <<rtc, rtcPeer, peers, chans, orphans>>
           /\ \E r : /\ th' = [th EXCEPT ![Script] = r] /\ r.pc = "rtc" /\ r.kind = c.kind
                     /\ \/ Finishes(c, r, Head(c.todo).id)
                        \/ \E k : ClearsOne(c, r, Head(c.todo).id, k)
<1>1. c.pc = "rtc" /\ c.todo \in Seq(Calls) /\ c.todo # <<>> /\ Head(c.todo).op = "clear" /\ c \in Locals
  BY ScriptThread, Local DEF ClearCallback, Owes, At
<1>2. UNCHANGED <<rtc, rtcPeer, peers, chans, orphans>>  BY DEF ClearCallback, shimVars
<1>3. PICK id : id = Head(c.todo).id  OBVIOUS
<1>4. PICK left : left = c.ks \cap Elems(Order(id))  OBVIOUS
<1>5. CASE left = {}
  <2>1. PICK r : r = [c EXCEPT !.todo = Tail(@), !.ks = Kinds]  OBVIOUS
  <2>2. th' = [th EXCEPT ![Script] = r] /\ UNCHANGED wired
    BY <1>3, <1>4, <1>5, <2>1 DEF ClearCallback, Order
  <2>3. r.pc = "rtc" /\ r.kind = c.kind /\ r.todo = Tail(c.todo) /\ r.ks = Kinds
    BY <1>1, <2>1 DEF Locals
  <2> QED BY <1>1, <1>2, <1>3, <1>4, <1>5, <2>2, <2>3 DEF Finishes
<1>6. CASE left # {}
  <2>1. PICK k : k = FirstOf(left, Order(id))  OBVIOUS
  <2>2. k \in left  BY <1>4, <1>6, <2>1, FirstOfMember DEF Order
  <2>3. PICK r : r = [c EXCEPT !.ks = @ \ {k}]  OBVIOUS
  <2>4. th' = [th EXCEPT ![Script] = r] /\ ~InFlight(id, k) /\ wired' = [wired EXCEPT ![id] = @ \ {k}]
    BY <1>3, <1>4, <1>6, <2>1, <2>3 DEF ClearCallback, Order
  <2>5. r.pc = "rtc" /\ r.kind = c.kind /\ r.todo = c.todo /\ r.ks = c.ks \ {k}
    BY <1>1, <2>3 DEF Locals
  <2>6. ClearsOne(c, r, id, k)  BY <1>4, <2>2, <2>4, <2>5 DEF ClearsOne
  <2> QED BY <1>1, <1>2, <1>3, <2>4, <2>5, <2>6
<1> QED BY <1>5, <1>6

LEMMA JoinsHead ==
    ASSUME NEW c, NEW p, c.todo \in Seq(Calls), Joins(c, p)
    PROVE  c.pc = "rtc" /\ c.todo # <<>> /\ ClearsPc(Head(c.todo))
<1>1. PICK j \in DOMAIN c.todo : c.todo[j] = ClearOf(p) /\ \A i \in 1 .. j : ClearsPc(c.todo[i])
  BY DEF Joins
<1>2. c.todo # <<>> /\ 1 \in 1 .. j /\ Head(c.todo) = c.todo[1]  OBVIOUS
<1> QED BY <1>1, <1>2 DEF Joins

\* The list goes on, or the callbacks left to clear do.
LEMMA JoinsTail ==
    ASSUME NEW c, NEW r, NEW p, c.todo \in Seq(Calls), Joins(c, p),
           r.pc = "rtc", r.todo = Tail(c.todo), r.ks = Kinds, "DATA_CHANNEL" \in Kinds,
           Head(c.todo) = ClearOf(p) => "DATA_CHANNEL" \notin c.ks
    PROVE  Joins(r, p)
<1>1. PICK j \in DOMAIN c.todo : /\ c.todo[j] = ClearOf(p) /\ \A i \in 1 .. j : ClearsPc(c.todo[i])
                                 /\ j = 1 => "DATA_CHANNEL" \in c.ks
  BY DEF Joins
<1>2. c.todo # <<>> /\ Head(c.todo) = c.todo[1] /\ j \in Nat  OBVIOUS
<1>3. j # 1  BY <1>1, <1>2
<1>4. PICK k : k = j - 1  OBVIOUS
<1>5. k \in DOMAIN r.todo /\ r.todo[k] = c.todo[j]
  <2>1. k \in DOMAIN r.todo  BY <1>1, <1>2, <1>3, <1>4, TailParts
  <2>2. r.todo[k] = c.todo[k + 1] /\ k + 1 = j  BY <1>2, <1>4, <2>1, TailParts
  <2> QED BY <2>1, <2>2
<1>6. ASSUME NEW i \in 1 .. k PROVE ClearsPc(r.todo[i])
  <2>1. i \in DOMAIN r.todo  BY <1>2, <1>5, TailParts
  <2>2. r.todo[i] = c.todo[i + 1]  BY <1>2, <2>1, TailParts
  <2>3. i + 1 \in 1 .. j  BY <1>2, <1>4
  <2> QED BY <1>1, <2>2, <2>3
<1> QED BY <1>1, <1>5, <1>6 DEF Joins

LEMMA JoinsSame ==
    ASSUME NEW c, NEW r, NEW p, c.todo \in Seq(Calls), Joins(c, p),
           r.pc = "rtc", r.todo = c.todo,
           Head(c.todo) = ClearOf(p) /\ "DATA_CHANNEL" \in c.ks => "DATA_CHANNEL" \in r.ks
    PROVE  Joins(r, p)
<1>1. PICK j \in DOMAIN c.todo : /\ c.todo[j] = ClearOf(p) /\ \A i \in 1 .. j : ClearsPc(c.todo[i])
                                 /\ j = 1 => "DATA_CHANNEL" \in c.ks
  BY DEF Joins
<1>2. Head(c.todo) = c.todo[1]  BY <1>1
<1> QED BY <1>1, <1>2 DEF Joins

LEMMA JoinsKinds ==
    ASSUME NEW c, NEW p, Joins(c, p), KindsGrow
    PROVE  Joins(c, p)'
<1>1. PICK j \in DOMAIN c.todo : /\ c.todo[j] = ClearOf(p) /\ \A i \in 1 .. j : ClearsPc(c.todo[i])
                                 /\ j = 1 => "DATA_CHANNEL" \in c.ks
  BY DEF Joins
<1>2. \A i \in 1 .. j : ClearsPc(c.todo[i])'  BY <1>1 DEF ClearsPc, KindsGrow, IsPc
<1>3. c.pc = "rtc"  BY DEF Joins
<1> QED BY <1>1, <1>2, <1>3 DEF Joins, ClearOf

\* A script that is to join p does not stop before p is no more needed.
LEMMA JoinsStay ==
    ASSUME TypeOK, QuietInv, [Next]_vars, "DATA_CHANNEL" \in Kinds,
           NEW p \in RtcIds, Joins(th[Script], p), Needs(p)'
    PROVE  Joins(th'[Script], p)
<1>1. PICK c : c = th[Script]  OBVIOUS
<1>2. c.todo \in Seq(Calls) /\ Joins(c, p) /\ c \in Locals  BY <1>1, ScriptThread, Local
<1>3. c.pc = "rtc" /\ c.todo # <<>> /\ ClearsPc(Head(c.todo))  BY <1>2, JoinsHead
<1>4. CASE ClearCallback
  <2>1. PICK id : id = Head(c.todo).id  OBVIOUS
  <2>2. PICK r : /\ th' = [th EXCEPT ![Script] = r] /\ r.pc = "rtc"
                 /\ Finishes(c, r, id) \/ \E k : ClearsOne(c, r, id, k)
    BY <1>1, <1>4, <2>1, ClearStep
  <2>3. th'[Script] = r /\ \A u \in Threads : u # Script => th'[u] = th[u]
    BY <2>2, ScriptThread, ThreadSet
  <2>4. "DATA_CHANNEL" \in Elems(Order(id))
    BY <1>3, <2>1 DEF ClearsPc, Order, Elems, PeerCallbacks
  <2>5. Head(c.todo) = ClearOf(p) => id = p  BY <2>1 DEF ClearOf
  <2>6. CASE Finishes(c, r, id)
    <3>1. r.todo = Tail(c.todo) /\ r.ks = Kinds /\ "DATA_CHANNEL" \notin c.ks
      BY <2>4, <2>6 DEF Finishes
    <3>2. Joins(r, p)  BY <1>2, <2>2, <3>1, JoinsTail
    <3> QED BY <2>3, <3>2
  <2>7. ASSUME NEW k, ClearsOne(c, r, id, k) PROVE Joins(th'[Script], p)
    <3>1. /\ ~InFlight(id, k) /\ r.todo = c.todo /\ r.ks = c.ks \ {k}
          /\ wired' = [wired EXCEPT ![id] = @ \ {k}]
      BY <2>7 DEF ClearsOne
    <3>2. CASE k = "DATA_CHANNEL" /\ id = p
      <4>1. "DATA_CHANNEL" \notin wired'[p]  BY <3>1, <3>2 DEF TypeOK, LibraryOK
      <4>2. PICK w \in Workers : th'[w].pc \in ChannelLabels /\ th'[w].obj = p
        BY <4>1 DEF Needs
      <4>3. th'[w] = th[w]  BY <2>3, WorkerThread
      <4>4. WorkerOK(th[w])  BY DEF QuietInv
      <4>5. th[w].pc # "idle" /\ th[w].obj = p /\ th[w].kind = "DATA_CHANNEL"
        BY <4>2, <4>3, <4>4 DEF WorkerOK, ChannelLabels, RegisterLabels
      <4> QED BY <3>1, <3>2, <4>5 DEF InFlight, At
    <3>3. CASE ~(k = "DATA_CHANNEL" /\ id = p)
      <4>1. Head(c.todo) = ClearOf(p) /\ "DATA_CHANNEL" \in c.ks => "DATA_CHANNEL" \in r.ks
        BY <2>5, <3>1, <3>3
      <4>2. Joins(r, p)  BY <1>2, <2>2, <3>1, <4>1, JoinsSame
      <4> QED BY <2>3, <4>2
    <3> QED BY <3>2, <3>3
  <2> QED BY <2>2, <2>6, <2>7
<1>5. CASE th'[Script] = th[Script]  BY <1>5
<1>6. ~(DeleteObject \/ RtcCleanup \/ RtcJoin \/ RtcDone)
  <2>1. Head(c.todo).op = "clear" /\ c.todo # <<>>  BY <1>3 DEF ClearsPc
  <2> QED BY <1>1, <2>1 DEF DeleteObject, RtcCleanup, RtcJoin, RtcDone, Owes
<1> QED BY <1>1, <1>3, <1>4, <1>5, <1>6, RtcSteps DEF At

\* ------------------------------------------- a served connection stays served

\* The script's locals after dcx_peer_free's and dcx_cleanup's locked sections.
LEMMA PeerFreed ==
    ASSUME TypeOK, PeerFreeDone, NEW c, c = th[Script]
    PROVE  /\ c.pc = "pf_sweep" /\ c.obj \in AnyRtcId /\ c.dcs \in Seq(RtcIds)
           /\ rtcPeer' = [rtcPeer EXCEPT ![c.obj] = NoHandle]
           /\ UNCHANGED <<rtc, wired, chans, orphans>>
           /\ \E r : /\ th' = [th EXCEPT ![Script] = r] /\ r.pc = "rtc" /\ r.kind = c.kind
                     /\ r.ks = Kinds /\ r.todo = Teardown(c.obj, c.dcs)
<1>1. c \in Locals /\ c.pc = "pf_sweep" /\ c.obj \in AnyRtcId /\ c.dcs \in Seq(RtcIds)
  BY ScriptThread, Local DEF PeerFreeDone, At
<1>2. PICK todo : todo = Teardown(c.obj, c.dcs)  OBVIOUS
<1>3. PICK r : r = [c EXCEPT !.pc = "rtc", !.ks = Kinds, !.todo = todo]  OBVIOUS
<1>4. r.pc = "rtc" /\ r.kind = c.kind /\ r.ks = Kinds /\ r.todo = todo
  BY <1>1, <1>3 DEF Locals
<1>5. th' = [th EXCEPT ![Script] = r]  BY <1>2, <1>3 DEF PeerFreeDone
<1>6. rtcPeer' = [rtcPeer EXCEPT ![c.obj] = NoHandle] /\ UNCHANGED <<rtc, wired, chans, orphans>>
  BY DEF PeerFreeDone, rtcVars
<1> QED BY <1>1, <1>2, <1>4, <1>5, <1>6

LEMMA CleanedUp ==
    ASSUME TypeOK, CleanupReset, NEW c, c = th[Script]
    PROVE  /\ c.pc = "cl_sweep" /\ c.dcs \in Seq(RtcIds) /\ c.pcs \in Seq(RtcIds)
           /\ \A g : Get(peers, g) = Null
           /\ UNCHANGED <<rtc, wired, chans>> /\ orphans' = <<>>
           /\ \E r : /\ th' = [th EXCEPT ![Script] = r] /\ r.pc = "rtc" /\ r.kind = c.kind
                     /\ r.ks = Kinds /\ r.todo = CleanupCalls(c.pcs, c.dcs \o orphans)
<1>1. c \in Locals /\ c.pc = "cl_sweep" /\ c.dcs \in Seq(RtcIds) /\ c.pcs \in Seq(RtcIds)
  BY ScriptThread, Local DEF CleanupReset, At
<1>2. PICK todo : todo = CleanupCalls(c.pcs, c.dcs \o orphans)  OBVIOUS
<1>3. PICK r : r = [c EXCEPT !.pc = "rtc", !.ks = Kinds, !.todo = todo]  OBVIOUS
<1>4. r.pc = "rtc" /\ r.kind = c.kind /\ r.ks = Kinds /\ r.todo = todo
  BY <1>1, <1>3, SMTT(30) DEF Locals
<1>5. th' = [th EXCEPT ![Script] = r]  BY <1>2, <1>3 DEF CleanupReset, CleanupCalls
<1>6. UNCHANGED <<rtc, wired, chans>> /\ orphans' = <<>>  BY DEF CleanupReset, rtcVars
<1>7. \A g : Get(peers, g) = Null
  <2>1. LiveHandles(peers) = {}  BY DEF CleanupReset
  <2> QED BY <2>1, NullNone, GetFacts DEF TypeOK, TablesOK
<1> QED BY <1>1, <1>2, <1>4, <1>5, <1>6, <1>7

\* Only dcx_peer_new, dcx_peer_free and dcx_cleanup write the map.
LEMMA MapSteps ==
    ASSUME TypeOK, [Next]_vars
    PROVE  UNCHANGED rtcPeer \/ PeerAlloc \/ PeerFreeDone \/ CleanupReset
<1>1. CASE Library \/ \E w \in Workers : CallbackStep(w)  BY <1>1, WorkersLeave, SMTT(30)
<1>2. CASE Call \/ PollStart
  BY <1>2, ZenonT(30) DEF Call, PollStart, Poll, PeerNew, PeerClose, PeerFreeLock, ChannelNew, ChannelClose,
     SetBufferedLow, ChannelFree, CleanupLock, shimVars
<1>3. CASE ScriptStep
  BY <1>3, Zenon DEF ScriptStep, PeerRefused, WirePeer, Register, WireChannel, CheckOpen, AnnounceOpen,
     ChannelRefused, ClearCallback, DeleteObject, RtcCleanup, RtcJoin, RtcDone,
     PeerFreeSweep, CleanupChannel, CleanupPeer,
     PollRetry, Poll, DrainLock, DrainDiscard, DrainDeliver, DrainEnd, shimVars
<1>4. CASE UNCHANGED vars  BY <1>4 DEF vars, shimVars
<1> QED BY <1>1, <1>2, <1>3, <1>4 DEF Next

\* A connection loses its handle only to a teardown that joins it.
LEMMA RtcPeerMoves ==
    ASSUME TypeOK, MapsInv, QuietInv, [Next]_vars, "DATA_CHANNEL" \in Kinds,
           NEW p \in RtcIds, rtcPeer[p] # NoHandle
    PROVE  rtcPeer'[p] = rtcPeer[p] \/ Joins(th'[Script], p)
<1>1. PICK c : c = th[Script]  OBVIOUS
<1>2. CASE PeerAlloc
  <2>1. UNCHANGED rtcPeer \/ \E h : rtcPeer' = [rtcPeer EXCEPT ![th[Script].obj] = h]
    BY <1>2 DEF PeerAlloc
  <2>2. rtcPeer[th[Script].obj] = NoHandle  BY <1>2 DEF PeerAlloc, MapsInv, PeerInHand
  <2> QED BY <2>1, <2>2 DEF TypeOK, TablesOK
<1>3. CASE PeerFreeDone
  <2>1. /\ c.pc = "pf_sweep" /\ c.dcs \in Seq(RtcIds)
        /\ rtcPeer' = [rtcPeer EXCEPT ![c.obj] = NoHandle]
        /\ \E r : /\ th' = [th EXCEPT ![Script] = r] /\ r.pc = "rtc"
                  /\ r.ks = Kinds /\ r.todo = Teardown(c.obj, c.dcs)
    BY <1>1, <1>3, PeerFreed
  <2>2. PICK r : /\ th' = [th EXCEPT ![Script] = r] /\ r.pc = "rtc"
                 /\ r.ks = Kinds /\ r.todo = Teardown(c.obj, c.dcs)
    BY <2>1
  <2>3. th'[Script] = r  BY <2>2, ScriptThread, ThreadSet
  <2>4. CASE p # c.obj  BY <2>1, <2>4 DEF TypeOK, TablesOK
  <2>5. CASE p = c.obj
    <3>1. IsPc(p)  BY <1>1, <2>1, <2>5 DEF QuietInv, ScriptOK
    <3>2. 1 \in DOMAIN r.todo /\ r.todo[1] = ClearOf(p)
      BY <2>1, <2>2, <2>5, TeardownParts
    <3>3. ClearsPc(ClearOf(p))  BY <3>1 DEF ClearsPc, ClearOf
    <3>4. Joins(r, p)  BY <2>2, <3>2, <3>3 DEF Joins
    <3> QED BY <2>3, <3>4
  <2> QED BY <2>4, <2>5
<1>4. CASE CleanupReset
  <2>1. /\ c.pc = "cl_sweep" /\ c.dcs \in Seq(RtcIds) /\ c.pcs \in Seq(RtcIds)
        /\ \A g : Get(peers, g) = Null
    BY <1>1, <1>4, CleanedUp
  <2>2. PICK r : /\ th' = [th EXCEPT ![Script] = r] /\ r.pc = "rtc"
                 /\ r.ks = Kinds /\ r.todo = CleanupCalls(c.pcs, c.dcs \o orphans)
    BY <1>1, <1>4, CleanedUp
  <2>3. th'[Script] = r  BY <2>2, ScriptThread, ThreadSet
  <2>4. p \in Elems(c.pcs) /\ \A q \in Elems(c.pcs) : IsPc(q)
    BY <1>1, <2>1 DEF QuietInv, ScriptOK
  <2>5. PICK j \in DOMAIN c.pcs : c.pcs[j] = p  BY <2>4 DEF Elems
  <2>6. c.dcs \o orphans \in Seq(RtcIds)  BY <2>1 DEF TypeOK, TablesOK
  <2>7. \A i \in DOMAIN c.pcs : i \in DOMAIN r.todo /\ r.todo[i] = ClearOf(c.pcs[i])
    BY <2>1, <2>2, <2>6, CleanupParts, ZenonT(30)
  <2>8. ASSUME NEW i \in 1 .. j PROVE ClearsPc(r.todo[i])
    <3>1. i \in DOMAIN c.pcs /\ c.pcs[i] \in RtcIds  BY <2>1, <2>5
    <3>2. r.todo[i] = ClearOf(c.pcs[i]) /\ IsPc(c.pcs[i])  BY <2>4, <2>7, <3>1 DEF Elems
    <3> QED BY <3>1, <3>2 DEF ClearsPc, ClearOf
  <2>9. j \in DOMAIN r.todo /\ r.todo[j] = ClearOf(p)  BY <2>5, <2>7
  <2>10. Joins(r, p)  BY <2>2, <2>8, <2>9 DEF Joins
  <2> QED BY <2>3, <2>10
<1> QED BY <1>2, <1>3, <1>4, MapSteps

LEMMA JoinsNext ==
    ASSUME TypeOK, [Next]_vars, NEW p, Joins(th'[Script], p)
    PROVE  Joins(th[Script], p)'
<1>1. PICK c : c = th'[Script]  OBVIOUS
<1>2. Joins(c, p)'  BY <1>1, NextHands, JoinsKinds DEF HandsMove
<1> QED BY <1>1, <1>2 DEF Joins, ClearsPc

LEMMA ServesStays ==
    ASSUME TypeOK, MapsInv, QuietInv, [Next]_vars, "DATA_CHANNEL" \in Kinds,
           NEW p \in RtcIds, Serves(p), Needs(p)'
    PROVE  Serves(p)'
<1>1. CASE rtcPeer[p] # NoHandle  BY <1>1, RtcPeerMoves, JoinsNext DEF Serves
<1>2. CASE Joins(th[Script], p)  BY <1>2, JoinsStay, JoinsNext DEF Serves
<1> QED BY <1>1, <1>2 DEF Serves

\* What a worker bears it bore before, unless it was just made.
LEMMA BearsBefore ==
    ASSUME TypeOK, [Next]_vars, NEW w \in Workers, NEW d \in RtcIds, rtc[d].kind # "none", Bears(w, d)'
    PROVE  Bears(w, d) /\ th'[w].obj = th[w].obj
<1>1. th'[w].pc \in ChannelLabels /\ th'[w].dc = d  BY DEF Bears
<1>2. Grasps(th[w], th'[w])  BY WorkersGrasp
<1>3. th'[w].pc # "idle" /\ ~EntersBody(th'[w]) /\ ~EntersDataChannel(th'[w])
  BY <1>1 DEF EntersBody, EntersDataChannel, ChannelLabels, RegisterLabels
<1> QED BY <1>1, <1>2, <1>3 DEF Grasps, GoesOn, SameGrip, Bears

\* An object only the script knows of stays so, but for what the script does.
LEMMA UntouchedStays ==
    ASSUME TypeOK, [Next]_vars, NEW id \in RtcIds, Untouched(id), wired'[id] = {}
    PROVE  Untouched(id)'
<1>1. ASSUME NEW w \in Workers, th'[w].pc # "idle", th'[w].obj = id PROVE FALSE
  <2>1. Grasps(th[w], th'[w])  BY WorkersGrasp
  <2>2. wired[id] = {} /\ (th[w].pc # "idle" => th[w].obj # id)  BY DEF Untouched
  <2> QED
    BY <1>1, <2>1, <2>2 DEF Grasps, EntersBody, EntersDataChannel, GoesOn, SameGrip, ChannelLabels, RegisterLabels
<1> QED BY <1>1 DEF Untouched

\* -------------------------------------------------- objects are of their kind

LEMMA HandStays ==
    ASSUME TypeOK, MapsInv, [Next]_vars, NEW t \in Threads, th'[t].pc \in ChannelLabels
    PROVE  \/ th[t].pc \in ChannelLabels /\ th'[t].dc = th[t].dc
           \/ th'[t].pc \in Unregistered /\ rtc[th'[t].dc].kind = "none"
<1>1. TakesUp(t, th'[t])  BY NextHands DEF HandsMove
<1>2. th'[t].pc \in Unregistered \/ th'[t].pc \in AfterRegister
  BY DEF ChannelLabels, RegisterLabels, Unregistered, AfterRegister
<1>3. Unregistered \subseteq ChannelLabels /\ AfterRegister \subseteq ChannelLabels
  BY DEF ChannelLabels, RegisterLabels, Unregistered, AfterRegister
<1>4. CASE Registers(t)
  <2>1. th[t].pc = "register" /\ th'[t].dc = th[t].dc  BY <1>4, RegisterFacts
  <2> QED BY <2>1 DEF ChannelLabels, RegisterLabels
<1> QED BY <1>1, <1>2, <1>3, <1>4 DEF TakesUp, SameHand

LEMMA NextObjects ==
    ASSUME TypeOK, LockDiscipline, MapsInv, ObjectsOK, [Next]_vars
    PROVE  ObjectsOK'
<1>1. KindsGrow  BY NextHands DEF HandsMove
<1>2. \A d \in RtcIds : IsDc(d) => IsDc(d)'  BY <1>1 DEF KindsGrow, IsDc
<1>3. \A p \in RtcIds : IsPc(p) => IsPc(p)'  BY <1>1 DEF KindsGrow, IsPc
<1>4. FreshInHand'  BY NextMaps DEF MapsInv
<1>5. ASSUME NEW d \in Elems(orphans') PROVE IsDc(d)'
  <2>1. d \in RtcIds /\ IsDc(d)
    <3>1. CASE d \in Elems(orphans)  BY <3>1 DEF ObjectsOK, Elems, TypeOK, TablesOK
    <3>2. CASE \E w \in Workers : Parks(w, d)
      BY <3>2, WorkerThread, Local DEF ObjectsOK, Parks
    <3> QED BY <3>1, <3>2, OrphansMove
  <2> QED BY <1>2, <2>1
<1>6. ASSUME NEW h, Get(chans', h) # Null PROVE rtc'[Get(chans', h).rtc].kind = "dc"
  <2>1. CASE Get(chans, h) # Null /\ SameEntry(Get(chans, h), Get(chans', h))
    <3>1. Get(chans, h).rtc \in RtcIds /\ IsDc(Get(chans, h).rtc) /\ Get(chans', h).rtc = Get(chans, h).rtc
      BY <2>1, ChannelEntry DEF ObjectsOK, SameEntry
    <3> QED BY <1>1, <3>1 DEF KindsGrow, IsDc
  <2>2. ASSUME NEW t \in Threads, Registers(t), Get(chans', h).rtc = th[t].dc PROVE rtc'[Get(chans', h).rtc].kind = "dc"
    <3>1. th[t].dc \in RtcIds /\ IsDc(th[t].dc)  BY <2>2, RegisterFacts
    <3> QED BY <1>1, <2>2, <3>1 DEF KindsGrow, IsDc
  <2> QED BY <1>6, <2>1, <2>2, ChannelBefore
<1>7. ASSUME NEW h, Get(peers', h) # Null PROVE rtc'[Get(peers', h).rtc].kind = "pc"
  <2>1. CASE Get(peers, h) # Null /\ Get(peers', h) = Get(peers, h)
    <3>1. Get(peers, h).rtc \in RtcIds /\ IsPc(Get(peers, h).rtc)
      BY <2>1, PeerEntry DEF ObjectsOK
    <3> QED BY <1>1, <2>1, <3>1 DEF KindsGrow, IsPc
  <2>2. CASE PeerAlloc /\ Get(peers', h).rtc = th[Script].obj
    <3>1. th[Script].obj \in RtcIds /\ IsPc(th[Script].obj)
      BY <2>2, ScriptThread, Local DEF PeerAlloc, At, PeerLabels, MapsInv, PeerInHand, IsPc
    <3> QED BY <1>1, <2>2, <3>1 DEF KindsGrow, IsPc
  <2> QED BY <1>7, <2>1, <2>2, PeerBefore
<1>8. ASSUME NEW t \in Threads, th'[t].pc \in ChannelLabels PROVE rtc'[th'[t].dc].kind = "dc"
  <2>1. CASE th[t].pc \in ChannelLabels /\ th'[t].dc = th[t].dc
    <3>1. th[t].dc \in RtcIds /\ IsDc(th[t].dc)  BY <2>1, Local DEF ObjectsOK
    <3> QED BY <1>1, <2>1, <3>1 DEF KindsGrow, IsDc
  <2>2. CASE th'[t].pc \in Unregistered  BY <1>4, <2>2 DEF FreshInHand, IsDc
  <2> QED BY <1>8, <2>1, <2>2, HandStays
<1>9. ASSUME NEW t \in Threads, NEW u \in Threads, th'[t].pc \in ChannelLabels, th'[u].pc \in ChannelLabels,
             th'[t].dc = th'[u].dc
      PROVE  t = u
  <2>1. \/ th[t].pc \in ChannelLabels /\ th'[t].dc = th[t].dc /\ IsDc(th[t].dc)
        \/ th'[t].pc \in Unregistered /\ rtc[th'[t].dc].kind = "none"
    BY <1>9, HandStays DEF ObjectsOK
  <2>2. \/ th[u].pc \in ChannelLabels /\ th'[u].dc = th[u].dc /\ IsDc(th[u].dc)
        \/ th'[u].pc \in Unregistered /\ rtc[th'[u].dc].kind = "none"
    BY <1>9, HandStays DEF ObjectsOK
  <2>3. CASE th'[t].pc \in Unregistered /\ th'[u].pc \in Unregistered
    BY <1>4, <1>9, <2>3 DEF FreshInHand
  <2>4. CASE th[t].pc \in ChannelLabels /\ th'[t].dc = th[t].dc /\ th[u].pc \in ChannelLabels /\ th'[u].dc = th[u].dc
    BY <1>9, <2>4 DEF ObjectsOK
  <2> QED BY <1>9, <2>1, <2>2, <2>3, <2>4 DEF IsDc
<1> QED BY <1>5, <1>6, <1>7, <1>8, <1>9 DEF ObjectsOK, IsDc, IsPc

\* ---------------------------------------------- what is wired is of its order

LEMMA NextWires ==
    ASSUME TypeOK, LockDiscipline, MapsInv, QuietInv, [Next]_vars
    PROVE  WiresOK'
<1>1. KindsGrow /\ WiresMove  BY NextHands, WiresStep DEF HandsMove
<1>2. TypeOK'  BY NextTyped
<1>3. \A c \in {"E_CHANNEL_OPEN"} : c \in Elems(ChannelCallbacks)
  BY DEF Elems, ChannelCallbacks
<1>4. "E_BUFFERED_LOW" \in Elems(ChannelCallbacks) /\ "DATA_CHANNEL" \notin Elems(ChannelCallbacks)
  BY DEF Elems, ChannelCallbacks
<1> SUFFICES ASSUME NEW i \in RtcIds
             PROVE  /\ wired'[i] \subseteq Kinds \cap Elems(Order(i)')
                    /\ rtc'[i].kind = "none" => wired'[i] = {}
                    /\ "DATA_CHANNEL" \in wired'[i] => Serves(i)'
  BY DEF WiresOK
<1>5. rtc[i].kind # "none" => Order(i)' = Order(i) /\ rtc'[i].kind # "none"
  BY <1>1 DEF KindsGrow, Order, IsPc
<1>6. rtc[i].kind = "none" => wired[i] = {}  BY DEF QuietInv, WiresOK
<1>7. ASSUME NEW k, Wires(i, k)
      PROVE  /\ rtc[i].kind # "none" /\ k \in Kinds \cap Elems(Order(i))
             /\ k = "DATA_CHANNEL" => Serves(i)'
  <2>1. ASSUME NEW t \in Threads, th[t].pc = "wire", th[t].dc = i, k \in th[t].ks
        PROVE  IsDc(i) /\ k \in Kinds \cap Elems(ChannelCallbacks)
    <3>1. th[t].ks \subseteq Elems(ChannelCallbacks)  BY <2>1, Local DEF At
    <3>2. th[t].ks \subseteq Kinds
      <4>1. CASE t = Script  BY <2>1, <4>1 DEF QuietInv, ScriptOK
      <4>2. CASE t \in Workers  BY <2>1, <4>2 DEF QuietInv, WorkerOK
      <4> QED BY <4>1, <4>2 DEF Threads
    <3>3. IsDc(i)  BY <2>1 DEF QuietInv, ObjectsOK, ChannelLabels, RegisterLabels
    <3> QED BY <2>1, <3>1, <3>2, <3>3
  <2>2. CASE th[Script].pc = "pn_wire" /\ th[Script].obj = i /\ k \in th[Script].ks /\ UNCHANGED rtcPeer
    <3>1. k \in Kinds /\ IsPc(i) /\ rtcPeer[i] # NoHandle  BY <2>2 DEF QuietInv, ScriptOK
    <3>2. k \in Elems(PeerCallbacks)  BY <2>2, ScriptThread, Local DEF At
    <3> QED BY <2>2, <3>1, <3>2 DEF Order, IsPc, Serves
  <2>3. CASE k = "E_BUFFERED_LOW" /\ k \in Kinds /\ \E h : Get(chans, h) # Null /\ Get(chans, h).rtc = i
    <3>1. IsDc(i)  BY <2>3 DEF QuietInv, ObjectsOK
    <3> QED BY <1>4, <2>3, <3>1 DEF Order, IsPc, IsDc
  <2> QED BY <1>4, <1>7, <2>1, <2>2, <2>3 DEF Wires, Order, IsPc, IsDc
<1>8. ASSUME NEW k \in wired'[i]
      PROVE  rtc[i].kind # "none" /\ k \in Kinds \cap Elems(Order(i))
  <2>1. k \in wired[i] \/ Wires(i, k)  BY <1>1, <1>8 DEF WiresMove
  <2>2. k \in wired[i] => k \in Kinds \cap Elems(Order(i))  BY DEF QuietInv, WiresOK
  <2> QED BY <1>6, <1>7, <2>1, <2>2
<1>9. ASSUME "DATA_CHANNEL" \in wired'[i] PROVE Serves(i)'
  <2>1. CASE "DATA_CHANNEL" \in wired[i]
    <3>1. Serves(i) /\ "DATA_CHANNEL" \in Kinds  BY <2>1 DEF QuietInv, WiresOK
    <3>2. Needs(i)'  BY <1>9 DEF Needs
    <3> QED BY <3>1, <3>2, ServesStays
  <2> QED BY <1>1, <1>7, <1>9, <2>1 DEF WiresMove
<1>10. wired'[i] \subseteq Kinds \cap Elems(Order(i)')  BY <1>5, <1>8
<1>11. rtc'[i].kind = "none" => wired'[i] = {}  BY <1>5, <1>8
<1> QED BY <1>9, <1>10, <1>11

\* ----------------------------- a worker's callback is a callback of something

LEMMA NextWorker ==
    ASSUME TypeOK, LockDiscipline, MapsInv, QuietInv, [Next]_vars, NEW w \in Workers
    PROVE  WorkerOK(th[w])'
<1>1. KindsGrow  BY NextHands DEF HandsMove
<1>2. PICK c : c = th[w]  OBVIOUS
<1>3. PICK r : r = th'[w]  OBVIOUS
<1>4. Grasps(c, r) /\ WorkerOK(c)  BY <1>2, <1>3, WorkersGrasp DEF QuietInv
<1>5. w \in Threads /\ c \in Locals /\ (c.pc \in ChannelLabels => c.dc \in RtcIds)
  BY <1>2, WorkerThread, Local
<1>6. r.pc \in {"idle", "body"} \cup ChannelLabels
  BY <1>4 DEF Grasps, EntersBody, EntersDataChannel, GoesOn, WorkerOK, ChannelLabels
<1>7. ASSUME r.pc # "idle" PROVE r.obj \in RtcIds /\ rtc[r.obj].kind # "none"
  BY <1>4, <1>7 DEF Grasps, EntersBody, EntersDataChannel, GoesOn, WorkerOK, SameGrip, IsPc, ChannelLabels, RegisterLabels
<1>8. ASSUME r.pc # "idle" PROVE r.obj \in RtcIds /\ rtc'[r.obj].kind # "none"
  BY <1>1, <1>7, <1>8 DEF KindsGrow
<1>9. ASSUME r.pc = "wire" PROVE r.ks \subseteq Kinds
  BY <1>4, <1>9 DEF Grasps, EntersBody, EntersDataChannel, GoesOn, WorkerOK
<1>10. ASSUME r.pc \in ChannelLabels PROVE EntersDataChannel(r) \/ (c.pc \in ChannelLabels /\ SameGrip(r, c))
  BY <1>4, <1>10 DEF Grasps, EntersBody, GoesOn, SameGrip, ChannelLabels, RegisterLabels
<1>11. ASSUME r.pc \in ChannelLabels
       PROVE  r.kind = "DATA_CHANNEL" /\ "DATA_CHANNEL" \in Kinds /\ IsPc(r.obj) /\ r.obj \in RtcIds /\ Serves(r.obj)
  <2>1. CASE EntersDataChannel(r)  BY <2>1 DEF EntersDataChannel, QuietInv, WiresOK
  <2>2. CASE c.pc \in ChannelLabels /\ SameGrip(r, c)
    BY <1>4, <1>7, <1>11, <2>2 DEF WorkerOK, SameGrip, ChannelLabels, RegisterLabels
  <2> QED BY <1>10, <1>11, <2>1, <2>2
<1>12. ASSUME r.pc \in ChannelLabels PROVE IsPc(r.obj)' /\ Serves(r.obj)'
  <2>1. IsPc(r.obj)'  BY <1>1, <1>11, <1>12 DEF KindsGrow, IsPc
  <2>2. PICK p : p = r.obj  OBVIOUS
  <2>3. Needs(p)'  BY <1>3, <1>12, <2>2 DEF Needs
  <2>4. Serves(p)'  BY <1>11, <1>12, <2>2, <2>3, ServesStays
  <2> QED BY <2>1, <2>2, <2>4
<1>13. ASSUME r.pc \in ChannelLabels PROVE r.dc \notin Elems(orphans')
  <2>1. PICK d : d = r.dc  OBVIOUS
  <2>2. CASE EntersDataChannel(r)
    <3>1. rtc[d].kind = "none"  BY <2>1, <2>2 DEF EntersDataChannel
    <3>2. d \notin Elems(orphans) /\ \A v \in Workers : ~Parks(v, d)
      BY <3>1, WorkerThread DEF QuietInv, ObjectsOK, IsDc, Parks
    <3> QED BY <2>1, <3>2, OrphansMove
  <2>3. CASE c.pc \in ChannelLabels /\ c.dc = d
    <3>1. d \notin Elems(orphans)  BY <1>4, <2>3 DEF WorkerOK
    <3>2. ASSUME NEW v \in Workers, Parks(v, d) PROVE FALSE
      <4>1. v = w  BY <1>2, <1>5, <2>3, <3>2, WorkerThread DEF QuietInv, ObjectsOK, Parks
      <4> QED BY <1>3, <1>13, <3>2, <4>1 DEF Parks, ChannelLabels, RegisterLabels
    <3> QED BY <2>1, <3>1, <3>2, OrphansMove
  <2> QED BY <1>10, <1>13, <2>1, <2>2, <2>3 DEF SameGrip
<1>14. ASSUME r.pc \in RegisterLabels PROVE rtcPeer'[r.obj] = r.peer \/ Joins(th[Script], r.obj)'
  <2>1. r.pc \in ChannelLabels  BY <1>14 DEF ChannelLabels
  <2>2. PICK p : p = r.obj  OBVIOUS
  <2>3. Needs(p)'  BY <1>3, <2>1, <2>2 DEF Needs
  <2>4. "DATA_CHANNEL" \in Kinds /\ p \in RtcIds  BY <1>11, <2>1, <2>2
  <2>5. r.peer # NoHandle
    <3>1. TypeOK'  BY NextTyped
    <3>2. th'[w].peer \in Handles
      <4>1. th'[w] \in ThreadStates  BY <1>5, <3>1 DEF TypeOK
      <4> QED BY <1>3, <1>14, <4>1 DEF ThreadStates
    <3> QED BY <1>3, <3>2 DEF Handles, NoHandle
  <2>6. rtcPeer[p] = r.peer \/ Joins(th[Script], p)
    BY <1>4, <1>14, <2>2 DEF Grasps, EntersBody, EntersDataChannel, GoesOn, WorkerOK, SameGrip, RegisterLabels
  <2>7. rtcPeer'[p] = r.peer \/ Joins(th'[Script], p)
    BY <2>3, <2>4, <2>5, <2>6, RtcPeerMoves, JoinsStay
  <2> QED BY <2>2, <2>7, JoinsNext
<1>15. ASSUME r.pc \in AfterRegister, NEW h, Get(chans', h) # Null, Get(chans', h).rtc = r.dc
       PROVE  Get(chans', h).peer = r.peer
  <2>1. TakesUp(w, r)  BY <1>3, <1>5, NextHands DEF HandsMove
  <2>2. CASE c.pc \in AfterRegister /\ SameHand(r, c)
    <3>1. ASSUME NEW t \in Threads, Registers(t), th[t].dc = c.dc PROVE FALSE
      <4>1. th[t].pc = "register"  BY <3>1, RegisterFacts
      <4>2. t = w
        BY <1>2, <1>5, <2>2, <3>1, <4>1 DEF QuietInv, ObjectsOK, ChannelLabels, RegisterLabels, AfterRegister
      <4> QED BY <1>2, <2>2, <4>1, <4>2 DEF AfterRegister
    <3>2. Get(chans, h) # Null /\ SameEntry(Get(chans, h), Get(chans', h))
      BY <1>15, <2>2, <3>1, ChannelBefore DEF SameHand
    <3> QED BY <1>4, <1>15, <2>2, <3>2 DEF WorkerOK, SameHand, SameEntry
  <2>3. CASE Registers(w)
    <3>1. /\ r.dc = c.dc /\ r.peer = c.peer /\ c.pc = "register"
          /\ \A u \in Threads : th[u].pc \in Unregistered /\ th[u].dc = c.dc => u = w
      BY <1>2, <1>3, <1>5, <2>3, RegisterFacts
    <3>2. ASSUME Get(chans, h) # Null, Get(chans, h).rtc = c.dc PROVE FALSE
      <4>1. rtcChan[c.dc] = NoHandle
        BY <1>2, <1>5, <3>1 DEF MapsInv, FreshInHand, Unregistered
      <4>2. h \in Handles /\ rtcChan[c.dc] = h
        BY <3>2, ChannelEntry DEF MapsInv, MapsNamed, Named
      <4> QED BY <4>1, <4>2 DEF Handles, NoHandle
    <3>3. PICK t \in Threads : Registers(t) /\ Get(chans', h).peer = th[t].peer /\ Get(chans', h).rtc = th[t].dc
      BY <1>15, <3>1, <3>2, ChannelBefore DEF SameEntry
    <3>4. t = w
      <4>1. th[t].pc = "register"  BY <3>3, RegisterFacts
      <4> QED BY <1>15, <3>1, <3>3, <4>1 DEF Unregistered
    <3> QED BY <1>2, <3>1, <3>3, <3>4
  <2> QED BY <1>2, <1>15, <2>1, <2>2, <2>3 DEF TakesUp
<1> QED BY <1>3, <1>6, <1>8, <1>9, <1>11, <1>12, <1>13, <1>14, <1>15 DEF WorkerOK

\* ---------------------------------------------- while the script stands still

\* Nobody wires a callback of i but a worker that bears it, or the script where
\* it says so.
LEMMA WiredBy ==
    ASSUME TypeOK, QuietInv, [Next]_vars, NEW i \in RtcIds, NEW k \in wired'[i], k \notin wired[i],
           th[Script].pc \notin {"wire", "pn_wire", "idle"}
    PROVE  \E w \in Workers : Bears(w, i) /\ IsDc(i)
<1>1. Wires(i, k)  BY WiresStep DEF WiresMove
<1>2. PICK t \in Threads : th[t].pc = "wire" /\ th[t].dc = i  BY <1>1 DEF Wires, At
<1>3. t \in Workers  BY <1>2 DEF Threads
<1>4. Bears(t, i)  BY <1>2 DEF Bears, ChannelLabels, RegisterLabels
<1>5. IsDc(i)  BY <1>2, <1>4 DEF Bears, QuietInv, ObjectsOK
<1> QED BY <1>3, <1>4, <1>5

LEMMA QuietStays ==
    ASSUME TypeOK, QuietInv, [Next]_vars, NEW d \in RtcIds, rtc[d].kind # "none", Quiet(d),
           th[Script].pc \notin {"wire", "pn_wire", "idle"}
    PROVE  Quiet(d)'
<1>1. wired'[d] = {}  BY WiredBy DEF Quiet
<1> QED BY <1>1, BearsBefore DEF Quiet

LEMMA StillScript ==
    ASSUME TypeOK, LockDiscipline, MapsInv, QuietInv, [Next]_vars,
           th'[Script] = th[Script], UNCHANGED <<rtcPeer, peers>>
    PROVE  ScriptOK(th[Script])'
<1>1. KindsGrow  BY NextHands DEF HandsMove
<1>2. PICK c : c = th[Script]  OBVIOUS
<1>3. c \in Locals /\ c.dcs \in Seq(RtcIds) /\ c.pcs \in Seq(RtcIds) /\ ScriptOK(c)
  BY <1>2, ScriptThread, Local DEF QuietInv
<1>4. ASSUME c.pc \in {"pn_alloc", "pn_refused"} PROVE IsPc(c.obj)' /\ Untouched(c.obj)'
  <2>1. c.obj \in RtcIds /\ IsPc(c.obj) /\ Untouched(c.obj)
    BY <1>2, <1>3, <1>4, ScriptThread, Local DEF ScriptOK, PeerLabels
  <2>2. PICK i : i = c.obj  OBVIOUS
  <2>3. \A w \in Workers : ~(Bears(w, i) /\ IsDc(i))  BY <2>1, <2>2 DEF IsDc, IsPc
  <2>4. wired'[i] = {}  BY <1>2, <1>4, <2>1, <2>2, <2>3, WiredBy DEF Untouched
  <2>5. Untouched(i)'  BY <2>1, <2>2, <2>4, UntouchedStays
  <2> QED BY <1>1, <2>1, <2>2, <2>5 DEF KindsGrow, IsPc
<1>5. ASSUME c.pc = "pn_wire" PROVE IsPc(c.obj)' /\ rtcPeer'[c.obj] # NoHandle
  <2>1. c.obj \in RtcIds  BY <1>2, <1>5, ScriptThread, Local DEF PeerLabels
  <2> QED BY <1>1, <1>3, <1>5, <2>1 DEF ScriptOK, KindsGrow, IsPc
<1>6. ASSUME c.pc \in {"register", "refused"} PROVE Untouched(c.dc)'
  <2>1. c.dc \in RtcIds /\ Untouched(c.dc)
    BY <1>2, <1>3, <1>6, ScriptThread, Local DEF ScriptOK, ChannelLabels, RegisterLabels
  <2>2. PICK i : i = c.dc  OBVIOUS
  <2>3. \A w \in Workers : ~Bears(w, i)
    BY <1>2, <1>6, <2>2, ScriptThread, WorkerThread DEF Bears, QuietInv, ObjectsOK, ChannelLabels, RegisterLabels
  <2>4. wired'[i] = {}  BY <1>2, <1>6, <2>1, <2>2, <2>3, WiredBy DEF Untouched
  <2> QED BY <2>1, <2>2, <2>4, UntouchedStays
<1>7. ASSUME c.pc = "pf_sweep"
      PROVE  /\ c.kind = "peer_free" /\ IsPc(c.obj)' /\ rtcPeer'[c.obj] = c.peer
             /\ \A d \in Elems(c.dcs) : IsDc(d)' /\ \A w \in Workers : Bears(w, d)' => th'[w].obj = c.obj
  <2>1. c.kind = "peer_free" /\ IsPc(c.obj) /\ rtcPeer[c.obj] = c.peer
    BY <1>3, <1>7 DEF ScriptOK
  <2>2. c.obj \in RtcIds  BY <1>2, <1>7, PeerEntry DEF MapsInv, PeerInHand, At
  <2>3. ASSUME NEW d \in Elems(c.dcs) PROVE IsDc(d)' /\ \A w \in Workers : Bears(w, d)' => th'[w].obj = c.obj
    <3>1. d \in RtcIds  BY <1>3 DEF Elems
    <3>2. IsDc(d) /\ \A w \in Workers : Bears(w, d) => th[w].obj = c.obj
      BY <1>3, <1>7 DEF ScriptOK
    <3>3. IsDc(d)' /\ rtc[d].kind # "none"  BY <1>1, <3>1, <3>2 DEF KindsGrow, IsDc
    <3> QED BY <3>1, <3>2, <3>3, BearsBefore
  <2> QED BY <1>1, <2>1, <2>2, <2>3 DEF KindsGrow, IsPc
<1>8. ASSUME c.pc = "cl_sweep"
      PROVE  /\ c.kind = "cleanup"
             /\ \A d \in Elems(c.dcs) : IsDc(d)'
             /\ \A p \in Elems(c.pcs) : IsPc(p)'
             /\ \A p \in RtcIds : rtcPeer'[p] # NoHandle =>
                   \/ p \in Elems(c.pcs)
                   \/ Get(peers', rtcPeer'[p]) # Null /\ Get(peers', rtcPeer'[p]).rtc = p
  <2>1. Elems(c.dcs) \subseteq RtcIds /\ Elems(c.pcs) \subseteq RtcIds  BY <1>3 DEF Elems
  <2>2. /\ c.kind = "cleanup"
        /\ \A d \in Elems(c.dcs) : IsDc(d)'
        /\ \A p \in Elems(c.pcs) : IsPc(p)'
    BY <1>1, <1>3, <1>8, <2>1 DEF ScriptOK, KindsGrow, IsDc, IsPc
  <2>3. \A p \in RtcIds : rtcPeer[p] # NoHandle =>
           p \in Elems(c.pcs) \/ (Get(peers, rtcPeer[p]) # Null /\ Get(peers, rtcPeer[p]).rtc = p)
    BY <1>3, <1>8 DEF ScriptOK
  <2> QED BY <2>2, <2>3
<1>9. (c.pc = "idle" => c = Idle) /\ (c.pc \in {"wire", "pn_wire"} => c.ks \subseteq Kinds)
  BY <1>3 DEF ScriptOK
<1>10. th'[Script] = c  BY <1>2
<1> QED BY <1>4, <1>5, <1>6, <1>7, <1>8, <1>9, <1>10 DEF ScriptOK

LEMMA StillTodo ==
    ASSUME TypeOK, QuietInv, [Next]_vars, th'[Script] = th[Script]
    PROVE  TodoOK(th[Script])'
<1>1. KindsGrow  BY NextHands DEF HandsMove
<1>2. PICK c : c = th[Script]  OBVIOUS
<1>3. c.todo \in Seq(Calls) /\ TodoOK(c) /\ th'[Script] = c
  BY <1>2, ScriptThread, Local DEF QuietInv
<1> SUFFICES ASSUME c.pc = "rtc" PROVE TodoOK(c)'  BY <1>3 DEF TodoOK
<1>4. ASSUME NEW i \in DOMAIN c.todo, c.todo[i].op \in {"clear", "delete"}
      PROVE  c.todo[i].id \in RtcIds /\ rtc[c.todo[i].id].kind # "none" /\ rtc'[c.todo[i].id].kind # "none"
  BY <1>1, <1>3, <1>4 DEF TodoOK, KindsGrow
<1>5. ASSUME c.kind # "channel_free", NEW i \in DOMAIN c.todo, c.todo[i].op = "delete",
             ~\E j \in 1 .. i - 1 : c.todo[j] = ClearOf(c.todo[i].id)
      PROVE  Quiet(c.todo[i].id)'
  <2>1. PICK d : d = c.todo[i].id  OBVIOUS
  <2>2. Quiet(d) /\ d \in RtcIds /\ rtc[d].kind # "none"
    BY <1>3, <1>4, <1>5, <2>1 DEF TodoOK
  <2>3. Quiet(d)'  BY <1>2, <2>2, QuietStays
  <2> QED BY <2>1, <2>3
<1>6. ASSUME c.kind # "channel_free", NEW i \in DOMAIN c.todo, NEW w \in Workers,
             c.todo[i].op \in {"clear", "delete"}, Bears(w, c.todo[i].id)'
      PROVE  Joins(c, th[w].obj)'
  <2>1. PICK d : d = c.todo[i].id  OBVIOUS
  <2>2. Bears(w, d) /\ th'[w].obj = th[w].obj  BY <1>4, <1>6, <2>1, BearsBefore
  <2>3. Joins(c, th[w].obj)  BY <1>3, <1>6, <2>1, <2>2 DEF TodoOK
  <2>4. PICK p : p = th[w].obj  OBVIOUS
  <2>5. Joins(c, p)'  BY <1>1, <2>3, <2>4, JoinsKinds
  <2> QED BY <2>2, <2>4, <2>5 DEF Joins, ClearsPc
<1>7. ASSUME c.kind # "channel_free", c.todo # <<>>, Head(c.todo).op = "clear"
      PROVE  wired'[Head(c.todo).id] \subseteq c.ks
  <2>1. PICK d : d = Head(c.todo).id  OBVIOUS
  <2>2. 1 \in DOMAIN c.todo /\ Head(c.todo) = c.todo[1]  BY <1>3, <1>7
  <2>3. d \in RtcIds /\ wired[d] \subseteq c.ks
    BY <1>3, <1>4, <1>7, <2>1, <2>2 DEF TodoOK
  <2>4. ASSUME NEW w \in Workers, Bears(w, d), IsDc(d) PROVE FALSE
    <3>1. PICK p : p = th[w].obj  OBVIOUS
    <3>2. Joins(c, p)  BY <1>3, <1>7, <2>1, <2>2, <2>4, <3>1 DEF TodoOK
    <3>3. IsPc(d)  BY <1>3, <2>1, <3>2, JoinsHead DEF ClearsPc
    <3> QED BY <2>4, <3>3 DEF IsPc, IsDc
  <2>5. \A k \in wired'[d] : k \in wired[d]  BY <1>2, <2>3, <2>4, WiredBy
  <2> QED BY <2>1, <2>3, <2>5
<1>8. c.kind # "channel_free" /\ c.todo # <<>> /\ Head(c.todo).op # "clear" => c.ks = Kinds
  BY <1>3 DEF TodoOK
<1> QED BY <1>4, <1>5, <1>6, <1>7, <1>8 DEF TodoOK

\* Where the script holds nothing, nothing is asked.
LEMMA FreeScript ==
    ASSUME th'[Script] = Idle \/ th'[Script].pc \in {"drain_lock", "drain", "retry", "isopen", "announce"}
                \/ (th'[Script].pc = "wire" /\ th'[Script].ks \subseteq Kinds)
    PROVE  ScriptOK(th[Script])' /\ TodoOK(th[Script])'
  BY IdleHand DEF ScriptOK, TodoOK

\* ---------------------------------------------------------- a teardown begins

LEMMA OrdinaryStep ==
    ASSUME TypeOK, NEW r, th' = [th EXCEPT ![Script] = r], UNCHANGED <<rtc, wired>>
    PROVE  Ordinary(r)
  BY ScriptThread, WorkerThread, ThreadSet DEF Ordinary

LEMMA OrdinaryKeeps ==
    ASSUME NEW r, Ordinary(r)
    PROVE  /\ \A i : IsPc(i)' = IsPc(i) /\ IsDc(i)' = IsDc(i)
           /\ \A w \in Workers : \A d : Bears(w, d)' = Bears(w, d)
           /\ \A d : Quiet(d)' = Quiet(d) /\ Untouched(d)' = Untouched(d)
  BY DEF Ordinary, IsPc, IsDc, Bears, Quiet, Untouched

\* A teardown that clears and deletes these objects may begin.
LEMMA TeardownBegins ==
    ASSUME TypeOK, WiresOK, NEW r, Ordinary(r), r.pc = "rtc", r.ks = Kinds, r.todo \in Seq(Calls),
           NEW ids, Concerns(r.todo, ids), \A d \in ids : d \in RtcIds /\ rtc[d].kind # "none",
           r.kind # "channel_free" =>
              /\ Prepared(r.todo)
              /\ \A d \in ids : \A w \in Workers : Bears(w, d) => Joins(r, th[w].obj)
    PROVE  ScriptOK(th[Script])' /\ TodoOK(th[Script])'
<1>1. th'[Script] = r /\ UNCHANGED <<rtc, wired>> /\ \A w \in Workers : th'[w] = th[w]
  BY DEF Ordinary
<1>2. ScriptOK(th[Script])'  BY <1>1 DEF ScriptOK
<1>3. ASSUME NEW i \in DOMAIN r.todo, r.todo[i].op \in {"clear", "delete"}
      PROVE  r.todo[i].id \in ids /\ r.todo[i].id \in RtcIds /\ rtc[r.todo[i].id].kind # "none"
  BY <1>3 DEF Concerns
<1>4. ASSUME r.kind # "channel_free", NEW i \in DOMAIN r.todo, NEW w \in Workers,
             r.todo[i].op \in {"clear", "delete"}, Bears(w, r.todo[i].id)
      PROVE  Joins(r, th[w].obj)'
  <2>1. Joins(r, th[w].obj)  BY <1>3, <1>4
  <2> QED BY <1>1, <2>1 DEF Joins, ClearsPc, IsPc
<1>5. ASSUME r.todo # <<>>, Head(r.todo).op = "clear"
      PROVE  wired[Head(r.todo).id] \subseteq Kinds
  <2>1. 1 \in DOMAIN r.todo /\ Head(r.todo) = r.todo[1]  BY <1>5
  <2> QED BY <1>3, <1>5, <2>1 DEF WiresOK
<1>6. r.kind # "channel_free" => \A i \in DOMAIN r.todo : r.todo[i].op = "delete" =>
         \E j \in 1 .. i - 1 : r.todo[j] = ClearOf(r.todo[i].id)
  BY DEF Prepared
<1>7. \A w \in Workers : \A d : Bears(w, d)' => Bears(w, d)  BY <1>1 DEF Bears
<1>8. TodoOK(r)'  BY <1>1, <1>3, <1>4, <1>5, <1>6, <1>7 DEF TodoOK
<1> QED BY <1>1, <1>2, <1>8 DEF TodoOK

LEMMA BeginsChannelFree ==
    ASSUME TypeOK, MapsInv, QuietInv, NEW h, ChannelFree(h)
    PROVE  ScriptOK(th[Script])' /\ TodoOK(th[Script])'
<1>1. PICK d : d = Get(chans, h).rtc  OBVIOUS
<1>2. d \in RtcIds /\ IsDc(d) /\ UNCHANGED <<rtc, wired>>
  BY <1>1, ChannelEntry DEF ChannelFree, QuietInv, ObjectsOK, rtcVars
<1>3. PICK ids : ids = <<d>>  OBVIOUS
<1>4. PICK todo : todo = ClearAndDelete(ids)  OBVIOUS
<1>5. PICK r : r = [Idle EXCEPT !.pc = "rtc", !.kind = "channel_free", !.ks = Kinds, !.todo = todo]
  OBVIOUS
<1>6. r.pc = "rtc" /\ r.kind = "channel_free" /\ r.ks = Kinds /\ r.todo = todo
  BY <1>5 DEF Idle
<1>7. th' = [th EXCEPT ![Script] = r]  BY <1>1, <1>3, <1>4, <1>5 DEF ChannelFree
<1>8. ids \in Seq(RtcIds) /\ Elems(ids) = {d}  BY <1>2, <1>3 DEF Elems
<1>9. todo \in Seq(Calls) /\ Concerns(todo, Elems(ids))  BY <1>4, <1>8, ReapParts
<1>10. Ordinary(r)  BY <1>2, <1>7, OrdinaryStep
<1>11. \A e \in Elems(ids) : e \in RtcIds /\ rtc[e].kind # "none"  BY <1>2, <1>8 DEF IsDc
<1> QED BY <1>6, <1>9, <1>10, <1>11, TeardownBegins DEF QuietInv

LEMMA BeginsPoll ==
    ASSUME TypeOK, QuietInv, NEW again, Poll(again)
    PROVE  ScriptOK(th[Script])' /\ TodoOK(th[Script])'
<1>1. orphans \in Seq(RtcIds) /\ UNCHANGED <<rtc, wired>>
  BY DEF TypeOK, TablesOK, Poll, rtcVars
<1>2. PICK ids : ids = orphans  OBVIOUS
<1>4. PICK todo : todo = ClearAndDelete(ids)  OBVIOUS
<1>5. PICK r : r = [Idle EXCEPT !.pc = "rtc", !.kind = "poll", !.ks = Kinds, !.todo = todo, !.again = again]
  OBVIOUS
<1>6. r.pc = "rtc" /\ r.kind = "poll" /\ r.ks = Kinds /\ r.todo = todo  BY <1>5 DEF Idle
<1>7. th' = [th EXCEPT ![Script] = r]  BY <1>2, <1>4, <1>5 DEF Poll
<1>9. todo \in Seq(Calls) /\ Concerns(todo, Elems(ids)) /\ Prepared(todo)
  BY <1>1, <1>2, <1>4, ReapParts
<1>10. Ordinary(r)  BY <1>1, <1>7, OrdinaryStep
<1>11. \A e \in Elems(ids) : e \in RtcIds /\ rtc[e].kind # "none"
  <2>1. \A e \in Elems(orphans) : e \in RtcIds /\ IsDc(e)
    BY <1>1 DEF Elems, QuietInv, ObjectsOK
  <2> QED BY <1>2, <2>1 DEF IsDc
<1>12. \A e \in Elems(ids) : \A w \in Workers : ~Bears(w, e)
  BY <1>2 DEF QuietInv, WorkerOK, Bears
<1> QED BY <1>6, <1>9, <1>10, <1>11, <1>12, TeardownBegins DEF QuietInv

LEMMA BeginsPeerFree ==
    ASSUME TypeOK, MapsInv, QuietInv, PeerFreeDone
    PROVE  ScriptOK(th[Script])' /\ TodoOK(th[Script])'
<1>1. PICK c : c = th[Script]  OBVIOUS
<1>2. c.pc = "pf_sweep" /\ c.dcs \in Seq(RtcIds) /\ UNCHANGED <<rtc, wired>>
  BY <1>1, PeerFreed
<1>3. PICK r : /\ th' = [th EXCEPT ![Script] = r] /\ r.pc = "rtc" /\ r.kind = c.kind
               /\ r.ks = Kinds /\ r.todo = Teardown(c.obj, c.dcs)
  BY <1>1, PeerFreed
<1>4. /\ c.kind = "peer_free" /\ IsPc(c.obj)
      /\ \A d \in Elems(c.dcs) : IsDc(d) /\ \A w \in Workers : Bears(w, d) => th[w].obj = c.obj
  BY <1>1, <1>2 DEF QuietInv, ScriptOK
<1>5. c.obj \in RtcIds  BY <1>1, <1>2, PeerEntry DEF MapsInv, PeerInHand, At
<1>6. PICK ids : ids = {c.obj} \cup Elems(c.dcs)  OBVIOUS
<1>7. /\ r.todo \in Seq(Calls) /\ Prepared(r.todo) /\ Concerns(r.todo, ids)
      /\ 1 \in DOMAIN r.todo /\ r.todo[1] = ClearOf(c.obj)
  BY <1>2, <1>3, <1>5, <1>6, TeardownParts
<1>8. \A d \in ids : d \in RtcIds /\ rtc[d].kind # "none"
  BY <1>2, <1>4, <1>5, <1>6 DEF IsPc, IsDc, Elems
<1>9. ASSUME NEW d \in ids, NEW w \in Workers, Bears(w, d) PROVE Joins(r, th[w].obj)
  <2>1. IsDc(d)  BY <1>9, WorkerThread DEF Bears, QuietInv, ObjectsOK
  <2>2. th[w].obj = c.obj /\ "DATA_CHANNEL" \in Kinds
    BY <1>4, <1>6, <1>9, <2>1 DEF IsPc, IsDc, QuietInv, WorkerOK, Bears
  <2>3. ClearsPc(ClearOf(c.obj))  BY <1>4, <1>5 DEF ClearsPc, ClearOf
  <2>4. Joins(r, c.obj)  BY <1>3, <1>7, <2>2, <2>3 DEF Joins
  <2> QED BY <2>2, <2>4
<1>10. Ordinary(r)  BY <1>2, <1>3, OrdinaryStep
<1> QED BY <1>3, <1>7, <1>8, <1>9, <1>10, TeardownBegins DEF QuietInv

LEMMA BeginsCleanup ==
    ASSUME TypeOK, MapsInv, QuietInv, [Next]_vars, CleanupReset
    PROVE  ScriptOK(th[Script])' /\ TodoOK(th[Script])'
<1>1. PICK c : c = th[Script]  OBVIOUS
<1>2. c.pc = "cl_sweep" /\ c.dcs \in Seq(RtcIds) /\ c.pcs \in Seq(RtcIds) /\ UNCHANGED <<rtc, wired>>
  BY <1>1, CleanedUp
<1>3. PICK r : /\ th' = [th EXCEPT ![Script] = r] /\ r.pc = "rtc" /\ r.kind = c.kind
               /\ r.ks = Kinds /\ r.todo = CleanupCalls(c.pcs, c.dcs \o orphans)
  BY <1>1, CleanedUp
<1>4. /\ \A d \in Elems(c.dcs) : IsDc(d)
      /\ \A p \in Elems(c.pcs) : IsPc(p)
  BY <1>1, <1>2 DEF QuietInv, ScriptOK
<1>5. PICK ds : ds = c.dcs \o orphans  OBVIOUS
<1>6. ds \in Seq(RtcIds) /\ \A d \in Elems(ds) : IsDc(d)
  <2>1. orphans \in Seq(RtcIds) /\ \A d \in Elems(orphans) : IsDc(d)
    BY DEF TypeOK, TablesOK, QuietInv, ObjectsOK
  <2>2. /\ ds \in Seq(RtcIds)
        /\ \A i \in DOMAIN ds : \/ i \in DOMAIN c.dcs /\ ds[i] = c.dcs[i]
                                \/ i - Len(c.dcs) \in DOMAIN orphans /\ ds[i] = orphans[i - Len(c.dcs)]
    BY <1>2, <1>5, <2>1, CatParts
  <2> QED BY <1>4, <2>1, <2>2 DEF Elems
<1>7. PICK ids : ids = Elems(c.pcs) \cup Elems(ds)  OBVIOUS
<1>8. r.todo \in Seq(Calls) /\ Prepared(r.todo) /\ Concerns(r.todo, ids)
  BY <1>2, <1>3, <1>5, <1>6, <1>7, CleanupParts
<1>9. \A d \in ids : d \in RtcIds /\ rtc[d].kind # "none"
  BY <1>2, <1>4, <1>6, <1>7 DEF IsPc, IsDc, Elems
<1>10. Ordinary(r)  BY <1>2, <1>3, OrdinaryStep
<1>11. ASSUME NEW d \in ids, NEW w \in Workers, Bears(w, d) PROVE Joins(r, th[w].obj)
  <2>1. "DATA_CHANNEL" \in Kinds /\ Serves(th[w].obj) /\ th[w].obj \in RtcIds
    BY <1>11 DEF QuietInv, WorkerOK, Bears, ChannelLabels, RegisterLabels
  <2>2. PICK p : p = th[w].obj  OBVIOUS
  <2>3. rtcPeer[p] # NoHandle  BY <1>1, <1>2, <2>1, <2>2 DEF Serves, Joins
  <2>4. rtcPeer'[p] = NoHandle  BY <2>1, <2>2 DEF CleanupReset, NoMap
  <2>5. Joins(th'[Script], p)  BY <2>1, <2>2, <2>3, <2>4, RtcPeerMoves
  <2> QED BY <1>10, <2>2, <2>5 DEF Ordinary
<1> QED BY <1>3, <1>8, <1>9, <1>10, <1>11, TeardownBegins DEF QuietInv

\* --------------------------------------------------------- a teardown goes on

\* What a worker bears while it is to be cleared or deleted is still joined
\* before that.
LEMMA BorneJoined ==
    ASSUME TypeOK, QuietInv, [Next]_vars, NEW c, c = th[Script], c.pc = "rtc", c.kind # "channel_free",
           NEW i \in DOMAIN c.todo, c.todo[i].op \in {"clear", "delete"},
           NEW w \in Workers, th'[w] = th[w], Bears(w, c.todo[i].id)
    PROVE  Joins(c, th[w].obj) /\ Joins(th'[Script], th[w].obj)
<1>1. PICK p : p = th[w].obj  OBVIOUS
<1>2. Joins(c, p)  BY <1>1 DEF QuietInv, TodoOK
<1>3. "DATA_CHANNEL" \in Kinds /\ p \in RtcIds
  BY <1>1 DEF QuietInv, WorkerOK, Bears, ChannelLabels, RegisterLabels
<1>4. Needs(p)'  BY <1>1 DEF Needs, Bears
<1> QED BY <1>1, <1>2, <1>3, <1>4, JoinsStay

\* What heads the list is borne by nobody, but a connection whose channels are.
LEMMA HeadUnborne ==
    ASSUME TypeOK, QuietInv, [Next]_vars, NEW c, c = th[Script], c.pc = "rtc", c.kind # "channel_free",
           c.todo # <<>>, Head(c.todo).op \in {"clear", "delete"},
           NEW w \in Workers, th'[w] = th[w]
    PROVE  ~Bears(w, Head(c.todo).id)
<1> SUFFICES ASSUME Bears(w, Head(c.todo).id) PROVE FALSE  OBVIOUS
<1>1. c.todo \in Seq(Calls)  BY ScriptThread, Local
<1>2. 1 \in DOMAIN c.todo /\ Head(c.todo) = c.todo[1]  BY <1>1
<1>3. PICK p : p = th[w].obj  OBVIOUS
<1>4. Joins(c, p)  BY <1>2, <1>3, BorneJoined
<1>5. IsPc(Head(c.todo).id)  BY <1>1, <1>4, JoinsHead DEF ClearsPc
<1>6. IsDc(Head(c.todo).id)  BY WorkerThread DEF QuietInv, ObjectsOK, Bears
<1> QED BY <1>5, <1>6 DEF IsPc, IsDc

LEMMA NextClear ==
    ASSUME TypeOK, LockDiscipline, MapsInv, QuietInv, [Next]_vars, ClearCallback
    PROVE  ScriptOK(th[Script])' /\ TodoOK(th[Script])'
<1>1. PICK c : c = th[Script]  OBVIOUS
<1>2. PICK id : id = Head(c.todo).id  OBVIOUS
<1>3. /\ c.pc = "rtc" /\ c.todo \in Seq(Calls) /\ c.todo # <<>> /\ Head(c.todo).op = "clear"
      /\ UNCHANGED rtc
  BY <1>1, ClearStep
<1>4. PICK r : /\ th' = [th EXCEPT ![Script] = r] /\ r.pc = "rtc" /\ r.kind = c.kind
               /\ Finishes(c, r, id) \/ \E k : ClearsOne(c, r, id, k)
  BY <1>1, <1>2, ClearStep
<1>5. th'[Script] = r /\ \A w \in Workers : th'[w] = th[w]
  BY <1>4, ScriptThread, WorkerThread, ThreadSet
<1>6. ScriptOK(th[Script])'  BY <1>4, <1>5 DEF ScriptOK
<1>7. TodoOK(c) /\ WiresOK /\ WiresOK'  BY <1>1, NextWires DEF QuietInv
<1>8. 1 \in DOMAIN c.todo /\ Head(c.todo) = c.todo[1] /\ id \in RtcIds
  <2>1. 1 \in DOMAIN c.todo /\ Head(c.todo) = c.todo[1]  BY <1>3
  <2> QED BY <1>2, <1>3, <1>7, <2>1 DEF TodoOK
<1>9. ASSUME NEW i \in DOMAIN c.todo, c.todo[i].op \in {"clear", "delete"}
      PROVE  c.todo[i].id \in RtcIds /\ rtc'[c.todo[i].id].kind # "none"
  BY <1>3, <1>7, <1>9 DEF TodoOK
<1>10. ASSUME c.kind # "channel_free", NEW i \in DOMAIN c.todo, NEW w \in Workers,
              c.todo[i].op \in {"clear", "delete"}, Bears(w, c.todo[i].id)'
       PROVE  Joins(r, th[w].obj)'
  <2>1. PICK d : d = c.todo[i].id  OBVIOUS
  <2>2. Bears(w, d)  BY <1>5, <1>10, <2>1 DEF Bears
  <2>3. Joins(r, th[w].obj)  BY <1>1, <1>3, <1>5, <1>10, <2>1, <2>2, BorneJoined
  <2> QED BY <1>3, <1>5, <2>3 DEF Joins, ClearsPc, IsPc
<1>11. \A d : \A w \in Workers : Bears(w, d)' => Bears(w, d)  BY <1>5 DEF Bears
<1>12. CASE Finishes(c, r, id)
  <2>1. /\ c.ks \cap Elems(Order(id)) = {}
        /\ r.todo = Tail(c.todo) /\ r.ks = Kinds /\ UNCHANGED wired
    BY <1>12 DEF Finishes
  <2>2. /\ r.todo \in Seq(Calls)
        /\ \A i \in DOMAIN r.todo : i \in Nat /\ i + 1 \in DOMAIN c.todo /\ r.todo[i] = c.todo[i + 1]
    BY <1>3, <2>1, TailParts
  <2>3. ASSUME c.kind # "channel_free" PROVE Quiet(id)'
    <3>1. wired[id] \subseteq c.ks /\ wired[id] \subseteq Elems(Order(id))
      BY <1>2, <1>3, <1>7, <1>8, <2>3 DEF TodoOK, WiresOK
    <3>2. wired'[id] = {}  BY <2>1, <3>1
    <3>3. \A w \in Workers : ~Bears(w, id)  BY <1>1, <1>2, <1>3, <1>5, <2>3, HeadUnborne
    <3> QED BY <1>11, <3>2, <3>3 DEF Quiet
  <2>4. ASSUME c.kind # "channel_free", NEW i \in DOMAIN r.todo, r.todo[i].op = "delete",
               ~\E j \in 1 .. i - 1 : r.todo[j] = ClearOf(r.todo[i].id)
        PROVE  Quiet(r.todo[i].id)'
    <3>1. PICK m : m = i + 1  OBVIOUS
    <3>2. m \in DOMAIN c.todo /\ c.todo[m] = r.todo[i] /\ i \in Nat  BY <2>2, <3>1
    <3>3. (\E j \in 1 .. m - 1 : c.todo[j] = ClearOf(c.todo[m].id)) \/ Quiet(c.todo[m].id)
      BY <1>3, <1>7, <2>4, <3>2 DEF TodoOK
    <3>4. CASE Quiet(c.todo[m].id)  BY <1>11, <2>1, <3>2, <3>4 DEF Quiet
    <3>5. ASSUME NEW j \in 1 .. m - 1, c.todo[j] = ClearOf(c.todo[m].id) PROVE Quiet(r.todo[i].id)'
      <4>1. CASE j = 1
        <5>1. id = r.todo[i].id  BY <1>2, <1>8, <3>2, <3>5, <4>1 DEF ClearOf
        <5> QED BY <2>3, <2>4, <5>1
      <4>2. CASE j # 1
        <5>1. PICK n : n = j - 1  OBVIOUS
        <5>2. n \in 1 .. i - 1  BY <3>1, <3>2, <4>2, <5>1
        <5>3. n \in DOMAIN r.todo  BY <2>2, <3>2, <5>2
        <5>4. r.todo[n] = c.todo[n + 1] /\ n + 1 = j  BY <2>2, <5>1, <5>3
        <5> QED BY <2>4, <3>2, <3>5, <5>2, <5>4
      <4> QED BY <4>1, <4>2
    <3> QED BY <3>3, <3>4, <3>5
  <2>5. ASSUME r.todo # <<>>, Head(r.todo).op = "clear" PROVE wired'[Head(r.todo).id] \subseteq Kinds
    <3>1. 1 \in DOMAIN r.todo /\ Head(r.todo) = r.todo[1]  BY <2>2, <2>5
    <3>2. Head(r.todo).id \in RtcIds  BY <1>9, <2>2, <2>5, <3>1
    <3> QED BY <1>7, <3>2 DEF WiresOK
  <2>6. \A i \in DOMAIN r.todo : r.todo[i].op \in {"clear", "delete"} =>
           /\ r.todo[i].id \in RtcIds /\ rtc'[r.todo[i].id].kind # "none"
           /\ r.kind # "channel_free" => \A w \in Workers : Bears(w, r.todo[i].id)' => Joins(r, th[w].obj)'
    BY <1>4, <1>9, <1>10, <2>2
  <2>7. TodoOK(r)'  BY <1>4, <2>1, <2>4, <2>5, <2>6 DEF TodoOK
  <2> QED BY <1>5, <1>6, <2>7 DEF TodoOK
<1>13. ASSUME NEW k, ClearsOne(c, r, id, k) PROVE TodoOK(th[Script])'
  <2>1. r.todo = c.todo /\ r.ks = c.ks \ {k} /\ wired' = [wired EXCEPT ![id] = @ \ {k}]
    BY <1>13 DEF ClearsOne
  <2>2. \A d : wired[d] = {} => wired'[d] = {}  BY <2>1 DEF TypeOK, LibraryOK
  <2>3. \A d : Quiet(d) => Quiet(d)'  BY <1>11, <2>2 DEF Quiet
  <2>4. wired'[id] = wired[id] \ {k}  BY <1>8, <2>1 DEF TypeOK, LibraryOK
  <2>5. c.kind # "channel_free" => wired'[id] \subseteq r.ks
    BY <1>2, <1>3, <1>7, <2>1, <2>4 DEF TodoOK
  <2>6. c.kind # "channel_free" => \A i \in DOMAIN c.todo : c.todo[i].op = "delete" =>
           \/ \E j \in 1 .. i - 1 : c.todo[j] = ClearOf(c.todo[i].id)
           \/ Quiet(c.todo[i].id)'
    BY <1>3, <1>7, <2>3 DEF TodoOK
  <2>7. \A i \in DOMAIN r.todo : r.todo[i].op \in {"clear", "delete"} =>
           /\ r.todo[i].id \in RtcIds /\ rtc'[r.todo[i].id].kind # "none"
           /\ r.kind # "channel_free" => \A w \in Workers : Bears(w, r.todo[i].id)' => Joins(r, th[w].obj)'
    BY <1>4, <1>9, <1>10, <2>1
  <2>8. TodoOK(r)'  BY <1>2, <1>3, <1>4, <2>1, <2>5, <2>6, <2>7 DEF TodoOK
  <2> QED BY <1>5, <2>8 DEF TodoOK
<1> QED BY <1>4, <1>6, <1>12, <1>13

\* The other calls into the library: the list loses its head, and nothing is wired.
LEMMA CallLeaves ==
    ASSUME TypeOK, DeleteObject \/ RtcCleanup \/ RtcJoin, NEW c, c = th[Script]
    PROVE  /\ c.pc = "rtc" /\ c.todo \in Seq(Calls) /\ c.todo # <<>> /\ Head(c.todo).op # "clear"
           /\ \A d \in RtcIds : wired[d] = {} => wired'[d] = {}
           /\ \E r : /\ th' = [th EXCEPT ![Script] = r] /\ r.pc = "rtc" /\ r.kind = c.kind
                     /\ r.ks = c.ks /\ r.todo = Tail(c.todo)
<1>1. c.pc = "rtc" /\ c.todo \in Seq(Calls) /\ c.todo # <<>> /\ Head(c.todo).op # "clear" /\ c \in Locals
  BY ScriptThread, Local DEF DeleteObject, RtcCleanup, RtcJoin, Owes, At
<1>2. \A d \in RtcIds : wired[d] = {} => wired'[d] = {}
  BY DEF DeleteObject, RtcCleanup, RtcJoin, rtcVars, TypeOK, LibraryOK
<1>3. PICK r : r = [c EXCEPT !.todo = Tail(@)]  OBVIOUS
<1>4. r.pc = "rtc" /\ r.kind = c.kind /\ r.ks = c.ks /\ r.todo = Tail(c.todo)
  BY <1>1, <1>3 DEF Locals
<1>5. th' = [th EXCEPT ![Script] = r]  BY <1>3 DEF DeleteObject, RtcCleanup, RtcJoin
<1> QED BY <1>1, <1>2, <1>4, <1>5

LEMMA NextCall ==
    ASSUME TypeOK, LockDiscipline, MapsInv, QuietInv, [Next]_vars, DeleteObject \/ RtcCleanup \/ RtcJoin
    PROVE  ScriptOK(th[Script])' /\ TodoOK(th[Script])'
<1>1. PICK c : c = th[Script]  OBVIOUS
<1>3. /\ c.pc = "rtc" /\ c.todo \in Seq(Calls) /\ c.todo # <<>> /\ Head(c.todo).op # "clear"
      /\ \A d \in RtcIds : wired[d] = {} => wired'[d] = {}
  BY <1>1, CallLeaves
<1>4. PICK r : /\ th' = [th EXCEPT ![Script] = r] /\ r.pc = "rtc" /\ r.kind = c.kind
               /\ r.ks = c.ks /\ r.todo = Tail(c.todo)
  BY <1>1, CallLeaves
<1>5. th'[Script] = r /\ \A w \in Workers : th'[w] = th[w]
  BY <1>4, ScriptThread, WorkerThread, ThreadSet
<1>6. ScriptOK(th[Script])'  BY <1>4, <1>5 DEF ScriptOK
<1>7. TodoOK(c) /\ WiresOK' /\ KindsGrow
  BY <1>1, NextWires, NextHands DEF QuietInv, HandsMove
<1>8. 1 \in DOMAIN c.todo /\ Head(c.todo) = c.todo[1]  BY <1>3
<1>9. ASSUME NEW i \in DOMAIN c.todo, c.todo[i].op \in {"clear", "delete"}
      PROVE  c.todo[i].id \in RtcIds /\ rtc'[c.todo[i].id].kind # "none"
  BY <1>3, <1>7, <1>9 DEF TodoOK, KindsGrow
<1>10. ASSUME c.kind # "channel_free", NEW i \in DOMAIN c.todo, NEW w \in Workers,
              c.todo[i].op \in {"clear", "delete"}, Bears(w, c.todo[i].id)'
       PROVE  FALSE
  <2>1. PICK d : d = c.todo[i].id  OBVIOUS
  <2>2. Bears(w, d)  BY <1>5, <1>10, <2>1 DEF Bears
  <2>3. PICK p : p = th[w].obj  OBVIOUS
  <2>4. Joins(c, p)  BY <1>1, <1>3, <1>5, <1>10, <2>1, <2>2, <2>3, BorneJoined
  <2> QED BY <1>3, <2>4, JoinsHead DEF ClearsPc
<1>11. \A d : \A w \in Workers : Bears(w, d)' => Bears(w, d)  BY <1>5 DEF Bears
<1>12. /\ r.todo \in Seq(Calls)
       /\ \A i \in DOMAIN r.todo : i \in Nat /\ i + 1 \in DOMAIN c.todo /\ r.todo[i] = c.todo[i + 1]
  BY <1>3, <1>4, TailParts
<1>13. ASSUME c.kind # "channel_free", NEW i \in DOMAIN r.todo, r.todo[i].op = "delete",
              ~\E j \in 1 .. i - 1 : r.todo[j] = ClearOf(r.todo[i].id)
       PROVE  Quiet(r.todo[i].id)'
  <2>1. PICK m : m = i + 1  OBVIOUS
  <2>2. m \in DOMAIN c.todo /\ c.todo[m] = r.todo[i] /\ i \in Nat  BY <1>12, <2>1
  <2>3. (\E j \in 1 .. m - 1 : c.todo[j] = ClearOf(c.todo[m].id)) \/ Quiet(c.todo[m].id)
    BY <1>3, <1>7, <1>13, <2>2 DEF TodoOK
  <2>4. CASE Quiet(c.todo[m].id)
    <3>1. c.todo[m].id \in RtcIds  BY <1>9, <1>13, <2>2
    <3> QED BY <1>3, <1>11, <2>2, <2>4, <3>1 DEF Quiet
  <2>5. ASSUME NEW j \in 1 .. m - 1, c.todo[j] = ClearOf(c.todo[m].id) PROVE FALSE
    <3>1. j # 1  BY <1>3, <1>8, <2>5 DEF ClearOf
    <3>2. PICK n : n = j - 1  OBVIOUS
    <3>3. n \in 1 .. i - 1  BY <2>1, <2>2, <3>1, <3>2
    <3>4. n \in DOMAIN r.todo  BY <1>12, <2>2, <3>3
    <3>5. r.todo[n] = c.todo[n + 1] /\ n + 1 = j  BY <1>12, <3>2, <3>4
    <3> QED BY <1>13, <2>2, <2>5, <3>3, <3>5
  <2> QED BY <2>3, <2>4, <2>5
<1>14. ASSUME r.todo # <<>>, Head(r.todo).op = "clear" PROVE wired'[Head(r.todo).id] \subseteq Kinds
  <2>1. 1 \in DOMAIN r.todo /\ Head(r.todo) = r.todo[1]  BY <1>12, <1>14
  <2>2. Head(r.todo).id \in RtcIds  BY <1>9, <1>12, <1>14, <2>1
  <2> QED BY <1>7, <2>2 DEF WiresOK
<1>15. c.kind # "channel_free" => r.ks = Kinds  BY <1>3, <1>4, <1>7 DEF TodoOK
<1>16. \A i \in DOMAIN r.todo : r.todo[i].op \in {"clear", "delete"} =>
          /\ r.todo[i].id \in RtcIds /\ rtc'[r.todo[i].id].kind # "none"
          /\ r.kind # "channel_free" => \A w \in Workers : ~Bears(w, r.todo[i].id)'
  BY <1>4, <1>9, <1>10, <1>12
<1>17. TodoOK(r)'  BY <1>4, <1>13, <1>14, <1>15, <1>16 DEF TodoOK
<1> QED BY <1>5, <1>6, <1>17 DEF TodoOK

\* ----------------------------------------------------------------- the sweeps

LEMMA BeginsSweep ==
    ASSUME TypeOK, MapsInv, QuietInv, NEW h, PeerFreeLock(h)
    PROVE  ScriptOK(th[Script])' /\ TodoOK(th[Script])'
<1>1. PICK p : p = Get(peers, h).rtc  OBVIOUS
<1>2. Get(peers, h) # Null /\ UNCHANGED <<rtc, wired, rtcPeer>>
  BY DEF PeerFreeLock, rtcVars, shimVars
<1>3. IsPc(p) /\ rtcPeer[p] = h
  BY <1>1, <1>2, PeerEntry DEF QuietInv, ObjectsOK, MapsInv, MapsNamed, Named
<1>4. PICK r : r = [Idle EXCEPT !.pc = "pf_sweep", !.kind = "peer_free", !.obj = p, !.peer = h]
  OBVIOUS
<1>5. r.pc = "pf_sweep" /\ r.kind = "peer_free" /\ r.obj = p /\ r.peer = h /\ r.dcs = <<>>
  BY <1>4 DEF Idle
<1>6. th' = [th EXCEPT ![Script] = r]  BY <1>1, <1>4 DEF PeerFreeLock
<1>7. th'[Script] = r  BY <1>6, ScriptThread, ThreadSet
<1>8. Elems(r.dcs) = {}  BY <1>5 DEF Elems
<1> QED BY <1>2, <1>3, <1>5, <1>7, <1>8 DEF ScriptOK, TodoOK, IsPc

\* A worker that bears a channel of the peer being freed found it through
\* that peer's connection.
LEMMA SweptBorne ==
    ASSUME TypeOK, MapsInv, QuietInv, At(Script, "pf_sweep"), NEW w \in Workers,
           NEW h \in ChannelsOf(th[Script].peer), Bears(w, Get(chans, h).rtc)
    PROVE  th[w].obj = th[Script].obj
<1>1. PICK d : d = Get(chans, h).rtc  OBVIOUS
<1>2. PICK g : g = th[Script].peer  OBVIOUS
<1>3. h \in Handles /\ Get(chans, h) # Null /\ Get(chans, h).peer = g
  BY <1>2, LiveChannels DEF ChannelsOf
<1>4. d \in RtcIds /\ rtcChan[d] = h
  BY <1>1, <1>3, ChannelEntry DEF MapsInv, MapsNamed, Named
<1>5. h # NoHandle  BY <1>3 DEF Handles, NoHandle
<1>6. th[w].pc \notin Unregistered /\ th[w].dc = d /\ th[w].pc \in ChannelLabels
  BY <1>1, <1>4, <1>5, WorkerThread DEF Bears, MapsInv, FreshInHand
<1>7. th[w].pc \in AfterRegister /\ th[w].pc \in RegisterLabels
  BY <1>6 DEF Unregistered, AfterRegister, ChannelLabels, RegisterLabels
<1>8. WorkerOK(th[w])  BY DEF QuietInv
<1>9. th[w].peer = g  BY <1>1, <1>3, <1>6, <1>7, <1>8 DEF WorkerOK
<1>10. rtcPeer[th[w].obj] = g /\ th[w].obj \in RtcIds
  BY <1>6, <1>7, <1>8, <1>9 DEF WorkerOK, Joins, At, ChannelLabels, RegisterLabels
<1>11. Get(peers, g) # Null /\ Get(peers, g).rtc = th[Script].obj
  BY <1>2 DEF MapsInv, PeerInHand
<1>12. g # NoHandle  BY <1>11, PeerEntry DEF Handles, NoHandle
<1>13. Pointed(rtcPeer, peers)  BY DEF MapsInv, MapsPointed, At
<1> QED BY <1>10, <1>11, <1>12, <1>13 DEF Pointed

LEMMA AppendElems ==
    ASSUME NEW S, NEW s \in Seq(S), NEW x, NEW y \in Elems(Append(s, x))
    PROVE  y \in Elems(s) \/ y = x
  BY DEF Elems

LEMMA NextPeerSweep ==
    ASSUME TypeOK, MapsInv, QuietInv, PeerFreeSweep
    PROVE  ScriptOK(th[Script])' /\ TodoOK(th[Script])'
<1>1. PICK c : c = th[Script]  OBVIOUS
<1>2. PICK h : h = FirstHandle(ChannelsOf(c.peer))  OBVIOUS
<1>3. PICK d : d = Get(chans, h).rtc  OBVIOUS
<1>4. c \in Locals /\ c.pc = "pf_sweep" /\ c.dcs \in Seq(RtcIds) /\ ScriptOK(c)
  BY <1>1, ScriptThread, Local DEF PeerFreeSweep, At, QuietInv
<1>5. PICK r : r = [c EXCEPT !.dcs = Append(@, d)]  OBVIOUS
<1>6. r.pc = "pf_sweep" /\ r.kind = c.kind /\ r.obj = c.obj /\ r.peer = c.peer /\ r.dcs = Append(c.dcs, d)
  BY <1>4, <1>5 DEF Locals
<1>7. th' = [th EXCEPT ![Script] = r] /\ UNCHANGED <<rtc, wired, rtcPeer>>
  BY <1>1, <1>2, <1>3, <1>5 DEF PeerFreeSweep, rtcVars
<1>8. Ordinary(r)  BY <1>7, OrdinaryStep
<1>9. ChannelsOf(c.peer) # {} /\ ChannelsOf(c.peer) \subseteq LiveHandles(chans)
  BY <1>1 DEF PeerFreeSweep, ChannelsOf
<1>10. ChannelsOf(c.peer) \subseteq Handles  BY <1>9, LiveChannels
<1>11. h \in ChannelsOf(c.peer) /\ Get(chans, h) # Null
  BY <1>2, <1>9, <1>10, FirstHandleMember, SweptChannel
<1>12. IsDc(d) /\ \A w \in Workers : Bears(w, d) => th[w].obj = c.obj
  BY <1>1, <1>3, <1>4, <1>11, SweptBorne DEF QuietInv, ObjectsOK, At
<1>13. ASSUME NEW e \in Elems(r.dcs) PROVE IsDc(e) /\ \A w \in Workers : Bears(w, e) => th[w].obj = c.obj
  <2>1. e \in Elems(c.dcs) \/ e = d  BY <1>4, <1>6, <1>13, AppendElems
  <2> QED BY <1>4, <1>12, <2>1 DEF ScriptOK
<1>14. c.kind = "peer_free" /\ IsPc(c.obj) /\ rtcPeer[c.obj] = c.peer
  BY <1>4 DEF ScriptOK
<1> QED BY <1>6, <1>7, <1>8, <1>13, <1>14, ZenonT(30) DEF ScriptOK, TodoOK, Ordinary, IsPc, IsDc, Bears

LEMMA BeginsCleanupSweep ==
    ASSUME TypeOK, LockDiscipline, MapsInv, QuietInv, CleanupLock
    PROVE  ScriptOK(th[Script])' /\ TodoOK(th[Script])'
<1>1. th[Script] = Idle /\ mu = Nobody /\ UNCHANGED <<rtcPeer, peers>>
  BY DEF CleanupLock, At, QuietInv, ScriptOK, shimVars
<1>2. PICK r : r = [Idle EXCEPT !.pc = "cl_sweep", !.kind = "cleanup"]  OBVIOUS
<1>3. r.pc = "cl_sweep" /\ r.kind = "cleanup" /\ r.dcs = <<>> /\ r.pcs = <<>>
  BY <1>2 DEF Idle
<1>4. th' = [th EXCEPT ![Script] = r]
  <2>1. th' = [th EXCEPT ![Script] = [th[Script] EXCEPT !.pc = "cl_sweep", !.kind = "cleanup"]]
    BY DEF CleanupLock
  <2> QED BY <1>1, <1>2, <2>1
<1>5. th'[Script] = r  BY <1>4, ScriptThread, ThreadSet
<1>6. Elems(r.dcs) = {} /\ Elems(r.pcs) = {}  BY <1>3 DEF Elems
<1>7. Pointed(rtcPeer, peers)  BY <1>1, Unlocked
<1> QED BY <1>1, <1>3, <1>5, <1>6, <1>7 DEF ScriptOK, TodoOK, Pointed

LEMMA NextCleanupChannel ==
    ASSUME TypeOK, QuietInv, CleanupChannel
    PROVE  ScriptOK(th[Script])' /\ TodoOK(th[Script])'
<1>1. PICK c : c = th[Script]  OBVIOUS
<1>2. PICK d : d = Get(chans, FirstHandle(LiveHandles(chans))).rtc  OBVIOUS
<1>3. c \in Locals /\ c.pc = "cl_sweep" /\ c.dcs \in Seq(RtcIds) /\ ScriptOK(c)
  BY <1>1, ScriptThread, Local DEF CleanupChannel, At, QuietInv
<1>4. PICK r : r = [c EXCEPT !.dcs = Append(@, d)]  OBVIOUS
<1>5. r.pc = "cl_sweep" /\ r.kind = c.kind /\ r.pcs = c.pcs /\ r.dcs = Append(c.dcs, d)
  BY <1>3, <1>4 DEF Locals
<1>6. th' = [th EXCEPT ![Script] = r] /\ UNCHANGED <<rtc, wired, rtcPeer, peers>>
  BY <1>1, <1>2, <1>4 DEF CleanupChannel, rtcVars
<1>7. th'[Script] = r  BY <1>6, ScriptThread, ThreadSet
<1>8. Get(chans, FirstHandle(LiveHandles(chans))) # Null
  BY SweptChannel DEF CleanupChannel
<1>9. IsDc(d)  BY <1>2, <1>8 DEF QuietInv, ObjectsOK
<1>10. \A e \in Elems(r.dcs) : IsDc(e)  BY <1>3, <1>5, <1>9, AppendElems DEF ScriptOK
<1>11. /\ c.kind = "cleanup" /\ \A p \in Elems(c.pcs) : IsPc(p)
       /\ \A p \in RtcIds : rtcPeer[p] # NoHandle =>
             p \in Elems(c.pcs) \/ (Get(peers, rtcPeer[p]) # Null /\ Get(peers, rtcPeer[p]).rtc = p)
  BY <1>3 DEF ScriptOK
<1> QED BY <1>5, <1>6, <1>7, <1>10, <1>11 DEF ScriptOK, TodoOK, IsPc, IsDc

LEMMA NextCleanupPeer ==
    ASSUME TypeOK, QuietInv, CleanupPeer
    PROVE  ScriptOK(th[Script])' /\ TodoOK(th[Script])'
<1>1. PICK c : c = th[Script]  OBVIOUS
<1>2. PICK h : h = FirstHandle(LiveHandles(peers))  OBVIOUS
<1>3. PICK q : q = Get(peers, h).rtc  OBVIOUS
<1>4. c \in Locals /\ c.pc = "cl_sweep" /\ c.pcs \in Seq(RtcIds) /\ ScriptOK(c)
  BY <1>1, ScriptThread, Local DEF CleanupPeer, At, QuietInv
<1>5. PICK r : r = [c EXCEPT !.pcs = Append(@, q)]  OBVIOUS
<1>6. r.pc = "cl_sweep" /\ r.kind = c.kind /\ r.dcs = c.dcs /\ r.pcs = Append(c.pcs, q)
  BY <1>4, <1>5 DEF Locals
<1>7. th' = [th EXCEPT ![Script] = r] /\ peers' = Free(peers, h) /\ UNCHANGED <<rtc, wired, rtcPeer>>
  BY <1>1, <1>2, <1>3, <1>5 DEF CleanupPeer, rtcVars
<1>8. th'[Script] = r  BY <1>7, ScriptThread, ThreadSet
<1>9. h \in Handles /\ Get(peers, h) # Null /\ q \in RtcIds
  <2>1. LiveHandles(peers) # {} /\ LiveHandles(peers) \subseteq Handles
    BY LivePeers DEF CleanupPeer
  <2> QED BY <1>2, <1>3, <2>1, FirstHandleMember, LivePeers, PeerEntry
<1>10. IsPc(q)  BY <1>3, <1>9 DEF QuietInv, ObjectsOK
<1>11. \A p \in Elems(r.pcs) : IsPc(p)  BY <1>4, <1>6, <1>10, AppendElems DEF ScriptOK
<1>12. Elems(c.pcs) \subseteq Elems(r.pcs) /\ q \in Elems(r.pcs)
  BY <1>4, <1>6, ElemsAppend
<1>13. \A g : Get(peers', g) = IF g = h THEN Null ELSE Get(peers, g)
  BY <1>7, TablesTyped, GetFree
<1>14. ASSUME NEW p \in RtcIds, rtcPeer[p] # NoHandle
       PROVE  p \in Elems(r.pcs) \/ (Get(peers', rtcPeer[p]) # Null /\ Get(peers', rtcPeer[p]).rtc = p)
  <2>1. p \in Elems(c.pcs) \/ (Get(peers, rtcPeer[p]) # Null /\ Get(peers, rtcPeer[p]).rtc = p)
    BY <1>4, <1>14 DEF ScriptOK
  <2> QED BY <1>3, <1>12, <1>13, <2>1
<1>15. c.kind = "cleanup" /\ \A d \in Elems(c.dcs) : IsDc(d)  BY <1>4 DEF ScriptOK
<1> QED BY <1>6, <1>7, <1>8, <1>11, <1>14, <1>15 DEF ScriptOK, TodoOK, IsPc, IsDc

\* ------------------------------------------------------ what the script makes

LEMMA NextPeerNew ==
    ASSUME TypeOK, QuietInv, NEW p \in RtcIds, PeerNew(p)
    PROVE  ScriptOK(th[Script])' /\ TodoOK(th[Script])'
<1>1. PICK c : c = th[Script]  OBVIOUS
<1>2. PICK r : r = [c EXCEPT !.pc = "pn_alloc", !.obj = p]  OBVIOUS
<1>3. r.pc = "pn_alloc" /\ r.obj = p  BY <1>1, <1>2, ScriptThread, Local DEF Locals
<1>4. th' = [th EXCEPT ![Script] = r] /\ UNCHANGED wired /\ rtc[p].kind = "none"
  BY <1>1, <1>2 DEF PeerNew, IsNewId
<1>5. th'[Script] = r /\ \A w \in Workers : th'[w] = th[w]
  BY <1>4, ScriptThread, WorkerThread, ThreadSet
<1>6. rtc'[p].kind = "pc"  BY DEF PeerNew, Object, TypeOK, LibraryOK
<1>7. wired'[p] = {} /\ \A w \in Workers : th'[w].pc # "idle" => th'[w].obj # p
  BY <1>4, <1>5 DEF QuietInv, WiresOK, WorkerOK
<1> QED BY <1>3, <1>5, <1>6, <1>7 DEF ScriptOK, TodoOK, IsPc, Untouched

LEMMA NextChannelNew ==
    ASSUME TypeOK, QuietInv, NEW h, NEW d \in RtcIds, ChannelNew(h, d)
    PROVE  ScriptOK(th[Script])' /\ TodoOK(th[Script])'
<1>1. PICK r : r = [Idle EXCEPT !.pc = "register", !.dc = d, !.peer = h]  OBVIOUS
<1>2. r.pc = "register" /\ r.dc = d  BY <1>1 DEF Idle
<1>3. th' = [th EXCEPT ![Script] = r] /\ UNCHANGED wired /\ rtc[d].kind = "none"
  BY <1>1 DEF ChannelNew, IsNewId
<1>4. th'[Script] = r /\ \A w \in Workers : th'[w] = th[w]
  BY <1>3, ScriptThread, WorkerThread, ThreadSet
<1>5. wired'[d] = {} /\ \A w \in Workers : th'[w].pc # "idle" => th'[w].obj # d
  BY <1>3, <1>4 DEF QuietInv, WiresOK, WorkerOK
<1> QED BY <1>2, <1>4, <1>5 DEF ScriptOK, TodoOK, Untouched

LEMMA NextPeerAlloc ==
    ASSUME TypeOK, QuietInv, PeerAlloc
    PROVE  ScriptOK(th[Script])' /\ TodoOK(th[Script])'
<1>1. PICK c : c = th[Script]  OBVIOUS
<1>2. PICK h : h = AllocHandle(peers)  OBVIOUS
<1>3. c \in Locals /\ c.obj \in RtcIds /\ IsPc(c.obj) /\ Untouched(c.obj) /\ UNCHANGED <<rtc, wired>>
  BY <1>1, ScriptThread, Local DEF PeerAlloc, At, PeerLabels, QuietInv, ScriptOK, rtcVars
<1>4. CASE h = NoHandle
  <2>1. PICK r : r = [c EXCEPT !.pc = "pn_refused"]  OBVIOUS
  <2>2. r.pc = "pn_refused" /\ r.obj = c.obj  BY <1>3, <2>1 DEF Locals
  <2>3. th' = [th EXCEPT ![Script] = r]  BY <1>1, <1>2, <1>4, <2>1 DEF PeerAlloc, Goto
  <2>4. Ordinary(r)  BY <1>3, <2>3, OrdinaryStep
  <2> QED BY <1>3, <2>2, <2>4 DEF ScriptOK, TodoOK, Ordinary, Untouched, IsPc
<1>5. CASE h # NoHandle
  <2>1. PICK r : r = [c EXCEPT !.pc = "pn_wire", !.peer = h, !.ks = WiredAtBirth(PeerCallbacks)]
    OBVIOUS
  <2>2. r.pc = "pn_wire" /\ r.obj = c.obj /\ r.ks = WiredAtBirth(PeerCallbacks)
    BY <1>3, <2>1 DEF Locals
  <2>3. th' = [th EXCEPT ![Script] = r] /\ rtcPeer' = [rtcPeer EXCEPT ![c.obj] = h]
    BY <1>1, <1>2, <1>5, <2>1 DEF PeerAlloc
  <2>4. Ordinary(r)  BY <1>3, <2>3, OrdinaryStep
  <2>5. rtcPeer'[c.obj] # NoHandle  BY <1>3, <1>5, <2>3 DEF TypeOK, TablesOK
  <2>6. r.ks \subseteq Kinds  BY <2>2 DEF WiredAtBirth
  <2> QED BY <1>3, <2>2, <2>4, <2>5, <2>6 DEF ScriptOK, TodoOK, Ordinary, IsPc
<1> QED BY <1>4, <1>5

LEMMA NextWirePeer ==
    ASSUME TypeOK, QuietInv, WirePeer
    PROVE  ScriptOK(th[Script])' /\ TodoOK(th[Script])'
<1>1. PICK c : c = th[Script]  OBVIOUS
<1>2. c \in Locals /\ c.pc = "pn_wire" /\ ScriptOK(c) /\ UNCHANGED <<rtc, rtcPeer>>
  BY <1>1, ScriptThread, Local DEF WirePeer, At, QuietInv, shimVars
<1>3. CASE c.ks = {}
  <2>1. th'[Script] = Idle  BY <1>1, <1>3, ScriptThread, ThreadSet DEF WirePeer, Return
  <2> QED BY <2>1, FreeScript
<1>4. CASE c.ks # {}
  <2>1. PICK k : k = FirstOf(c.ks, PeerCallbacks)  OBVIOUS
  <2>2. PICK r : r = [c EXCEPT !.ks = @ \ {k}]  OBVIOUS
  <2>3. r.pc = "pn_wire" /\ r.obj = c.obj /\ r.ks \subseteq c.ks  BY <1>2, <2>2 DEF Locals
  <2>4. th' = [th EXCEPT ![Script] = r]  BY <1>1, <1>4, <2>1, <2>2 DEF WirePeer
  <2>5. th'[Script] = r  BY <2>4, ScriptThread, ThreadSet
  <2> QED BY <1>2, <2>3, <2>5 DEF ScriptOK, TodoOK, IsPc
<1> QED BY <1>3, <1>4

LEMMA NextRegisters ==
    ASSUME TypeOK, QuietInv, Register(Script) \/ WireChannel(Script) \/ CheckOpen(Script) \/ AnnounceOpen(Script)
    PROVE  ScriptOK(th[Script])' /\ TodoOK(th[Script])'
<1>1. PICK c : c = th[Script]  OBVIOUS
<1>2. c \in Locals /\ ScriptOK(c)  BY <1>1, ScriptThread, Local DEF QuietInv
<1>3. ASSUME NEW l, Goto(Script, l) PROVE th'[Script].pc = l /\ th'[Script].dc = c.dc
  <2>1. PICK r : r = [c EXCEPT !.pc = l]  OBVIOUS
  <2>2. r.pc = l /\ r.dc = c.dc  BY <1>2, <2>1 DEF Locals
  <2>3. th' = [th EXCEPT ![Script] = r]  BY <1>1, <1>3, <2>1 DEF Goto
  <2> QED BY <2>2, <2>3, ScriptThread, ThreadSet
<1>4. CASE Register(Script) /\ AllocHandle(chans) = NoHandle
  <2>1. Goto(Script, "refused") /\ c.pc = "register" /\ UNCHANGED <<rtc, wired>>
    BY <1>1, <1>4 DEF Register, At, rtcVars
  <2>2. \A w \in Workers : th'[w] = th[w]
    BY <2>1, WorkerThread, ScriptThread, ThreadSet DEF Goto
  <2>3. th'[Script].pc = "refused" /\ th'[Script].dc = c.dc  BY <1>3, <2>1
  <2>4. Untouched(c.dc)  BY <1>2, <2>1 DEF ScriptOK
  <2> QED BY <2>1, <2>2, <2>3, <2>4 DEF ScriptOK, TodoOK, Untouched
<1>5. CASE Register(Script) /\ AllocHandle(chans) # NoHandle
  <2>1. PICK r : r = [c EXCEPT !.pc = "wire", !.chan = AllocHandle(chans), !.ks = WiredAtBirth(ChannelCallbacks)]
    OBVIOUS
  <2>2. r.pc = "wire" /\ r.ks \subseteq Kinds  BY <1>2, <2>1 DEF Locals, WiredAtBirth
  <2>3. th' = [th EXCEPT ![Script] = r]  BY <1>1, <1>5, <2>1 DEF Register
  <2>4. th'[Script] = r  BY <2>3, ScriptThread, ThreadSet
  <2> QED BY <2>2, <2>4, FreeScript
<1>6. CASE WireChannel(Script) /\ c.ks = {}
  <2>1. Goto(Script, "isopen")  BY <1>1, <1>6 DEF WireChannel
  <2> QED BY <1>3, <2>1, FreeScript
<1>7. CASE WireChannel(Script) /\ c.ks # {}
  <2>1. PICK k : k = FirstOf(c.ks, ChannelCallbacks)  OBVIOUS
  <2>2. PICK r : r = [c EXCEPT !.ks = @ \ {k}]  OBVIOUS
  <2>3. c.pc = "wire"  BY <1>1, <1>7 DEF WireChannel, At
  <2>4. r.pc = "wire" /\ r.ks \subseteq Kinds  BY <1>2, <2>2, <2>3 DEF Locals, ScriptOK
  <2>5. th' = [th EXCEPT ![Script] = r]  BY <1>1, <1>7, <2>1, <2>2 DEF WireChannel
  <2>6. th'[Script] = r  BY <2>5, ScriptThread, ThreadSet
  <2> QED BY <2>4, <2>6, FreeScript
<1>8. CASE CheckOpen(Script) \/ AnnounceOpen(Script)
  <2>1. Goto(Script, "announce") \/ Return(Script)
    BY <1>8 DEF CheckOpen, AnnounceOpen, Registered
  <2>2. th'[Script].pc = "announce" \/ th'[Script] = Idle
    BY <1>3, <2>1, ScriptThread, ThreadSet DEF Return
  <2> QED BY <2>2, FreeScript
<1> QED BY <1>4, <1>5, <1>6, <1>7, <1>8

LEMMA NextFree ==
    ASSUME TypeOK, PeerRefused \/ ChannelRefused \/ RtcDone \/ DrainLock \/ DrainDeliver \/ DrainEnd
    PROVE  ScriptOK(th[Script])' /\ TodoOK(th[Script])'
<1>1. PICK c : c = th[Script]  OBVIOUS
<1>2. c \in Locals  BY <1>1, ScriptThread, Local
<1>3. ASSUME NEW l \in {"drain_lock", "retry"}, Goto(Script, l) PROVE th'[Script].pc = l
  <2>1. PICK r : r = [c EXCEPT !.pc = l]  OBVIOUS
  <2>2. r.pc = l  BY <1>2, <2>1 DEF Locals
  <2>3. th' = [th EXCEPT ![Script] = r]  BY <1>1, <1>3, <2>1 DEF Goto
  <2> QED BY <2>2, <2>3, ScriptThread, ThreadSet
<1>4. ASSUME Return(Script) PROVE th'[Script] = Idle
  BY <1>4, ScriptThread, ThreadSet DEF Return
<1>5. CASE PeerRefused \/ ChannelRefused \/ RtcDone \/ DrainEnd
  BY <1>3, <1>4, <1>5, FreeScript DEF PeerRefused, ChannelRefused, RtcDone, DrainEnd
<1>6. CASE DrainLock
  <2>1. PICK r : r = [c EXCEPT !.pc = "drain", !.used = 2]  OBVIOUS
  <2>2. r.pc = "drain"  BY <1>2, <2>1 DEF Locals
  <2>3. th' = [th EXCEPT ![Script] = r]  BY <1>1, <1>6, <2>1 DEF DrainLock
  <2>4. th'[Script] = r  BY <2>3, ScriptThread, ThreadSet
  <2> QED BY <2>2, <2>4, FreeScript
<1>7. CASE DrainDeliver
  <2>1. PICK r : r = [c EXCEPT !.used = @ + Wire(Head(queue)), !.n = @ + 1]  OBVIOUS
  <2>2. r.pc = "drain"  BY <1>1, <1>2, <1>7, <2>1 DEF Locals, DrainDeliver, At
  <2>3. th' = [th EXCEPT ![Script] = r]  BY <1>1, <1>7, <2>1 DEF DrainDeliver
  <2>4. th'[Script] = r  BY <2>3, ScriptThread, ThreadSet
  <2> QED BY <2>2, <2>4, FreeScript
<1> QED BY <1>5, <1>6, <1>7

\* -------------------------------------------- the invariant, and the theorems

LEMMA NextScript ==
    ASSUME TypeOK, LockDiscipline, MapsInv, QuietInv, [Next]_vars
    PROVE  ScriptOK(th[Script])' /\ TodoOK(th[Script])'
<1>1. ASSUME th'[Script] = th[Script], UNCHANGED <<rtcPeer, peers>>
      PROVE  ScriptOK(th[Script])' /\ TodoOK(th[Script])'
  BY <1>1, StillScript, StillTodo
<1>2. CASE Library \/ \E w \in Workers : CallbackStep(w)  BY <1>1, <1>2, WorkersLeave
<1>3. CASE Call
  <2>1. ASSUME NEW h, PeerClose(h) \/ ChannelClose(h) \/ SetBufferedLow(h)
        PROVE  ScriptOK(th[Script])' /\ TodoOK(th[Script])'
    BY <1>1, <2>1 DEF PeerClose, ChannelClose, SetBufferedLow, shimVars
  <2> QED
    BY <1>3, <2>1, BeginsSweep, BeginsCleanupSweep, BeginsChannelFree, NextPeerNew, NextChannelNew DEF Call
<1>4. CASE PollStart \/ PollRetry  BY <1>4, BeginsPoll DEF PollStart, PollRetry
<1>5. CASE DrainDiscard  BY <1>1, <1>5 DEF DrainDiscard, shimVars
<1>6. CASE ScriptStep /\ ~PollRetry /\ ~DrainDiscard
  <2>1. CASE PeerAlloc \/ WirePeer  BY <2>1, NextPeerAlloc, NextWirePeer
  <2>2. CASE Register(Script) \/ WireChannel(Script) \/ CheckOpen(Script) \/ AnnounceOpen(Script)
    BY <2>2, NextRegisters
  <2>3. CASE PeerRefused \/ ChannelRefused \/ RtcDone \/ DrainLock \/ DrainDeliver \/ DrainEnd
    BY <2>3, NextFree
  <2>4. CASE ClearCallback  BY <2>4, NextClear
  <2>5. CASE DeleteObject \/ RtcCleanup \/ RtcJoin  BY <2>5, NextCall
  <2>6. CASE PeerFreeSweep \/ PeerFreeDone  BY <2>6, NextPeerSweep, BeginsPeerFree
  <2>7. CASE CleanupChannel \/ CleanupPeer \/ CleanupReset
    BY <2>7, NextCleanupChannel, NextCleanupPeer, BeginsCleanup
  <2> QED BY <1>6, <2>1, <2>2, <2>3, <2>4, <2>5, <2>6, <2>7 DEF ScriptStep
<1>7. CASE UNCHANGED vars  BY <1>1, <1>7 DEF vars, shimVars
<1> QED BY <1>2, <1>3, <1>4, <1>5, <1>6, <1>7 DEF Next

LEMMA NextQuiet ==
    ASSUME TypeOK, LockDiscipline, MapsInv, QuietInv, [Next]_vars
    PROVE  QuietInv'
<1>1. ObjectsOK'  BY NextObjects DEF QuietInv
<1>2. \A w \in Workers : WorkerOK(th[w])'  BY NextWorker
<1>3. WiresOK' /\ ScriptOK(th[Script])' /\ TodoOK(th[Script])'  BY NextWires, NextScript
<1> QED BY <1>1, <1>2, <1>3 DEF QuietInv

LEMMA InitQuiet ==
    ASSUME Init
    PROVE  QuietInv
<1>1. \A t \in Threads : th[t] = Idle  BY DEF Init
<1>2. \A h : Get(chans, h) = Null /\ Get(peers, h) = Null
  BY DEF Init, Get, IsLive, EmptyTable, Handles
<1>3. WiresOK  BY DEF Init, WiresOK
<1>4. ObjectsOK
  <2>1. Elems(orphans) = {}  BY DEF Init, Elems
  <2> QED BY <1>1, <1>2, <2>1, IdleHand DEF ObjectsOK, ChannelLabels, RegisterLabels
<1>5. \A w \in Workers : WorkerOK(th[w])
  BY <1>1, IdleHand, WorkerThread DEF WorkerOK, ChannelLabels, RegisterLabels, AfterRegister
<1>6. ScriptOK(th[Script]) /\ TodoOK(th[Script])
  BY <1>1, IdleHand, ScriptThread DEF ScriptOK, TodoOK
<1> QED BY <1>3, <1>4, <1>5, <1>6 DEF QuietInv

\* The inductive invariant under QuietDelete: what is wired, who can still wire
\* it, and what a teardown has yet to clear before it deletes.
THEOREM QuietInvariant == Spec => []QuietInv
<1>1. Init => QuietInv  BY InitQuiet
<1>2. TypeOK /\ LockDiscipline /\ MapsInv /\ QuietInv /\ [Next]_vars => QuietInv'
  BY NextQuiet
<1> QED BY <1>1, <1>2, TypeCorrect, LockDisciplined, MapsInvariant, PTL DEF Spec

LEMMA DeletesByWrite ==
    ASSUME TypeOK, NEW id \in RtcIds, NEW e, NEW o, rtc' = [rtc EXCEPT ![e] = o], o.st # "deleted" \/ e # id,
           rtc[id].st # "deleted"
    PROVE  rtc'[id].st # "deleted"
  BY DEF TypeOK, LibraryOK

LEMMA DeletedBy ==
    ASSUME TypeOK, [Next]_vars, NEW id \in RtcIds, rtc[id].st # "deleted", rtc'[id].st = "deleted"
    PROVE  Deletes(id)
<1>0. \A e \in RtcIds : rtc[e] \in RtcObjects  BY RtcTyped
<1>1. CASE UNCHANGED rtc  BY <1>1
<1>2. CASE Library
  <2>1. ASSUME NEW e \in RtcIds, RtcChannelOpens(e) \/ RtcChannelCloses(e) PROVE FALSE
    <3>1. PICK s \in {"open", "closed"} : rtc' = [rtc EXCEPT ![e].st = s]
      BY <2>1 DEF RtcChannelOpens, RtcChannelCloses
    <3>2. PICK o : o = [rtc[e] EXCEPT !.st = s]  OBVIOUS
    <3>3. o.st = s /\ rtc' = [rtc EXCEPT ![e] = o]  BY <1>0, <3>1, <3>2 DEF RtcObjects
    <3> QED BY <3>3, DeletesByWrite
  <2>2. ASSUME NEW w \in Workers, NEW e \in RtcIds, NEW k \in Kinds, Fire(w, e, k) PROVE FALSE
    <3>1. PICK o : o = [rtc[e] EXCEPT !.told = @ \cup ({k} \cap ToldOnce)]  OBVIOUS
    <3>2. o.st = rtc[e].st /\ rtc' = [rtc EXCEPT ![e] = o]
      BY <1>0, <2>2, <3>1 DEF RtcObjects, Fire
    <3> QED BY <3>2, DeletesByWrite
  <2>3. ASSUME NEW w \in Workers, NEW p \in RtcIds, NEW e \in RtcIds, FireDataChannel(w, p, e) PROVE FALSE
    <3>1. PICK st \in {"new", "open"} : rtc' = [rtc EXCEPT ![e] = Object("dc", st, p)]
      BY <2>3 DEF FireDataChannel
    <3>2. PICK o : o = Object("dc", st, p)  OBVIOUS
    <3>3. o.st = st /\ rtc' = [rtc EXCEPT ![e] = o]  BY <3>1, <3>2 DEF Object
    <3> QED BY <3>3, DeletesByWrite
  <2> QED BY <1>2, <2>1, <2>2, <2>3 DEF Library
<1>3. ASSUME NEW w \in Workers, CallbackStep(w) PROVE UNCHANGED rtc
  BY <1>3 DEF CallbackStep, PeerCallback, OpenCallback, ChannelCallback, Lookup, Orphan, Revalidate,
     Register, WireChannel, CheckOpen, AnnounceOpen, rtcVars
<1>4. CASE Call
  <2>1. ASSUME NEW p \in RtcIds, PeerNew(p) PROVE FALSE
    <3>1. PICK o : o = Object("pc", "open", 0)  OBVIOUS
    <3>2. o.st = "open" /\ rtc' = [rtc EXCEPT ![p] = o]  BY <2>1, <3>1 DEF PeerNew, Object
    <3> QED BY <3>2, DeletesByWrite
  <2>2. ASSUME NEW h, NEW d \in RtcIds, ChannelNew(h, d) PROVE FALSE
    <3>1. PICK q : rtc' = [rtc EXCEPT ![d] = Object("dc", "new", q)]
      BY <2>2 DEF ChannelNew
    <3>2. PICK o : o = Object("dc", "new", q)  OBVIOUS
    <3>3. o.st = "new" /\ rtc' = [rtc EXCEPT ![d] = o]  BY <3>1, <3>2 DEF Object
    <3> QED BY <3>3, DeletesByWrite
  <2>3. ASSUME NEW h, PeerClose(h) PROVE FALSE
    <3>1. rtc'[id] = rtc[id] \/ rtc'[id] = [rtc[id] EXCEPT !.st = "closed"]
      BY <2>3 DEF PeerClose
    <3> QED BY <1>0, <3>1 DEF RtcObjects
  <2>4. ASSUME NEW h, ChannelClose(h) PROVE FALSE
    <3>1. PICK e : e = Get(chans, h).rtc  OBVIOUS
    <3>2. e \in RtcIds  BY <2>4, <3>1, ChannelEntry DEF ChannelClose
    <3>3. PICK o : o = [rtc[e] EXCEPT !.st = "closed"]  OBVIOUS
    <3>4. o.st = "closed" /\ rtc' = [rtc EXCEPT ![e] = o]
      BY <1>0, <2>4, <3>1, <3>2, <3>3 DEF RtcObjects, ChannelClose
    <3> QED BY <3>4, DeletesByWrite
  <2>5. ASSUME NEW h, PeerFreeLock(h) \/ SetBufferedLow(h) \/ ChannelFree(h) \/ CleanupLock PROVE FALSE
    BY <2>5 DEF PeerFreeLock, SetBufferedLow, ChannelFree, CleanupLock, rtcVars
  <2> QED BY <1>4, <2>1, <2>2, <2>3, <2>4, <2>5 DEF Call
<1>5. CASE PollStart \/ PollRetry  BY <1>1, <1>5 DEF PollStart, PollRetry, Poll, rtcVars
<1>6. CASE ScriptStep /\ ~PollRetry
  <2>1. CASE PeerRefused
    <3>1. PICK e : e = th[Script].obj  OBVIOUS
    <3>2. rtc' = [rtc EXCEPT ![e].st = "deleted"]  BY <2>1, <3>1 DEF PeerRefused
    <3>3. e = id  BY <3>2 DEF TypeOK, LibraryOK
    <3> QED BY <2>1, <3>1, <3>3 DEF Deletes
  <2>2. CASE ChannelRefused
    <3>1. PICK e : e = th[Script].dc  OBVIOUS
    <3>2. rtc' = [rtc EXCEPT ![e].st = "deleted"]  BY <2>2, <3>1 DEF ChannelRefused
    <3>3. e = id  BY <3>2 DEF TypeOK, LibraryOK
    <3> QED BY <2>2, <3>1, <3>3 DEF Deletes
  <2>3. CASE DeleteObject
    <3>1. PICK e : e = Head(th[Script].todo).id  OBVIOUS
    <3>2. id # e => rtc'[id] = rtc[id] \/ rtc'[id] = [rtc[id] EXCEPT !.st = "closed"]
      BY <2>3, <3>1 DEF DeleteObject
    <3>3. id = e  BY <1>0, <3>2 DEF RtcObjects
    <3> QED BY <2>3, <3>1, <3>3 DEF Deletes
  <2>4. CASE RtcCleanup  BY <2>4, SMTT(30) DEF Deletes
  <2>5. CASE PeerAlloc \/ WirePeer \/ ClearCallback \/ RtcJoin \/ RtcDone
    BY <1>1, <2>5 DEF PeerAlloc, WirePeer, ClearCallback, RtcJoin, RtcDone, rtcVars
  <2>6. CASE Register(Script) \/ WireChannel(Script) \/ CheckOpen(Script) \/ AnnounceOpen(Script)
    BY <1>1, <2>6, SMTT(30) DEF Register, WireChannel, CheckOpen, AnnounceOpen, rtcVars
  <2>7. CASE PeerFreeSweep \/ PeerFreeDone \/ CleanupChannel \/ CleanupPeer \/ CleanupReset
    BY <1>1, <2>7, Zenon DEF PeerFreeSweep, PeerFreeDone, CleanupChannel, CleanupPeer, CleanupReset, rtcVars
  <2>8. CASE DrainLock \/ DrainDiscard \/ DrainDeliver \/ DrainEnd
    BY <1>1, <2>8 DEF DrainLock, DrainDiscard, DrainDeliver, DrainEnd, rtcVars
  <2> QED BY <1>6, <2>1, <2>2, <2>3, <2>4, <2>5, <2>6, <2>7, <2>8 DEF ScriptStep
<1>7. CASE UNCHANGED vars  BY <1>1, <1>7 DEF vars, rtcVars
<1> QED BY <1>1, <1>2, <1>3, <1>4, <1>5, <1>6, <1>7 DEF Next

LEMMA DeletedQuiet ==
    ASSUME TypeOK, QuietInv, [Next]_vars, NEW id \in RtcIds, rtc[id].st # "deleted", rtc'[id].st = "deleted",
           ~Owes("cleanup"), th[Script].kind # "channel_free"
    PROVE  wired[id] = {} /\ ~InFlightOn(id)
<1>1. ASSUME Untouched(id) PROVE wired[id] = {} /\ ~InFlightOn(id)
  BY <1>1 DEF Untouched, InFlightOn, InFlight, At
<1>2. CASE PeerRefused /\ th[Script].obj = id
  BY <1>1, <1>2 DEF PeerRefused, At, QuietInv, ScriptOK
<1>3. CASE ChannelRefused /\ th[Script].dc = id
  BY <1>1, <1>3 DEF ChannelRefused, At, QuietInv, ScriptOK
<1>4. CASE DeleteObject /\ Head(th[Script].todo).id = id
  <2>1. PICK c : c = th[Script]  OBVIOUS
  <2>2. c.pc = "rtc" /\ c.todo \in Seq(Calls) /\ c.todo # <<>> /\ Head(c.todo).op = "delete" /\ ~InFlightOn(id)
    BY <1>4, <2>1, ScriptThread, Local DEF DeleteObject, Owes, At
  <2>3. 1 \in DOMAIN c.todo /\ Head(c.todo) = c.todo[1]  BY <2>2
  <2>4. (\E j \in 1 .. 1 - 1 : c.todo[j] = ClearOf(c.todo[1].id)) \/ Quiet(c.todo[1].id)
    BY <2>1, <2>2, <2>3 DEF QuietInv, TodoOK
  <2>5. Quiet(id)  BY <1>4, <2>1, <2>3, <2>4
  <2> QED BY <2>2, <2>5 DEF Quiet
<1>5. ~RtcCleanup  BY DEF RtcCleanup
<1> QED BY <1>2, <1>3, <1>4, <1>5, DeletedBy DEF Deletes

\* QuietDelete: dcx_peer_free, dcx_cleanup, dcx_poll's reaper and the refusals
\* of dcx_peer_new and dcx_channel_new delete an object only with every callback
\* of it cleared and none in flight, whatever the interleaving with the workers.
THEOREM DeletesQuietly == Spec => QuietDelete
<1>1. TypeOK /\ QuietInv /\ [Next]_vars =>
        [\A id \in RtcIds :
           rtc[id].st # "deleted" /\ rtc'[id].st = "deleted" /\ ~Owes("cleanup")
             /\ th[Script].kind # "channel_free" => wired[id] = {} /\ ~InFlightOn(id)]_vars
  BY DeletedQuiet
<1> QED BY <1>1, TypeCorrect, QuietInvariant, PTL DEF Spec, QuietDelete

\* -------------------------------------------------- the queue and its account

\* An event's cost, and what it tells of shed events, are natural numbers.
LEMMA EventCounts ==
    ASSUME NEW e \in Events
    PROVE  Cost(e) \in Nat /\ ShedTold(e) \in Nat
  BY ShimAssumption DEF Cost, VarBytes, ShedTold, Events

\* What a queue costs grows by what is appended and shrinks by what leaves.
LEMMA CostOf ==
    ASSUME NEW s \in Seq(Events)
    PROVE  /\ SumOf(s, Cost) \in Nat /\ (s = <<>> => SumOf(s, Cost) = 0)
           /\ \A e \in Events : SumOf(Append(s, e), Cost) = SumOf(s, Cost) + Cost(e)
           /\ s # <<>> => SumOf(s, Cost) = Cost(Head(s)) + SumOf(Tail(s), Cost)
<1> DEFINE W == [e \in Events |-> Cost(e)]
<1>1. W \in [Events -> Nat] /\ \A e \in Events : W[e] = Cost(e)  BY EventCounts
<1>2. ASSUME NEW q \in Seq(Events) PROVE SumOf(q, Cost) = SumBy(q, W)
  <2>1. \A i \in DOMAIN q : q[i] \in Events  OBVIOUS
  <2>2. \A i \in DOMAIN q : Cost(q[i]) = W[q[i]]  BY <1>1, <2>1
  <2> HIDE DEF W
  <2>3. [i \in DOMAIN q |-> Cost(q[i])] = [i \in DOMAIN q |-> W[q[i]]]  BY <2>2
  <2> QED BY <2>3 DEF SumOf, SumBy
<1> HIDE DEF W
<1>3. \A e \in Events : Append(s, e) \in Seq(Events)  OBVIOUS
<1>4. s # <<>> => Tail(s) \in Seq(Events) /\ Head(s) \in Events  OBVIOUS
<1>5. SumOf(s, Cost) \in Nat /\ (s = <<>> => SumOf(s, Cost) = 0)  BY <1>1, <1>2, SumByType
<1>6. \A e \in Events : SumOf(Append(s, e), Cost) = SumOf(s, Cost) + Cost(e)
  BY <1>1, <1>2, <1>3, SumByAppend
<1>7. s # <<>> => SumOf(s, Cost) = Cost(Head(s)) + SumOf(Tail(s), Cost)
  BY <1>1, <1>2, <1>4, SumByTail
<1> QED BY <1>5, <1>6, <1>7

\* What the app was told of shed events.
LEMMA ShedOf ==
    ASSUME NEW s \in Seq(Events)
    PROVE  /\ SumOf(s, ShedTold) \in Nat /\ (s = <<>> => SumOf(s, ShedTold) = 0)
           /\ \A e \in Events : SumOf(Append(s, e), ShedTold) = SumOf(s, ShedTold) + ShedTold(e)
<1> DEFINE W == [e \in Events |-> ShedTold(e)]
<1>1. W \in [Events -> Nat] /\ \A e \in Events : W[e] = ShedTold(e)  BY EventCounts
<1>2. ASSUME NEW q \in Seq(Events) PROVE SumOf(q, ShedTold) = SumBy(q, W)
  <2>1. \A i \in DOMAIN q : q[i] \in Events  OBVIOUS
  <2>2. \A i \in DOMAIN q : ShedTold(q[i]) = W[q[i]]  BY <1>1, <2>1
  <2> HIDE DEF W
  <2>3. [i \in DOMAIN q |-> ShedTold(q[i])] = [i \in DOMAIN q |-> W[q[i]]]  BY <2>2
  <2> QED BY <2>3 DEF SumOf, SumBy
<1> HIDE DEF W
<1>3. \A e \in Events : Append(s, e) \in Seq(Events)  OBVIOUS
<1>4. SumOf(s, ShedTold) \in Nat /\ (s = <<>> => SumOf(s, ShedTold) = 0)
  BY <1>1, <1>2, SumByType
<1>5. \A e \in Events : SumOf(Append(s, e), ShedTold) = SumOf(s, ShedTold) + ShedTold(e)
  BY <1>1, <1>2, <1>3, SumByAppend
<1> QED BY <1>4, <1>5

\* ---------------------------------------------------- what a callback carries

\* A callback starts with an argument of its kind.
LEMMA FireCarries ==
    ASSUME TypeOK, QuietInv, NEW w \in Workers, NEW id \in RtcIds, NEW k \in Kinds, Fire(w, id, k), KindsGrow
    PROVE  CarryOK(th[w])' /\ \A u \in Threads : u # w => th'[u] = th[u]
<1>1. PICK n \in Argument(k) :
         th' = [th EXCEPT ![w] = [Idle EXCEPT !.pc = "body", !.obj = id, !.kind = k, !.n = n]]
  BY Zenon DEF Fire
<1>2. PICK r : r = [Idle EXCEPT !.pc = "body", !.obj = id, !.kind = k, !.n = n]  OBVIOUS
<1>3. r.pc = "body" /\ r.obj = id /\ r.kind = k /\ r.n = n  BY <1>2 DEF Idle
<1>4. th'[w] = r /\ \A u \in Threads : u # w => th'[u] = th[u]
  BY <1>1, <1>2, WorkerThread, ThreadSet
<1>5. rtc[id].kind # "none" /\ k \in Elems(Order(id))
  BY DEF Fire, Exists, QuietInv, WiresOK
<1>6. IsDc(id)' => IsDc(id)  BY <1>5 DEF KindsGrow, IsDc
<1>7. IsDc(id) => k \notin ShadowKinds
  BY <1>5 DEF IsDc, IsPc, Order, Elems, ChannelCallbacks, ShadowKinds
<1> QED BY <1>1, <1>3, <1>4, <1>6, <1>7 DEF CarryOK

\* A channel's announcement starts with a label.
LEMMA FireDataChannelCarries ==
    ASSUME TypeOK, NEW w \in Workers, NEW p \in RtcIds, NEW d \in RtcIds, FireDataChannel(w, p, d)
    PROVE  CarryOK(th[w])' /\ \A u \in Threads : u # w => th'[u] = th[u]
<1>1. PICK n \in Sizes :
         th' = [th EXCEPT ![w] = [Idle EXCEPT !.pc = "lookup", !.obj = p, !.dc = d,
                                              !.kind = "DATA_CHANNEL", !.n = n]]
  BY Zenon DEF FireDataChannel
<1>2. PICK r : r = [Idle EXCEPT !.pc = "lookup", !.obj = p, !.dc = d, !.kind = "DATA_CHANNEL", !.n = n]
  OBVIOUS
<1>3. r.pc = "lookup" /\ r.n = n  BY <1>2 DEF Idle
<1>4. th'[w] = r /\ \A u \in Threads : u # w => th'[u] = th[u]
  BY <1>1, <1>2, WorkerThread, ThreadSet
<1> QED BY <1>1, <1>3, <1>4 DEF CarryOK

\* A callback keeps its argument until it returns.
LEMMA CallbackCarries ==
    ASSUME TypeOK, CarryInv, NEW w \in Workers, CallbackStep(w)
    PROVE  CarryOK(th[w])' /\ \A u \in Threads : u # w => th'[u] = th[u]
<1> DEFINE c == th[w]
<1>1. \A u \in Threads : u # w => th'[u] = th[u]
  BY WorkerThread, CallbackOutside, RegisterOutside DEF CallbackStep, MovesOutside
<1> SUFFICES CarryOK(th[w])'  BY <1>1
<1>2. c \in Locals /\ w \in Threads  BY WorkerThread, Local
<1>3. ASSUME NEW r, th' = [th EXCEPT ![w] = r], r.pc \notin {"body", "lookup", "register"}
      PROVE  CarryOK(th[w])'
  <2>1. th'[w] = r  BY <1>2, <1>3, ThreadSet
  <2> QED BY <1>3, <2>1 DEF CarryOK
<1>4. ASSUME NEW l, Goto(w, l), l \notin {"body", "lookup", "register"} PROVE CarryOK(th[w])'
  <2>1. PICK r : r = [c EXCEPT !.pc = l]  OBVIOUS
  <2>2. r.pc = l  BY <1>2, <2>1 DEF Locals
  <2> QED BY <1>3, <1>4, <2>1, <2>2 DEF Goto
<1>5. CASE Return(w)  BY <1>3, <1>5, IdleHand DEF Return
<1>6. CASE Lookup(w)
  <2>1. PICK r : r = [c EXCEPT !.pc = IF rtcPeer[c.obj] = NoHandle THEN "orphan" ELSE "register",
                               !.peer = rtcPeer[c.obj]]
    OBVIOUS
  <2>2. c.pc = "lookup" /\ th' = [th EXCEPT ![w] = r]  BY <1>6, <2>1 DEF Lookup, At
  <2>3. r.pc \in {"orphan", "register"} /\ r.n = c.n  BY <1>2, <2>1 DEF Locals
  <2>4. th'[w] = r  BY <1>2, <2>2, ThreadSet
  <2>5. c.n \in Sizes  BY <2>2 DEF CarryInv, CarryOK
  <2> QED BY <2>3, <2>4, <2>5 DEF CarryOK
<1>7. CASE Register(w)
  <2>1. CASE AllocHandle(chans) = NoHandle  BY <1>4, <1>7, <2>1, WorkerThread DEF Register
  <2>2. CASE AllocHandle(chans) # NoHandle
    <3>1. PICK r : r = [c EXCEPT !.pc = "wire", !.chan = AllocHandle(chans), !.ks = WiredAtBirth(ChannelCallbacks)]
      OBVIOUS
    <3>2. r.pc = "wire"  BY <1>2, <3>1 DEF Locals
    <3>3. th' = [th EXCEPT ![w] = r]  BY <1>7, <2>2, <3>1 DEF Register
    <3> QED BY <1>3, <3>2, <3>3
  <2> QED BY <2>1, <2>2
<1>8. CASE WireChannel(w)
  <2>1. CASE c.ks = {}  BY <1>4, <1>8, <2>1 DEF WireChannel
  <2>2. CASE c.ks # {}
    <3>1. PICK r : r = [c EXCEPT !.ks = @ \ {FirstOf(c.ks, ChannelCallbacks)}]  OBVIOUS
    <3>2. r.pc = "wire"  BY <1>2, <1>8, <3>1 DEF Locals, WireChannel, At
    <3>3. th' = [th EXCEPT ![w] = r]  BY <1>8, <2>2, <3>1 DEF WireChannel
    <3> QED BY <1>3, <3>2, <3>3
  <2> QED BY <2>1, <2>2
<1>9. CASE CheckOpen(w) \/ AnnounceOpen(w)
  <2>1. PICK l \in {"announce", "revalidate"} : Goto(w, l)
    BY <1>9, WorkerThread DEF CheckOpen, AnnounceOpen, Registered
  <2> QED BY <1>4, <2>1
<1>10. Return(w) \/ Lookup(w) \/ Register(w) \/ WireChannel(w) \/ CheckOpen(w) \/ AnnounceOpen(w)
  BY DEF CallbackStep, PeerCallback, OpenCallback, ChannelCallback, Orphan, Revalidate
<1> QED BY <1>5, <1>6, <1>7, <1>8, <1>9, <1>10

\* CarryInv is inductive with TypeOK and QuietInv.
LEMMA NextCarry ==
    ASSUME TypeOK, QuietInv, CarryInv, [Next]_vars
    PROVE  CarryInv'
<1>1. KindsGrow  BY NextHands DEF HandsMove
<1> SUFFICES ASSUME NEW w \in Workers PROVE CarryOK(th[w])'  BY DEF CarryInv
<1>2. ASSUME th'[w] = th[w] PROVE CarryOK(th[w])'
  <2>1. CarryOK(th[w])  BY DEF CarryInv
  <2>2. th[w].pc # "idle" => th[w].obj \in RtcIds /\ rtc[th[w].obj].kind # "none"
    BY DEF QuietInv, WorkerOK
  <2>3. th[w].pc = "body" => (IsDc(th[w].obj)' => IsDc(th[w].obj))
    BY <1>1, <1>2, <2>2 DEF KindsGrow, IsDc
  <2> QED BY <1>2, <2>1, <2>3 DEF CarryOK
<1>3. CASE Library
  <2>1. ASSUME NEW d \in RtcIds, RtcChannelOpens(d) \/ RtcChannelCloses(d) PROVE th'[w] = th[w]
    BY <2>1 DEF RtcChannelOpens, RtcChannelCloses
  <2> QED BY <1>1, <1>2, <1>3, <2>1, WorkerThread, FireCarries, FireDataChannelCarries DEF Library
<1>4. ASSUME NEW v \in Workers, CallbackStep(v) PROVE CarryOK(th[w])'
  BY <1>2, <1>4, WorkerThread, CallbackCarries
<1>5. CASE UNCHANGED vars  BY <1>2, <1>5 DEF vars
<1> QED BY <1>2, <1>3, <1>4, <1>5, ScriptLeaves DEF Next

\* No callback runs at the start.
LEMMA InitCarry ==
    ASSUME Init
    PROVE  CarryInv
  BY IdleHand, WorkerThread DEF Init, CarryInv, CarryOK

\* ---------------------------------------------- what a step does to the queue

\* cb_state_change and its kin offer one event, or none.
LEMMA PeerCallbackOffers ==
    ASSUME TypeOK, LockDiscipline, MapsInv, CarryInv, NEW w \in Workers, PeerCallback(w)
    PROVE  QueueMoves
<1>1. PICK h : h = rtcPeer[th[w].obj]  OBVIOUS
<1>2. PICK e : e = Event(th[w].kind, h, NoHandle, th[w].n)  OBVIOUS
<1>3. w \in Threads /\ th[w].pc = "body" /\ mu = Nobody
  BY WorkerThread DEF PeerCallback, At
<1>4. th[w].kind \in CallbackNames /\ th[w].obj \in RtcIds /\ th[w].n \in Nat
  BY <1>3, Local DEF PeerCallback, At
<1>5. CASE h = NoHandle  BY <1>1, <1>5 DEF PeerCallback, QueueMoves, appVars
<1>6. CASE h # NoHandle
  <2>1. Get(peers, h) # Null  BY <1>1, <1>3, <1>4, <1>6, Unlocked DEF Pointed
  <2>2. h \in Handles  BY <2>1, PeerEntry
  <2>3. e \in Events /\ e.type = th[w].kind /\ e.peer = h /\ e.chan = NoHandle /\ e.n = th[w].n
    BY <1>2, <1>4, <2>2 DEF Event, Events, AnyHandle
  <2>4. e.type \notin {"E_QUEUE_OVERFLOW", "E_CHANNEL_INCOMING"}
    BY <1>4, <2>3 DEF CallbackNames, Elems, PeerCallbacks, ChannelCallbacks
  <2>5. th[w].n \in Argument(th[w].kind)  BY <1>3 DEF CarryInv, CarryOK
  <2>6. VarBytes(e) \in Sizes \cup {0}
    BY <2>3, <2>4, <2>5 DEF Argument, VarBytes, ShadowKinds
  <2>7. /\ Enqueue(e) /\ UNCHANGED <<log, peers, rtcPeer>>
        /\ shadow' = IF e.type \in ShadowKinds THEN Refreshed(e.type, e.peer, e.n) ELSE shadow
    BY <1>1, <1>2, <1>6, <2>3 DEF PeerCallback, appVars
  <2>8. Offers(e)  BY <2>1, <2>2, <2>3, <2>4, <2>6, <2>7 DEF Offers
  <2> QED BY <2>3, <2>8 DEF QueueMoves
<1> QED BY <1>5, <1>6

\* A channel's callback offers one event, or none.
LEMMA ChannelCallbackOffers ==
    ASSUME TypeOK, LockDiscipline, MapsInv, CarryInv, NEW w \in Workers, ChannelCallback(w)
    PROVE  QueueMoves
<1> DEFINE c == th[w]
<1>1. PICK h : h = rtcChan[c.obj]  OBVIOUS
<1>2. PICK p : p = IF Get(chans, h) = Null THEN NoHandle ELSE Get(chans, h).peer  OBVIOUS
<1>3. w \in Threads /\ c.pc = "body" /\ mu = Nobody /\ IsDc(c.obj)
  BY WorkerThread DEF ChannelCallback, At
<1>4. c.kind \in CallbackNames /\ c.obj \in RtcIds /\ c.n \in Nat
  BY <1>3, Local DEF ChannelCallback, At
<1>5. CASE h = NoHandle  BY <1>1, <1>5 DEF ChannelCallback, QueueMoves, shimVars, appVars
<1>6. CASE h # NoHandle
  <2>1. Get(chans, h) # Null  BY <1>1, <1>3, <1>4, <1>6, Unlocked DEF Pointed
  <2>2. h \in Handles /\ p \in Handles  BY <1>2, <2>1, ChannelEntry
  <2>3. PICK e : e \in {Event("E_CHANNEL_ERROR", p, h, 0), Event(c.kind, p, h, c.n)} /\ Enqueue(e)
    BY <1>1, <1>2, <1>6 DEF ChannelCallback
  <2>4. e \in Events
    BY <1>4, <2>2, <2>3 DEF Event, Events, AnyHandle, CallbackNames, Elems, ChannelCallbacks
  <2>5. c.n \in Argument(c.kind) /\ c.kind \notin ShadowKinds
    BY <1>3 DEF CarryInv, CarryOK
  <2>6. \/ e.type = "E_CHANNEL_ERROR" /\ e.n = 0
        \/ e.type = c.kind /\ e.n = c.n
    BY <2>3 DEF Event
  <2>7. e.type \notin {"E_QUEUE_OVERFLOW", "E_CHANNEL_INCOMING"} \cup ShadowKinds
    BY <1>4, <2>5, <2>6 DEF CallbackNames, Elems, PeerCallbacks, ChannelCallbacks, ShadowKinds
  <2>8. VarBytes(e) \in Sizes \cup {0}  BY <2>5, <2>6, <2>7 DEF Argument, VarBytes
  <2>9. UNCHANGED <<log, peers, rtcPeer, shadow>>
    BY DEF ChannelCallback, appVars, shimVars
  <2>10. Offers(e)  BY <2>3, <2>7, <2>8, <2>9 DEF Offers
  <2> QED BY <2>4, <2>10 DEF QueueMoves
<1> QED BY <1>5, <1>6

\* The announcement of an open offers one event, or none.
LEMMA OpenOffers ==
    ASSUME TypeOK, NEW h, NEW p, Announce(h, Get(chans, h), p), UNCHANGED <<log, peers, rtcPeer, shadow>>,
           p \in AnyHandle
    PROVE  QueueMoves
<1>1. CASE UNCHANGED <<chans, queueVars>>  BY <1>1 DEF QueueMoves
<1>2. CASE Marks(h) /\ Enqueue(Event("E_CHANNEL_OPEN", p, h, 0))
  <2>1. Get(chans, h) # Null  BY <1>2, TablesTyped, GetFacts DEF Marks
  <2>2. h \in Handles  BY <2>1, ChannelEntry
  <2>3. PICK e : e = Event("E_CHANNEL_OPEN", p, h, 0)  OBVIOUS
  <2>4. e \in Events /\ e.type = "E_CHANNEL_OPEN"
    BY <2>2, <2>3 DEF Event, Events, AnyHandle, CallbackNames, Elems, ChannelCallbacks
  <2>5. Offers(e)  BY <1>2, <2>3, <2>4 DEF Offers, VarBytes, ShadowKinds
  <2> QED BY <2>4, <2>5 DEF QueueMoves
<1> QED BY <1>1, <1>2, AnnounceMarks

\* A registration offers its INCOMING, or nothing.
LEMMA RegisterOffers ==
    ASSUME TypeOK, MapsInv, CarryInv, NEW t \in Threads, Register(t)
    PROVE  QueueMoves
<1>1. CASE ~CanAlloc(chans)  BY <1>1 DEF Register, AllocHandle, QueueMoves, appVars
<1>2. CASE CanAlloc(chans) /\ ~AnnouncesIncoming(t)
  BY <1>2 DEF Register, QueueMoves, appVars
<1>3. CASE CanAlloc(chans) /\ AnnouncesIncoming(t)
  <2>1. PICK h : h = AllocHandle(chans)  OBVIOUS
  <2>2. h \in Handles  BY <1>3, <2>1, TablesTyped, AllocSlot
  <2>3. h # NoHandle  BY <2>2 DEF Handles, NoHandle
  <2>4. t \in Workers /\ th[t].pc = "register"
    BY <1>3 DEF AnnouncesIncoming, Threads, Register, At
  <2>5. th[t].n \in Sizes  BY <2>4 DEF CarryInv, CarryOK
  <2>6. th[t].peer \in AnyHandle /\ th[t].n \in Nat  BY Local
  <2>7. PICK e : e = Event("E_CHANNEL_INCOMING", th[t].peer, h, th[t].n)  OBVIOUS
  <2>8. Enqueue(e) /\ UNCHANGED <<log, peers, rtcPeer, shadow>>
    BY <1>3, <2>1, <2>3, <2>7 DEF Register, appVars
  <2>9. e \in Events /\ e.type = "E_CHANNEL_INCOMING" /\ e.n = th[t].n
    BY <2>2, <2>6, <2>7 DEF Event, Events, AnyHandle
  <2>10. Offers(e)  BY <2>5, <2>8, <2>9 DEF Offers, VarBytes, ShadowKinds
  <2> QED BY <2>9, <2>10 DEF QueueMoves
<1> QED BY <1>1, <1>2, <1>3

\* Every step of the shim does one of these things to the queue.
LEMMA QueueStep ==
    ASSUME TypeOK, LockDiscipline, MapsInv, CarryInv, [Next]_vars
    PROVE  QueueMoves
<1>1. ASSUME UNCHANGED <<queueVars, log, shadow>> PROVE QueueMoves  BY <1>1 DEF QueueMoves
<1>2. ASSUME NEW t \in Threads, AnnounceOpen(t) PROVE QueueMoves
  <2>1. PICK h : h = th[t].chan  OBVIOUS
  <2>2. Announce(h, Get(chans, h), th[t].peer) /\ UNCHANGED <<log, peers, rtcPeer, shadow>>
    BY <1>2, <2>1, SMTT(30) DEF AnnounceOpen
  <2> QED BY <2>2, Local, OpenOffers
<1>5. CASE Library
  BY <1>1, <1>5, Zenon DEF Library, RtcChannelOpens, RtcChannelCloses, Fire, FireDataChannel, appVars, shimVars
<1>6. ASSUME NEW w \in Workers, CallbackStep(w) PROVE QueueMoves
  <2>1. CASE OpenCallback(w)
    <3>1. PICK h : h = rtcChan[th[w].obj]  OBVIOUS
    <3>2. PICK p : p = IF Get(chans, h) = Null THEN NoHandle ELSE Get(chans, h).peer
      OBVIOUS
    <3>3. Announce(h, Get(chans, h), p) /\ UNCHANGED <<log, peers, rtcPeer, shadow>>
      BY <2>1, <3>1, <3>2 DEF OpenCallback, appVars
    <3>4. p \in AnyHandle  BY <3>2, ChannelEntry DEF AnyHandle
    <3> QED BY <3>3, <3>4, OpenOffers
  <2>2. CASE Lookup(w) \/ Orphan(w) \/ Revalidate(w) \/ WireChannel(w) \/ CheckOpen(w)
    BY <1>1, <2>2, SMTT(30) DEF Lookup, Orphan, Revalidate, WireChannel, CheckOpen, appVars, shimVars
  <2> QED
    BY <1>2, <1>6, <2>1, <2>2, WorkerThread, PeerCallbackOffers, ChannelCallbackOffers, RegisterOffers
       DEF CallbackStep
<1>7. CASE Call
  BY <1>1, <1>7, Zenon DEF Call, PeerNew, PeerClose, PeerFreeLock, ChannelNew, ChannelClose,
     SetBufferedLow, ChannelFree, CleanupLock, shimVars, appVars
<1>8. CASE PollStart \/ PollRetry  BY <1>1, <1>8 DEF PollStart, PollRetry, Poll, appVars
<1>9. CASE ScriptStep /\ ~PollRetry
  <2>1. CASE PeerAlloc \/ PeerRefused \/ WirePeer \/ ChannelRefused \/ WireChannel(Script) \/ CheckOpen(Script)
    BY <1>1, <2>1, SMTT(30) DEF PeerAlloc, PeerRefused, WirePeer, ChannelRefused, WireChannel, CheckOpen, shimVars, appVars
  <2>2. CASE ClearCallback \/ DeleteObject \/ RtcCleanup \/ RtcJoin \/ RtcDone
    BY <1>1, <2>2, Zenon DEF ClearCallback, DeleteObject, RtcCleanup, RtcJoin, RtcDone, shimVars, appVars
  <2>3. CASE PeerFreeSweep \/ CleanupChannel \/ CleanupPeer
    BY <1>1, <2>3 DEF PeerFreeSweep, CleanupChannel, CleanupPeer
  <2>4. CASE PeerFreeDone  BY <2>4 DEF PeerFreeDone, QueueMoves
  <2>5. CASE CleanupReset \/ DrainDiscard \/ DrainDeliver  BY <2>5 DEF QueueMoves
  <2>6. CASE DrainLock  BY <1>1, <2>6 DEF DrainLock, shimVars, appVars
  <2>7. CASE DrainEnd
    <3>1. CASE Reports
      <4>1. ReportsShed
        BY <2>7, <3>1 DEF DrainEnd, Reports, OwesReport, ReportsShed, shimVars
      <4> QED BY <4>1 DEF QueueMoves
    <3>2. CASE ~Reports  BY <1>1, <2>7, <3>2 DEF DrainEnd, queueVars, shimVars
    <3> QED BY <3>1, <3>2
  <2> QED
    BY <1>2, <1>9, <2>1, <2>2, <2>3, <2>4, <2>5, <2>6, <2>7, ScriptThread, RegisterOffers DEF ScriptStep
<1>10. CASE UNCHANGED vars  BY <1>1, <1>10 DEF vars, appVars, shimVars
<1> QED BY <1>5, <1>6, <1>7, <1>8, <1>9, <1>10 DEF Next

\* --------------------------------------------------- the caps and the account

\* What accepting an event, and taking one out, does to the queue.
LEMMA EnqueueAccounts ==
    ASSUME TypeOK, QueueAccounts, BacklogInv, NEW e \in Events, Offers(e)
    PROVE  QueueAccounts' /\ BacklogInv'
<1>1. queue \in Seq(Events) /\ BacklogOK(e)  BY DEF TypeOK, QueueOK, Offers, BacklogOK
<1>2. CASE Overfull(e)  BY <1>2 DEF Offers, Enqueue, QueueAccounts, BacklogInv
<1>3. CASE ~Overfull(e)
  <2>1. queue' = Append(queue, e) /\ queueBytes' = queueBytes + Cost(e)
    BY <1>3 DEF Offers, Enqueue
  <2>2. SumOf(queue', Cost) = SumOf(queue, Cost) + Cost(e)  BY <1>1, <2>1, CostOf
  <2>3. ~(Len(queue) >= MaxQueueEvents) /\ ~(queueBytes + Cost(e) > MaxQueueBytes)
    BY <1>3 DEF Overfull
  <2>4. Cost(e) \in Nat /\ queueBytes \in Int /\ MaxQueueEvents \in Nat /\ MaxQueueBytes \in Nat
    BY EventCounts, ShimAssumption DEF TypeOK, QueueOK
  <2>5. Len(queue') = Len(queue) + 1 /\ Len(queue) \in Nat  BY <1>1, <2>1
  <2>6. PICK a : a = SumOf(queue, Cost) /\ a = queueBytes  BY DEF QueueAccounts
  <2>7. PICK b : b = SumOf(queue', Cost) /\ b = a + Cost(e)  BY <2>2, <2>6
  <2>8. b = queueBytes' /\ b <= MaxQueueBytes /\ Len(queue') <= MaxQueueEvents
    BY <2>1, <2>3, <2>4, <2>5, <2>6, <2>7
  <2>9. QueueAccounts'  BY <2>7, <2>8 DEF QueueAccounts
  <2>10. \A i \in DOMAIN queue' : queue'[i] = e \/ (i \in DOMAIN queue /\ queue'[i] = queue[i])
    BY <1>1, <2>1
  <2> QED BY <1>1, <2>9, <2>10 DEF BacklogInv
<1> QED BY <1>2, <1>3

\* What leaves the queue takes its cost with it.
LEMMA PopAccounts ==
    ASSUME TypeOK, QueueAccounts, BacklogInv, queue # <<>>, PopFront
    PROVE  QueueAccounts' /\ BacklogInv'
<1>1. queue \in Seq(Events) /\ Head(queue) \in Events /\ Tail(queue) \in Seq(Events)
  BY DEF TypeOK, QueueOK
<1>2. queue' = Tail(queue) /\ queueBytes' = queueBytes - Cost(Head(queue))
  BY DEF PopFront
<1>3. SumOf(queue, Cost) = Cost(Head(queue)) + SumOf(Tail(queue), Cost)  BY <1>1, CostOf
<1>4. Cost(Head(queue)) \in Nat /\ SumOf(Tail(queue), Cost) \in Nat
  BY <1>1, EventCounts, CostOf
<1>5. Len(queue') = Len(queue) - 1 /\ Len(queue) \in Nat  BY <1>1, <1>2
<1>6. MaxQueueEvents \in Nat /\ MaxQueueBytes \in Nat  BY ShimAssumption
<1>7. QueueAccounts'
  <2>1. PICK a : a = SumOf(queue, Cost) /\ a = queueBytes  BY DEF QueueAccounts
  <2>2. PICK b : b = SumOf(queue', Cost)  OBVIOUS
  <2>3. b \in Nat /\ a = Cost(Head(queue)) + b  BY <1>2, <1>3, <1>4, <2>1, <2>2
  <2>4. a <= MaxQueueBytes /\ Len(queue) <= MaxQueueEvents  BY <2>1 DEF QueueAccounts
  <2>5. b = queueBytes' /\ b <= MaxQueueBytes /\ Len(queue') <= MaxQueueEvents
    BY <1>2, <1>4, <1>5, <1>6, <2>1, <2>3, <2>4
  <2> QED BY <2>2, <2>5 DEF QueueAccounts
<1>8. \A i \in DOMAIN queue' : i + 1 \in DOMAIN queue /\ queue'[i] = queue[i + 1]
  BY <1>1, <1>2
<1> QED BY <1>7, <1>8 DEF BacklogInv

\* An empty queue costs nothing.
LEMMA EmptyAccounts ==
    ASSUME queue = <<>>, queueBytes = 0
    PROVE  QueueAccounts /\ BacklogInv
<1>1. <<>> \in Seq(Events) /\ Len(<<>>) = 0 /\ DOMAIN <<>> = {}  OBVIOUS
<1>2. SumOf(queue, Cost) = 0  BY <1>1, CostOf
<1> QED BY <1>1, <1>2, ShimAssumption DEF QueueAccounts, BacklogInv

\* QueueAccounts is kept by whatever moves the queue.
LEMMA NextAccounts ==
    ASSUME TypeOK, QueueAccounts, BacklogInv, QueueMoves
    PROVE  QueueAccounts' /\ BacklogInv'
<1>1. CASE UNCHANGED <<queue, queueBytes>>  BY <1>1 DEF QueueAccounts, BacklogInv
<1>2. ASSUME NEW e \in Events, Offers(e) PROVE QueueAccounts' /\ BacklogInv'
  BY <1>2, EnqueueAccounts
<1>3. CASE DrainDiscard \/ DrainDeliver
  BY <1>3, PopAccounts DEF DrainDiscard, DrainDeliver
<1>4. CASE CleanupReset
  <2>1. <<>> \in Seq(Events) /\ Len(<<>>) = 0 /\ DOMAIN <<>> = {}  OBVIOUS
  <2>2. queue' = <<>> /\ queueBytes' = 0  BY <1>4 DEF CleanupReset
  <2>3. SumOf(queue', Cost) = 0  BY <2>1, <2>2, CostOf
  <2> QED BY <2>1, <2>2, <2>3, ShimAssumption DEF QueueAccounts, BacklogInv
<1> QED BY <1>1, <1>2, <1>3, <1>4 DEF QueueMoves, queueVars, ReportsShed

\* ShedAccounted is kept by whatever moves the queue.
LEMMA NextShed ==
    ASSUME TypeOK, BacklogInv, ShedAccounted, QueueMoves
    PROVE  ShedAccounted'
<1>1. /\ log \in Seq(Events) /\ queue \in Seq(Events)
      /\ dropped \in Nat /\ shed \in Nat /\ forgotten \in Nat /\ SumOf(log, ShedTold) \in Nat
  BY ShedOf DEF TypeOK, QueueOK, AppOK
<1>2. CASE UNCHANGED <<queueVars, log>>  BY <1>2 DEF queueVars, ShedAccounted
<1>3. ASSUME NEW e \in Events, Offers(e) PROVE ShedAccounted'
  <2>1. CASE Overfull(e)  BY <1>1, <1>3, <2>1 DEF Offers, Enqueue, Shed, ShedAccounted
  <2>2. CASE ~Overfull(e)  BY <1>3, <2>2 DEF Offers, Enqueue, ShedAccounted
  <2> QED BY <2>1, <2>2
<1>4. CASE DrainDiscard  BY <1>4 DEF DrainDiscard, appVars, ShedAccounted
<1>5. CASE DrainDeliver
  <2>1. Head(queue) \in Events /\ Head(queue) = queue[1] /\ 1 \in DOMAIN queue
    BY <1>1, <1>5 DEF DrainDeliver
  <2>2. ShedTold(Head(queue)) = 0  BY <2>1 DEF BacklogInv, BacklogOK, ShedTold
  <2>3. log' = Append(log, Head(queue)) /\ UNCHANGED <<dropped, shed, refused, forgotten>>
    BY <1>5 DEF DrainDeliver
  <2>4. SumOf(Append(log, Head(queue)), ShedTold) = SumOf(log, ShedTold) + ShedTold(Head(queue))
    BY <1>1, <2>1, ShedOf
  <2>5. SumOf(log', ShedTold) = SumOf(log, ShedTold) + 0  BY <2>2, <2>3, <2>4
  <2>6. SumOf(log', ShedTold) = SumOf(log, ShedTold)  BY <1>1, <2>5
  <2> QED BY <2>3, <2>6 DEF ShedAccounted
<1>6. CASE ReportsShed
  <2>1. PICK e : e = OverflowReport  OBVIOUS
  <2>2. e \in Events /\ ShedTold(e) = dropped
    BY <1>1, <2>1, Zenon DEF OverflowReport, EventReport, Event, Events, AnyHandle, ShedTold
  <2>3. log' = Append(log, e) /\ dropped' = 0 /\ UNCHANGED <<shed, forgotten>>
    BY <1>6, <2>1 DEF ReportsShed
  <2>4. SumOf(log', ShedTold) = SumOf(log, ShedTold) + dropped
    BY <1>1, <2>2, <2>3, ShedOf
  <2> QED BY <1>1, <2>3, <2>4 DEF ShedAccounted
<1>7. CASE CleanupReset  BY <1>1, <1>7 DEF CleanupReset, appVars, ShedAccounted
<1> QED BY <1>2, <1>3, <1>4, <1>5, <1>6, <1>7 DEF QueueMoves

\* The accounts start at zero.
LEMMA InitAccounts ==
    ASSUME Init
    PROVE  QueueAccounts /\ BacklogInv /\ ShedAccounted
<1>1. queue = <<>> /\ queueBytes = 0 /\ log = <<>> /\ dropped = 0 /\ shed = 0 /\ forgotten = 0
  BY DEF Init
<1>2. <<>> \in Seq(Events)  OBVIOUS
<1>3. SumOf(log, ShedTold) = 0  BY <1>1, <1>2, ShedOf
<1> QED BY <1>1, <1>3, EmptyAccounts DEF ShedAccounted

\* The two accounts of the queue, the bytes it holds and the events shed, hold in
\* every state, with what each callback carries and each queued event names.
THEOREM AccountInvariant == Spec => []AccountInv
<1>1. Init => AccountInv  BY InitCarry, InitAccounts DEF AccountInv
<1>2. TypeOK /\ LockDiscipline /\ MapsInv /\ QuietInv /\ AccountInv /\ [Next]_vars => AccountInv'
  BY NextCarry, QueueStep, NextAccounts, NextShed DEF AccountInv
<1> QED BY <1>1, <1>2, TypeCorrect, LockDisciplined, MapsInvariant, QuietInvariant, PTL DEF Spec

\* The running byte count under g_mu is at every moment what the queued events
\* cost, whatever the callbacks carry and however their enqueues interleave with
\* the drain, and neither cap of enqueue_locked is ever passed.
THEOREM QueueAccountsExact == Spec => []QueueAccounts
  BY AccountInvariant, PTL DEF AccountInv

\* Every event enqueue_locked sheds is in the count the app was told, in the one
\* the drain still owes, or in the one dcx_cleanup forgot: a drain that races the
\* callbacks neither loses a shed event nor reports it twice.
THEOREM ShedsAccounted == Spec => []ShedAccounted
  BY AccountInvariant, PTL DEF AccountInv

\* ------------------------------------------------ the drain is a bounded FIFO

\* The shim starts where the stream does.
LEMMA InitStream ==
    ASSUME Init
    PROVE  Stream!Init
  BY DEF Init, Stream!Init

\* The running byte count decides as the cost of the queue would.
LEMMA FitsAlike ==
    ASSUME TypeOK, QueueAccounts, NEW e \in Events
    PROVE  Stream!Fits(e) <=> ~Overfull(e)
<1>1. Stream!Charged = SumOf(queue, Cost)
  BY DEF Stream!Charged, SumOf, SumFunction, Stream!SumFunction, SumFunctionOnSet, Stream!SumFunctionOnSet,
     FoldFunctionOnSet, Stream!FoldFunctionOnSet, MapThenFoldSet, Stream!MapThenFoldSet
<1>2. Stream!Charged = queueBytes  BY <1>1 DEF QueueAccounts
<1>3. queueBytes \in Int /\ Len(queue) \in Nat /\ Cost(e) \in Nat
  BY EventCounts, ShimAssumption DEF TypeOK, QueueOK, Cost, VarBytes, Events
<1> QED BY <1>2, <1>3, ShimAssumption DEF Stream!Fits, Overfull

\* event_deliverable_locked finds every handle of an event live exactly when the
\* stream does.
LEMMA WantedAlike ==
    ASSUME TypeOK, NEW e \in Events
    PROVE  Stream!Wanted(e) <=> Deliverable(e)
<1>1. ASSUME NEW h PROVE /\ h \in LiveHandles(peers) <=> Get(peers, h) # Null
                         /\ h \in LiveHandles(chans) <=> Get(chans, h) # Null
  BY GetFacts, ShimAssumption DEF TypeOK, TablesOK
<1>2. <<"peer", e.peer>> \in LiveNames <=> e.peer \in LiveHandles(peers)  BY DEF LiveNames
<1>3. <<"chan", e.chan>> \in LiveNames <=> e.chan \in LiveHandles(chans)  BY DEF LiveNames
<1>4. EventNames(e) \subseteq LiveNames <=>
        /\ e.peer # NoHandle => <<"peer", e.peer>> \in LiveNames
        /\ e.chan # NoHandle => <<"chan", e.chan>> \in LiveNames
  BY DEF EventNames
<1> QED BY <1>1, <1>2, <1>3, <1>4 DEF Stream!Wanted, Deliverable

\* An event offered is accepted or shed as the stream accepts or sheds it.
LEMMA OfferedStream ==
    ASSUME TypeOK, QueueAccounts, NEW e \in Events, Offers(e)
    PROVE  Stream!Next
<1>1. queue \in Seq(Events)  BY DEF TypeOK, QueueOK
<1>2. Stream!Fits(e) <=> ~Overfull(e)  BY FitsAlike
<1>3. CASE Overfull(e)
  <2>1. refused' = e /\ dropped' = dropped + 1 /\ UNCHANGED <<queue, log>>
    BY <1>3 DEF Offers, Enqueue, Shed
  <2> QED BY <1>2, <1>3, <2>1 DEF Stream!Shed, Stream!Next
<1>4. CASE ~Overfull(e)
  <2>1. queue' = Append(queue, e)  BY <1>4 DEF Offers, Enqueue
  <2>2. Len(queue) + 1 \in DOMAIN queue' /\ queue'[Len(queue) + 1] = e  BY <1>1, <2>1
  <2>3. e \in Stream!Range(queue')  BY <2>2 DEF Stream!Range
  <2> QED BY <1>2, <1>4, <2>1, <2>3 DEF Offers, Enqueue, Stream!Accept, Stream!Next
<1> QED BY <1>3, <1>4

\* Every step of the shim is one of the stream, or none.
LEMMA NextStream ==
    ASSUME TypeOK, QueueAccounts, QueueMoves
    PROVE  [Stream!Next]_(Stream!vars)
<1>1. CASE UNCHANGED <<queueVars, log>>  BY <1>1 DEF queueVars, Stream!vars
<1>2. queue # <<>> => (Stream!Wanted(Head(queue)) <=> Deliverable(Head(queue)))
  BY WantedAlike DEF TypeOK, QueueOK
<1>3. CASE DrainDiscard
  BY <1>2, <1>3 DEF DrainDiscard, PopFront, appVars, Stream!Discard, Stream!Next
<1>4. CASE DrainDeliver
  BY <1>2, <1>4 DEF DrainDeliver, PopFront, Stream!Deliver, Stream!Next
<1>5. CASE ReportsShed
  BY <1>5 DEF ReportsShed, OverflowReport, Stream!ReportLost, Stream!Next
<1>6. CASE CleanupReset  BY <1>6 DEF CleanupReset, appVars, Stream!Reset, Stream!Next
<1> QED BY <1>1, <1>3, <1>4, <1>5, <1>6, OfferedStream DEF QueueMoves

\* The drain of the shim implements EventStream: whatever the callbacks and the
\* script interleave, an event is accepted if the true cost of the queue leaves
\* room for that event and shed if not, accepted events leave the queue in the
\* order they were accepted, each delivered if every handle it names is live at
\* that moment and discarded if not, and the count of the shed ones comes once,
\* behind them.
THEOREM DrainIsFIFO == Spec => FIFO
<1>1. TypeOK /\ LockDiscipline /\ MapsInv /\ AccountInv /\ [Next]_vars => [Stream!Next]_(Stream!vars)
  BY QueueStep, NextStream DEF AccountInv
<1> QED
  BY <1>1, InitStream, TypeCorrect, LockDisciplined, MapsInvariant, AccountInvariant, PTL DEF Spec, FIFO, Stream!Spec

\* -------------------------------------------- the shadows are the newest told

\* An appended event is the newest of its kind and peer, and of no other.
LEMMA NewestAppend ==
    ASSUME NEW s \in Seq(Events), NEW e \in Events, NEW k, NEW h, NEW v
    PROVE  /\ StateOf(e, k, h) => Newest(Append(s, e), k, h, e.n)
           /\ ~StateOf(e, k, h) /\ Newest(s, k, h, v) => Newest(Append(s, e), k, h, v)
<1>1. PICK n \in Nat : n = Len(s)  OBVIOUS
<1>2. PICK r : r = Append(s, e)  OBVIOUS
<1>3. /\ DOMAIN s = 1 .. n /\ DOMAIN r = 1 .. n + 1 /\ r[n + 1] = e
      /\ \A i \in 1 .. n : r[i] = s[i]
  BY <1>1, <1>2
<1>4. ASSUME StateOf(e, k, h) PROVE Newest(r, k, h, e.n)
  <2>1. n + 1 \in DOMAIN r /\ StateOf(r[n + 1], k, h) /\ r[n + 1].n = e.n  BY <1>3, <1>4
  <2>2. \A j \in DOMAIN r : j <= n + 1  BY <1>3
  <2> QED BY <2>1, <2>2 DEF Newest
<1>5. ASSUME ~StateOf(e, k, h), Newest(s, k, h, v) PROVE Newest(r, k, h, v)
  <2>1. PICK i \in 1 .. n : /\ StateOf(s[i], k, h) /\ s[i].n = v
                            /\ \A j \in 1 .. n : StateOf(s[j], k, h) => j <= i
    BY <1>3, <1>5 DEF Newest
  <2>2. i \in DOMAIN r /\ r[i] = s[i]  BY <1>3
  <2>3. ASSUME NEW j \in DOMAIN r, StateOf(r[j], k, h) PROVE j <= i
    <3>1. j \in 1 .. n /\ r[j] = s[j]  BY <1>3, <1>5, <2>3
    <3> QED BY <2>1, <2>3, <3>1
  <2> QED BY <2>1, <2>2, <2>3 DEF Newest
<1> QED BY <1>2, <1>4, <1>5

\* An event of another kind or peer may be discarded.
LEMMA NewestPop ==
    ASSUME NEW l \in Seq(Events), NEW q \in Seq(Events), q # <<>>, NEW k, NEW h, NEW v,
           ~StateOf(Head(q), k, h), Newest(l \o q, k, h, v)
    PROVE  Newest(l \o Tail(q), k, h, v)
<1>1. PICK m \in Nat : m = Len(l)  OBVIOUS
<1>2. Len(q) - 1 \in Nat /\ (Len(q) - 1) + 1 = Len(q)  BY SMTT(30)
<1>3. PICK n \in Nat : n + 1 = Len(q)  BY <1>2, Zenon
<1>4. PICK s, r, t : s = l \o q /\ t = Tail(q) /\ r = l \o t  OBVIOUS
<1>5. t \in Seq(Events) /\ Len(t) = n /\ \A i \in 1 .. n : t[i] = q[i + 1]
  BY <1>3, <1>4
<1>6. DOMAIN s = 1 .. m + n + 1 /\ DOMAIN r = 1 .. m + n
  <2>1. s \in Seq(Events) /\ Len(s) = m + Len(q)  BY <1>1, <1>4
  <2>2. t \in Seq(Events) /\ Len(t) = n  BY <1>5
  <2>3. r \in Seq(Events) /\ Len(r) = m + Len(t)  BY <1>1, <1>4, <2>2
  <2>4. Len(s) = m + n + 1 /\ Len(r) = m + n  BY <1>3, <2>1, <2>2, <2>3, SMTT(30)
  <2>5. DOMAIN s = 1 .. Len(s) /\ DOMAIN r = 1 .. Len(r)  BY <2>1, <2>3
  <2> QED BY <2>4, <2>5
<1>7. \A i \in 1 .. m : s[i] = l[i] /\ r[i] = l[i]  BY <1>1, <1>3, <1>4, <1>5
<1>8. ASSUME NEW i \in 1 .. n PROVE r[m + i] = s[m + i + 1]
  <2>1. r[m + i] = t[i]  BY <1>1, <1>4, <1>5
  <2>2. s[m + i + 1] = q[i + 1]  BY <1>1, <1>3, <1>4
  <2> QED BY <1>5, <2>1, <2>2
<1>9. s[m + 1] = Head(q)  BY <1>1, <1>3, <1>4
<1>10. PICK i \in 1 .. m + n + 1 : /\ StateOf(s[i], k, h) /\ s[i].n = v
                                   /\ \A j \in 1 .. m + n + 1 : StateOf(s[j], k, h) => j <= i
  BY <1>4, <1>6 DEF Newest
<1>11. i # m + 1  BY <1>9, <1>10
<1>12. PICK p : p = IF i <= m THEN i ELSE i - 1  OBVIOUS
<1>13. p \in DOMAIN r /\ r[p] = s[i]
  <2>1. CASE i <= m  BY <1>6, <1>7, <1>12, <2>1
  <2>2. CASE i > m
    <3>1. i - 1 - m \in 1 .. n /\ p = m + (i - 1 - m) /\ i = m + (i - 1 - m) + 1
      BY <1>11, <1>12, <2>2
    <3>2. r[m + (i - 1 - m)] = s[m + (i - 1 - m) + 1]  BY <1>8, <3>1
    <3> QED BY <1>6, <3>1, <3>2
  <2> QED BY <2>1, <2>2
<1>14. ASSUME NEW j \in DOMAIN r, StateOf(r[j], k, h) PROVE j <= p
  <2>1. CASE j <= m
    <3>1. j \in 1 .. m + n + 1 /\ s[j] = r[j]  BY <1>6, <1>7, <2>1
    <3>2. j <= i  BY <1>10, <1>14, <3>1
    <3> QED BY <1>6, <1>12, <2>1, <3>2
  <2>2. CASE j > m
    <3>1. j - m \in 1 .. n /\ j = m + (j - m) /\ j + 1 = m + (j - m) + 1 /\ j + 1 \in 1 .. m + n + 1
      BY <1>6, <2>2
    <3>2. r[m + (j - m)] = s[m + (j - m) + 1]  BY <1>8, <3>1
    <3>3. r[j] = s[j + 1]  BY <3>1, <3>2
    <3>4. j + 1 <= i  BY <1>10, <1>14, <3>1, <3>3
    <3> QED BY <1>12, <2>2, <3>1, <3>4
  <2> QED BY <1>6, <2>1, <2>2
<1> QED BY <1>4, <1>10, <1>13, <1>14 DEF Newest

\* Outside the cleanup's sweep a mapped handle is live.
LEMMA OnMapLive ==
    ASSUME TypeOK, MapsInv, th[Script].pc # "cl_sweep", NEW h \in Handles, OnMap(h)
    PROVE  Get(peers, h) # Null
<1>1. h # NoHandle  BY DEF Handles, NoHandle
<1> QED BY <1>1 DEF OnMap, MapsInv, MapsPointed, At, Pointed

\* A live handle is mapped.
LEMMA LiveOnMap ==
    ASSUME TypeOK, MapsInv, NEW h, Get(peers, h) # Null
    PROVE  OnMap(h)
<1>1. h \in Handles /\ Get(peers, h).rtc \in RtcIds  BY PeerEntry
<1>2. rtcPeer[Get(peers, h).rtc] = h  BY <1>1 DEF MapsInv, MapsNamed, Named
<1> QED BY <1>1, <1>2 DEF OnMap

\* Only the peer's own free, or a cleanup, takes its handle off the map.
LEMMA OnMapStays ==
    ASSUME TypeOK, MapsInv, [Next]_vars, ~CleanupReset, NEW h \in Handles, OnMap(h),
           PeerFreeDone => h # th[Script].peer
    PROVE  OnMap(h)'
<1>1. PICK p \in RtcIds : rtcPeer[p] = h  BY DEF OnMap
<1>2. h # NoHandle  BY DEF Handles, NoHandle
<1>3. ASSUME NEW q, NEW g, rtcPeer' = [rtcPeer EXCEPT ![q] = g], p # q PROVE OnMap(h)'
  <2>1. rtcPeer'[p] = h  BY <1>1, <1>3 DEF TypeOK, TablesOK
  <2> QED BY <2>1 DEF OnMap
<1>4. CASE UNCHANGED rtcPeer  BY <1>1, <1>4 DEF OnMap
<1>5. CASE PeerAlloc
  <2>1. UNCHANGED rtcPeer \/ \E g : rtcPeer' = [rtcPeer EXCEPT ![th[Script].obj] = g]
    BY <1>5 DEF PeerAlloc
  <2>2. rtcPeer[th[Script].obj] = NoHandle  BY <1>5 DEF PeerAlloc, MapsInv, PeerInHand
  <2>3. p # th[Script].obj  BY <1>1, <1>2, <2>2
  <2> QED BY <1>3, <1>4, <2>1, <2>3
<1>6. CASE PeerFreeDone
  <2>1. /\ rtcPeer' = [rtcPeer EXCEPT ![th[Script].obj] = NoHandle]
        /\ th[Script].pc = "pf_sweep"
    BY <1>6 DEF PeerFreeDone, At
  <2>2. Pointed(rtcPeer, peers)  BY <2>1 DEF MapsInv, MapsPointed, At
  <2>3. PICK s : s = th[Script].peer  OBVIOUS
  <2>4. Get(peers, s) # Null /\ Get(peers, s).rtc = th[Script].obj
    BY <2>1, <2>3 DEF MapsInv, PeerInHand, At
  <2>5. s \in Handles  BY <2>4, PeerEntry
  <2>6. rtcPeer[th[Script].obj] = s  BY <2>4, <2>5 DEF MapsInv, MapsNamed, Named
  <2>7. p # th[Script].obj  BY <1>1, <1>6, <2>3, <2>6
  <2> QED BY <1>3, <2>1, <2>7
<1> QED BY <1>4, <1>5, <1>6, MapSteps

\* Delivery only moves an event from the queue to the log.
LEMMA DeliveredTold ==
    ASSUME TypeOK, DrainDeliver
    PROVE  Told' = Told
<1>1. log \in Seq(Events) /\ queue \in Seq(Events)  BY DEF TypeOK, AppOK, QueueOK
<1>2. queue # <<>> /\ queue' = Tail(queue) /\ log' = Append(log, Head(queue))
  BY DEF DrainDeliver, PopFront
<1>3. Append(log, Head(queue)) \o Tail(queue) = log \o queue  BY <1>1, <1>2
<1> QED BY <1>2, <1>3 DEF Told

\* An event that is not shed is the newest there is.
LEMMA OfferedTold ==
    ASSUME TypeOK, NEW e \in Events, Offers(e), shed' = 0
    PROVE  shed = 0 /\ Told' = Append(Told, e) /\ Told \in Seq(Events)
<1>1. log \in Seq(Events) /\ queue \in Seq(Events) /\ shed \in Nat
  BY DEF TypeOK, AppOK, QueueOK
<1>2. ~Overfull(e)  BY <1>1 DEF Offers, Enqueue, Shed
<1>3. queue' = Append(queue, e) /\ log' = log /\ shed' = shed  BY <1>2 DEF Offers, Enqueue
<1>4. log \o Append(queue, e) = Append(log \o queue, e) /\ log \o queue \in Seq(Events)
  BY <1>1
<1> QED BY <1>3, <1>4 DEF Told

\* A discarded event is of a peer or a channel that is gone: never a report of
\* the state of a live peer.
LEMMA DiscardedTold ==
    ASSUME TypeOK, MapsInv, BacklogInv, DrainDiscard,
           NEW k \in ShadowKinds, NEW h \in Handles, OnMap(h)
    PROVE  StoryKeeps(k, h)
<1>1. PICK l, q : l = log /\ q = queue  OBVIOUS
<1>2. l \in Seq(Events) /\ q \in Seq(Events) /\ q # <<>> /\ log' = l /\ queue' = Tail(q)
  BY <1>1 DEF TypeOK, AppOK, QueueOK, DrainDiscard, PopFront, appVars
<1>3. 1 \in DOMAIN q /\ Head(q) = q[1]  BY <1>2
<1>4. th[Script].pc # "cl_sweep" /\ ~Deliverable(Head(q))  BY <1>1 DEF DrainDiscard, At
<1>5. Get(peers, h) # Null  BY <1>4, OnMapLive
<1>6. BacklogOK(q[1])  BY <1>1, <1>3 DEF BacklogInv
<1>7. ~StateOf(Head(q), k, h)
  BY <1>3, <1>4, <1>5, <1>6 DEF BacklogOK, Deliverable, StateOf
<1>8. ASSUME NEW v, Newest(l \o q, k, h, v) PROVE Newest(l \o Tail(q), k, h, v)
  BY <1>2, <1>7, <1>8, NewestPop
<1>9. Told = l \o q /\ Told' = l \o Tail(q)  BY <1>1, <1>2 DEF Told
<1> QED BY <1>8, <1>9 DEF StoryKeeps, Newest

\* A report refreshes the shadow of its peer and of no other.
LEMMA OfferKeepsShadows ==
    ASSUME TypeOK, MapsInv, ShadowInv, [Next]_vars, NEW e \in Events, Offers(e)
    PROVE  ShadowInv'
<1> SUFFICES ASSUME NEW k \in ShadowKinds, NEW h \in DOMAIN shadow'[k] PROVE Shadowed(k, h)'
  BY DEF ShadowInv
<1>1. PICK p : p = e.peer  OBVIOUS
<1>2. UNCHANGED rtcPeer  BY DEF Offers
<1>3. ASSUME OnMap(h), shed' = 0 => Newest(Told', k, h, shadow'[k][h]) PROVE Shadowed(k, h)'
  BY <1>2, <1>3 DEF OnMap, Shadowed, Newest
<1>4. CASE StateOf(e, k, h)
  <2>1. Get(peers, h) # Null /\ shadow' = Refreshed(k, h, e.n)
    BY <1>4 DEF Offers, StateOf
  <2>2. OnMap(h)  BY <2>1, LiveOnMap
  <2>3. shadow'[k][h] = e.n  BY <2>1 DEF Refreshed, Assign, TypeOK, ShadowOK
  <2>4. shed' = 0 => Newest(Told', k, h, e.n)  BY <1>4, OfferedTold, NewestAppend
  <2> QED BY <1>3, <2>2, <2>3, <2>4
<1>5. CASE ~StateOf(e, k, h)
  <2>1. h \in DOMAIN shadow[k] /\ shadow'[k][h] = shadow[k][h]
    <3>1. CASE e.type \in ShadowKinds
      <4>1. shadow' = Refreshed(e.type, e.peer, e.n)  BY <3>1 DEF Offers
      <4>2. CASE e.type = k
        <5>1. h # e.peer  BY <1>5, <4>2 DEF StateOf
        <5>2. shadow'[k] = Assign(shadow[k], e.peer, e.n)
          BY <4>1, <4>2 DEF Refreshed, TypeOK, ShadowOK
        <5> QED BY <5>1, <5>2 DEF Assign
      <4>3. CASE e.type # k  BY <4>1, <4>3 DEF Refreshed, TypeOK, ShadowOK
      <4> QED BY <4>2, <4>3
    <3>2. CASE e.type \notin ShadowKinds  BY <3>2 DEF Offers
    <3> QED BY <3>1, <3>2
  <2>2. Shadowed(k, h)  BY <2>1 DEF ShadowInv
  <2>3. shed' = 0 => Newest(Told', k, h, shadow[k][h])
    BY <1>5, <2>2, OfferedTold, NewestAppend DEF Shadowed
  <2> QED BY <1>3, <2>1, <2>2, <2>3 DEF Shadowed
<1> QED BY <1>4, <1>5

\* ShadowInv is inductive with MapsInv and the queue's account.
LEMMA NextShadows ==
    ASSUME TypeOK, LockDiscipline, MapsInv, BacklogInv, ShedAccounted, QueueMoves, ShadowInv, [Next]_vars
    PROVE  ShadowInv'
<1>0. PICK told : told = SumOf(log, ShedTold)  OBVIOUS
<1>10. dropped \in Nat /\ shed \in Nat /\ forgotten \in Nat /\ told \in Nat
  <2>1. log \in Seq(Events) /\ dropped \in Nat /\ shed \in Nat /\ forgotten \in Nat
    BY DEF TypeOK, AppOK, QueueOK
  <2> QED BY <1>0, <2>1, ShedOf
<1>1. CASE \E e \in Events : Offers(e)  BY <1>1, OfferKeepsShadows
<1>2. CASE CleanupReset
  <2>1. shadow' = NoShadow  BY <1>2 DEF CleanupReset
  <2>2. \A k \in ShadowKinds : DOMAIN shadow'[k] = {}  BY <2>1 DEF NoShadow
  <2> QED BY <2>2 DEF ShadowInv
<1>3. ASSUME ~CleanupReset,
             \A k \in ShadowKinds : \A h \in DOMAIN shadow'[k] :
                /\ h \in DOMAIN shadow[k] /\ shadow'[k][h] = shadow[k][h]
                /\ PeerFreeDone => h # th[Script].peer,
             \A k \in ShadowKinds : \A h \in Handles : OnMap(h) /\ shed' = 0 =>
                shed = 0 /\ StoryKeeps(k, h)
      PROVE  ShadowInv'
  <2> SUFFICES ASSUME NEW k \in ShadowKinds, NEW h \in DOMAIN shadow'[k] PROVE Shadowed(k, h)'
    BY DEF ShadowInv
  <2>1. h \in DOMAIN shadow[k] /\ shadow'[k][h] = shadow[k][h] /\ (PeerFreeDone => h # th[Script].peer)
    BY <1>3
  <2>2. h \in Handles  BY <2>1 DEF TypeOK, ShadowOK
  <2>3. OnMap(h) /\ (shed = 0 => Newest(Told, k, h, shadow[k][h]))
    BY <2>1 DEF ShadowInv, Shadowed
  <2>4. OnMap(h)'  BY <1>3, <2>1, <2>2, <2>3, OnMapStays
  <2>5. shed' = 0 => shed = 0 /\ StoryKeeps(k, h)  BY <1>3, <2>2, <2>3
  <2>6. shed' = 0 => Newest(Told, k, h, shadow[k][h])'
    BY <2>1, <2>3, <2>5 DEF StoryKeeps, Newest
  <2> QED BY <2>4, <2>6 DEF Shadowed
<1>4. ASSUME Told' = Told, NEW k, NEW h PROVE StoryKeeps(k, h)
  BY <1>4 DEF StoryKeeps, Newest
<1>5. CASE UNCHANGED <<queueVars, log>> /\ ~CleanupReset /\ (UNCHANGED shadow \/ PeerFreeDone)
  <2>1. Told' = Told /\ shed' = shed  BY <1>5 DEF Told, queueVars
  <2>2. CASE PeerFreeDone
    <3>1. \A k \in ShadowKinds : shadow'[k] = Erase(shadow[k], th[Script].peer)
      BY <2>2 DEF PeerFreeDone
    <3> QED BY <1>3, <1>4, <1>5, <2>1, <3>1 DEF Erase
  <2>3. CASE ~PeerFreeDone  BY <1>3, <1>4, <1>5, <2>1, <2>3
  <2> QED BY <2>2, <2>3
<1>6. ASSUME At(Script, "drain"), UNCHANGED shadow PROVE
         /\ ~CleanupReset
         /\ \A k \in ShadowKinds : \A h \in DOMAIN shadow'[k] :
               /\ h \in DOMAIN shadow[k] /\ shadow'[k][h] = shadow[k][h]
               /\ PeerFreeDone => h # th[Script].peer
  BY <1>6 DEF At, CleanupReset, PeerFreeDone
<1>7. CASE DrainDiscard
  <2>1. At(Script, "drain") /\ UNCHANGED shadow /\ shed' = shed
    BY <1>7 DEF DrainDiscard, shimVars
  <2> QED BY <1>3, <1>6, <1>7, <2>1, DiscardedTold
<1>8. CASE DrainDeliver
  <2>1. At(Script, "drain") /\ UNCHANGED shadow /\ shed' = shed
    BY <1>8 DEF DrainDeliver, shimVars
  <2> QED BY <1>3, <1>4, <1>6, <1>8, <2>1, DeliveredTold
<1>9. CASE ReportsShed
  <2>1. At(Script, "drain") /\ UNCHANGED shadow /\ shed' = shed /\ dropped > 0
    BY <1>9 DEF ReportsShed, DrainEnd
  <2>2. shed' # 0  BY <1>0, <1>10, <2>1 DEF ShedAccounted
  <2> QED BY <1>3, <1>6, <2>1, <2>2
<1> QED BY <1>1, <1>2, <1>5, <1>7, <1>8, <1>9 DEF QueueMoves

\* ShadowInv is enough for ShadowTruth.
LEMMA ShadowsHold ==
    ASSUME TypeOK, LockDiscipline, MapsInv, ShadowInv
    PROVE  ShadowTruth
<1> SUFFICES ASSUME mu = Nobody, NEW k \in ShadowKinds, NEW h \in DOMAIN shadow[k]
             PROVE  Get(peers, h) # Null /\ (shed = 0 => LastTold(k, h, shadow[k][h]))
  BY DEF ShadowTruth
<1>1. h \in Handles  BY DEF TypeOK, ShadowOK
<1>2. OnMap(h) /\ (shed = 0 => Newest(Told, k, h, shadow[k][h]))
  BY DEF ShadowInv, Shadowed
<1>3. th[Script].pc # "cl_sweep"  BY ShimAssumption DEF LockDiscipline, LoopLabels
<1> QED BY <1>1, <1>2, <1>3, OnMapLive DEF Newest, LastTold

\* A shadow belongs to a mapped peer and holds the newest state the story tells
\* of it, in every state and across every wrap of a generation.
THEOREM ShadowInvariant == Spec => []ShadowInv
<1>1. Init => ShadowInv  BY DEF Init, NoShadow, ShadowInv
<1>2. TypeOK /\ LockDiscipline /\ MapsInv /\ AccountInv /\ ShadowInv /\ [Next]_vars => ShadowInv'
  BY QueueStep, NextShadows DEF AccountInv
<1> QED BY <1>1, <1>2, TypeCorrect, LockDisciplined, MapsInvariant, AccountInvariant, PTL DEF Spec

\* No state getter answers for a peer already freed, and while nothing has been
\* shed each answers with the newest state the event stream has told the app or
\* will: a callback refreshes g_peerLastState and queues its event in the one
\* locked section, and the drain discards only events of handles that are gone,
\* even when a handle has come round again.
THEOREM ShadowsTrue == Spec => []ShadowTruth
<1>1. TypeOK /\ LockDiscipline /\ MapsInv /\ ShadowInv => ShadowTruth  BY ShadowsHold
<1> QED BY <1>1, TypeCorrect, LockDisciplined, MapsInvariant, ShadowInvariant, PTL

================================================================================
