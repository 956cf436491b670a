-------------------------------- MODULE EnetPump --------------------------------
(***************************************************************************)
(* An app on top of EnetShim with the suite's own pump                     *)
(* (enetxt/examples/enet-helpers.livecodescript): a timer message that     *)
(* polls each registered host, dispatches the events one by one to the     *)
(* app's handlers, and sends itself again.  The app may make any call      *)
(* between messages and inside any handler.                                *)
(*                                                                         *)
(* A definition marked "Planted bug" is not part of the model: it is a     *)
(* variant of the next definition that a property must refute.             *)
(***************************************************************************)
EXTENDS EnetShim

CONSTANT
    MaxStarts    \* bound: enStartPolling calls that arm the timer

VARIABLES
    pollHosts,   \* sPollHosts
    polling,     \* sEnPolling
    timers,      \* enetPollOnce messages sent and not yet delivered
    at,          \* the script: idle, in a pass, or in a handler a pass called
    pass,        \* the hosts the running pass has still to poll
    starts       \* times the timer was armed (bound)

pumpVars == <<pollHosts, polling, timers, at, pass, starts>>
vars == <<shimVars, pumpVars>>

PumpInit ==
    /\ Init
    /\ pollHosts = <<>>
    /\ polling = FALSE
    /\ timers = 0
    /\ at = "idle"
    /\ pass = <<>>
    /\ starts = 0

PollSet == {pollHosts[k] : k \in DOMAIN pollHosts}
Registered(h) == h \in PollSet

\* The app's code runs between messages, or in a handler.
AppRuns == at \in {"idle", "handler"} /\ ~Polling

AppCall == AppRuns /\ Calls /\ UNCHANGED pumpVars

\* enStartPolling: the timer is armed only if the pump was not polling.
StartPolling(h) ==
    /\ AppRuns
    /\ ~Registered(h) \/ ~polling
    /\ pollHosts' = IF Registered(h) THEN pollHosts ELSE Append(pollHosts, h)
    /\ polling' = TRUE
    /\ IF polling THEN UNCHANGED <<timers, starts>>
       ELSE starts < MaxStarts /\ timers' = timers + 1 /\ starts' = starts + 1
    /\ UNCHANGED <<shimVars, at, pass>>

\* enStopPolling: of one host, or of all; a host may be destroyed by then.
StopPolling(hs) ==
    /\ AppRuns
    /\ \E h \in hs : Registered(h)
    /\ pollHosts' = SelectSeq(pollHosts, LAMBDA h : h \notin hs)
    /\ polling' = (polling /\ pollHosts' # <<>>)
    /\ UNCHANGED <<shimVars, timers, at, pass, starts>>

\* enetPollOnce is delivered.
Tick ==
    /\ at = "idle"
    /\ timers > 0
    /\ timers' = timers - 1
    /\ IF polling THEN at' = "pass" /\ pass' = pollHosts
                  ELSE UNCHANGED <<at, pass>>
    /\ UNCHANGED <<shimVars, pollHosts, polling, starts>>

\* The pass goes on when a handler returns.
PassRuns == at # "idle" /\ ~Polling

PollNext ==
    /\ PassRuns
    /\ pass # <<>>
    /\ PollBegin(Head(pass))
    /\ pass' = Tail(pass)
    /\ at' = "pass"
    /\ UNCHANGED <<pollHosts, polling, timers, starts>>

\* The event's own message and the catch-all, to the same app.
Dispatch ==
    /\ PassRuns
    /\ list # <<>>
    /\ list' = Tail(list)
    /\ Tell(Head(list).peer, Head(list).type)
    /\ heard' = [heard EXCEPT ![Head(list).host] = Head(list).no]
    /\ at' = "handler"
    /\ UNCHANGED <<tables, poll, drainCap, bounds, serviced, gone,
                   pollHosts, polling, timers, pass, starts>>

\* Planted bug: the pass re-arms only if it called no handler.
RearmedIfQuiet == IF polling /\ at = "pass" THEN timers + 1 ELSE timers
Rearmed == IF polling THEN timers + 1 ELSE timers

\* A pass that a handler has stopped is not sent again.
EndPass ==
    /\ PassRuns
    /\ list = <<>> /\ pass = <<>>
    /\ timers' = Rearmed
    /\ at' = "idle"
    /\ UNCHANGED <<shimVars, pollHosts, polling, pass, starts>>

PumpStep ==
    \/ Tick
    \/ PollNext
    \/ Dispatch
    \/ EndPass
    \/ (PollGrow \/ PollReturn) /\ UNCHANGED pumpVars

EnetEvent(i, s) ==
    /\ \/ ServiceConnect(i, s)
       \/ \E n \in Sizes : ServiceReceive(i, s, n)
       \/ PeerLeaves(i, s)
    /\ UNCHANGED pumpVars

EnetEnds(i, s) == ServiceDisconnect(i, s) /\ UNCHANGED pumpVars

Next ==
    \/ AppCall
    \/ \E h \in LiveHandles(hosts) : StartPolling(h)
    \/ \E h \in PollSet : StopPolling({h})
    \/ StopPolling(PollSet)
    \/ PumpStep
    \/ \E i \in HostIds, s \in PeerSlots : EnetEvent(i, s) \/ EnetEnds(i, s)

Spec == PumpInit /\ [][Next]_vars

\* The engine delivers its messages and runs every handler to its end.  ENet
\* ends a disconnect, acknowledged or not, if it is serviced often enough.
FairSpec ==
    /\ Spec
    /\ WF_vars(PumpStep)
    /\ \A i \in HostIds, s \in PeerSlots :
         SF_vars(enet[i][s].st \in {"disconnecting", "leaving"} /\ EnetEnds(i, s))

\* -------------------------------------------------------------- properties

\* The tables hold what they should, a stash one event at most, and the
\* reference count of enx_init and enx_deinit never goes below zero.
TypeOK ==
    /\ inits \in 0 .. MaxInits
    /\ \A h \in LiveHandles(hosts) :
         /\ Get(hosts, h).id \in up
         /\ Len(Get(hosts, h).stash) <= 1
         /\ \A k \in DOMAIN Get(hosts, h).stash : Get(hosts, h).stash[k] \in Events
    /\ \A p \in LiveHandles(peers) : Get(peers, p) \in PeerObjects
    /\ enet \in [HostIds -> [PeerSlots ->
                   [st : {"disconnected", "connecting", "connected", "disconnecting", "leaving"},
                    data : Handles \cup {NoHandle}]]]
    /\ poll.pc \in {"off", "pump", "grow", "full"}
    /\ poll.tries \in 0 .. MaxTries
    /\ at \in {"idle", "pass", "handler"}
    /\ polling \in BOOLEAN

\* The two ends of every backlink agree, whatever calls and arrivals came
\* before: a live peer handle names a slot of a live host, that slot names it
\* back and ENet still owes it an event (no handle can leak), and a slot names
\* no handle but a live one of its own.  Without enx_init there is nothing.
Backlinks ==
    /\ \A p \in LiveHandles(peers) :
         LET o == Get(peers, p) IN
         /\ IsLive(hosts, o.host)
         /\ Get(hosts, o.host).id = o.id
         /\ enet[o.id][o.slot].data = p
         /\ enet[o.id][o.slot].st # "disconnected"
    /\ \A i \in HostIds, s \in PeerSlots :
         enet[i][s].data # NoHandle =>
            LET o == Get(peers, enet[i][s].data) IN
            /\ o # Null
            /\ o.id = i /\ o.slot = s
    /\ \A i \in up : \E h \in LiveHandles(hosts) : Get(hosts, h).id = i
    /\ inits = 0 => LiveHandles(hosts) = {} /\ LiveHandles(peers) = {}

\* The events an enPoll gives are all of one host: are they h's?
Of(events, h) == IF events # <<>> /\ events[1].host = h THEN events ELSE <<>>

\* The events of a host that are not heard yet, in the order they will be.
Ahead(h) == Of(list, h) \o Of(poll.out, h) \o Get(hosts, h).stash

\* What enPoll returned, what it is still collecting and what is stashed are
\* together what ENet has given up since the last event heard, in its order,
\* each event once: nothing is lost, doubled, reordered or mixed with another
\* host's at any buffer size, and a buffer grown once is large enough.
Lossless ==
    /\ \A j, k \in DOMAIN list : list[j].host = list[k].host
    /\ \A k \in DOMAIN poll.out : poll.out[k].host = poll.host
    /\ \A h \in LiveHandles(hosts) :
         /\ \A k \in DOMAIN Ahead(h) : Ahead(h)[k].host = h /\ Ahead(h)[k].no = heard[h] + k
         /\ heard[h] + Len(Ahead(h)) = serviced[h]
    /\ poll.pc = "grow" => poll.tries = 0

\* Heard: the app has been told that the peer is gone.
Heard(p) == \E k \in DOMAIN story[p] : story[p][k] = "DISCONNECT"

\* Its disconnect is on the way: returned, being collected, or stashed.
GoodbyeComing(p) ==
    \/ \E k \in DOMAIN list : list[k].peer = p /\ list[k].type = "DISCONNECT"
    \/ \E h \in LiveHandles(hosts) : \E k \in DOMAIN Ahead(h) :
          Ahead(h)[k].peer = p /\ Ahead(h)[k].type = "DISCONNECT"

\* The app hears one sound story of each peer: the handle first comes from
\* enConnect or from the event that announces it, it connects at most once and
\* before anything is received, and the disconnect ends both the story and
\* the handle.  A handle it knows dies only if it lets go of it itself, or the
\* disconnect is on the way.
OneStory ==
    \A p \in Known :
       LET told == story[p] IN
       /\ told[1] \in {"BORN", "CONNECT"}
       /\ IsLive(peers, p) \/ p \in gone \/ Heard(p) \/ GoodbyeComing(p)
       /\ \A k \in DOMAIN told :
            /\ told[k] = "BORN" => k = 1
            /\ told[k] = "CONNECT" => k = 1 \/ (k = 2 /\ told[1] = "BORN")
            /\ told[k] \in {"RECEIVE", "ERROR"} => \E j \in 1 .. k - 1 : told[j] = "CONNECT"
            /\ told[k] = "DISCONNECT" => k = Len(told) /\ ~IsLive(peers, p)

\* A goodbye ENet owes the app, of a peer it knows.
Owed(p) ==
    /\ p \in Known
    /\ IsLive(peers, p)
    /\ LET o == Get(peers, p) IN enet[o.id][o.slot].st \in {"disconnecting", "leaving"}

\* The pump is armed, and polls every host there is.
Pumping ==
    /\ polling
    /\ \A h \in LiveHandles(hosts) : Registered(h)

\* After enDisconnect, or when the far side leaves, the app is told, unless it
\* lets go of the peer or the host itself or stops polling.
GoodbyeHeard ==
    \A p \in Handles : (Owed(p) /\ []Pumping) ~> (Heard(p) \/ p \in gone)

\* "only one timer ever runs" (enStartPolling): enetPollOnce is pending once at
\* most.  Stopping between two ticks leaves the tick in flight, and the next
\* start arms a second chain.
OneTimer == timers <= 1
================================================================================
