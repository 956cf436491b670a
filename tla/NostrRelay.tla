------------------------------- MODULE NostrRelay -------------------------------
(***************************************************************************)
(* The relay client (nostrxt, nostr-relay.livecodescript) on the engine's  *)
(* one thread.  Its handlers call the app in the middle of their work, and *)
(* the app may call back, close this relay or all of them, open another,   *)
(* or wait with messages, during which the engine runs further handlers.   *)
(* So the state has a call stack, top first: the app's handlers, and those *)
(* of the client that an app's handler interrupts, each with what it has   *)
(* left to do.  Everything a handler does between two callbacks is one     *)
(* step.                                                                   *)
(*                                                                         *)
(* Both transports are here: the engine's sockets, with their one          *)
(* persistent read, and the browser's WebSocket, whose events the page     *)
(* queues and a timer drains.  sNxrRelays and sNxrSockToRelay get and lose *)
(* their entries together and are one table.  The app registers its        *)
(* callback in the handler that connects.                                  *)
(*                                                                         *)
(* What a relay sends is a sequence of items: "accept" or "refuse", the    *)
(* answer to the upgrade; "text", a message with its fragments and what it *)
(* tells the app; "close"; and "bad", which violates the framing.  Pings   *)
(* and pongs change nothing here, and neither do the verbs that send.      *)
(***************************************************************************)
EXTENDS Naturals, Sequences, FiniteSets, SequencesExt

CONSTANTS
    MaxRelays,  \* bound: relays the app opens
    MaxItems,   \* bound: items each relay sends after its answer
    MaxChunk,   \* bound: items that arrive at once
    MaxDepth,   \* bound: frames on the stack when the engine or app adds one
    PollBatch   \* kNxrWebPollBatch

ASSUME RelayAssumption ==
    /\ MaxRelays \in Nat \ {0} /\ MaxItems \in Nat /\ MaxChunk \in Nat \ {0}
    /\ MaxDepth \in Nat \ {0} /\ PollBatch \in Nat \ {0}

VARIABLES
    browser,   \* the platform is "HTML5"
    relays,    \* sNxrRelays: the state and the receive buffer of each handle
    next,      \* sNxrNextHandle
    reads,     \* the reads the engine holds for each socket
    deadline,  \* handles whose nxrDeadline is pending
    page,      \* the events the page has queued for each WebSocket
    polling,   \* sNxrWebPolling
    polls,     \* nxrWebPoll messages pending
    stack,     \* the handlers in progress, top first
    told,      \* the callbacks each handle's app handler was called with
    goodbyes,  \* close frames written on each socket
    sent       \* what each relay has sent (bound)

link == <<reads, deadline, page, polling, polls>>
vars == <<browser, relays, next, reads, deadline, page, polling, polls, stack,
          told, goodbyes, sent>>

Handles == 1 .. MaxRelays
Gone == [state |-> "gone", buffer |-> <<>>]
Live(h) == relays[h].state # "gone"

Frame(k, h, list, n, live) == [k |-> k, h |-> h, list |-> list, n |-> n, live |-> live]
InApp(h) == Frame("app", h, <<>>, 0, FALSE)

Init ==
    /\ browser \in BOOLEAN
    /\ relays = [h \in Handles |-> Gone]
    /\ next = 0
    /\ reads = [h \in Handles |-> 0]
    /\ deadline = {}
    /\ page = [h \in Handles |-> <<>>]
    /\ polling = FALSE
    /\ polls = 0
    /\ stack = <<>>
    /\ told = [h \in Handles |-> <<>>]
    /\ goodbyes = [h \in Handles |-> 0]
    /\ sent = [h \in Handles |-> 0]

Running(k) == stack # <<>> /\ stack[1].k = k

\* The engine runs a message, and the app acts, when no handler is in progress
\* or the app's own handler is (it acts, or waits with messages).
AppsTurn == stack = <<>> \/ Running("app")
Room == Len(stack) < MaxDepth

\* nxrDispatch, nxrDispatchTo: the app's handler runs on top of what is left.
Tell(h, kind, left) ==
    /\ told' = [told EXCEPT ![h] = Append(@, kind)]
    /\ stack' = <<InApp(h)>> \o left

\* ------------------------------------------------------------- teardown

\* The socket is closed and with it its read, or the page forgets the
\* WebSocket with its queue, and the tables forget the relay.
Forget(h) ==
    /\ relays' = [relays EXCEPT ![h] = Gone]
    /\ reads' = [reads EXCEPT ![h] = 0]
    /\ page' = [page EXCEPT ![h] = <<>>]

\* nxrTeardown.
Teardown(h, left) ==
    /\ Live(h)
    /\ Forget(h)
    /\ Tell(h, "disconnected", left)

\* nxrFail: two callbacks, the second when the first has returned.
\* Planted bug: the first is made with the relay still in the tables.
FailEarly(h, left) ==
    /\ Live(h)
    /\ UNCHANGED <<relays, reads, page>>
    /\ Tell(h, "error", <<Frame("fail", h, <<>>, 0, FALSE)>> \o left)
Fail(h, left) ==
    /\ Live(h)
    /\ Forget(h)
    /\ Tell(h, "error", <<Frame("fail", h, <<>>, 0, FALSE)>> \o left)

FailTail ==
    /\ Running("fail")
    /\ Tell(stack[1].h, "disconnected", Tail(stack))
    /\ UNCHANGED <<browser, relays, next, link, goodbyes, sent>>

\* nxrDisconnect: a close frame on an open socket, then the teardown.
Disconnect(h, left) ==
    /\ goodbyes' = IF relays[h].state = "open" /\ ~browser
                   THEN [goodbyes EXCEPT ![h] = @ + 1] ELSE goodbyes
    /\ Teardown(h, left)

\* ------------------------------------------------------- what the app does

\* nxrWebArm.
Arm == polling' = TRUE /\ polls' = IF polling THEN polls ELSE polls + 1

\* nxrConnect.  The browser may refuse the WebSocket: the handle is spent.
AppConnects ==
    LET h == next + 1 IN
    /\ AppsTurn
    /\ next < MaxRelays
    /\ next' = h
    /\ \/ /\ relays' = [relays EXCEPT ![h] = [state |-> IF browser THEN "handshake" ELSE "connecting",
                                              buffer |-> <<>>]]
          /\ deadline' = deadline \cup {h}
          /\ IF browser THEN Arm ELSE UNCHANGED <<polling, polls>>
       \/ browser /\ UNCHANGED <<relays, deadline, polling, polls>>
    /\ UNCHANGED <<browser, reads, page, stack, told, goodbyes, sent>>

AppDisconnects(h) ==
    /\ AppsTurn /\ Room
    /\ Disconnect(h, stack)
    /\ UNCHANGED <<browser, next, deadline, polling, polls, sent>>

LiveSeqs == SetToSeqs({h \in Handles : Live(h)})

\* nxrShutdown: every relay in the table as it was, one after the other.
AppShutsDown ==
    /\ AppsTurn /\ Room
    /\ \E list \in LiveSeqs \ {<<>>} :
          stack' = <<Frame("shutdown", 0, list, 0, FALSE)>> \o stack
    /\ UNCHANGED <<browser, relays, next, link, told, goodbyes, sent>>

Shutdown ==
    LET f == stack[1]
        left == <<[f EXCEPT !.list = Tail(@)]>> \o Tail(stack)
    IN
    /\ Running("shutdown")
    /\ \/ /\ f.list = <<>>
          /\ stack' = Tail(stack)
          /\ UNCHANGED <<relays, reads, page, told, goodbyes>>
       \/ /\ f.list # <<>> /\ ~Live(f.list[1])
          /\ stack' = left
          /\ UNCHANGED <<relays, reads, page, told, goodbyes>>
       \/ /\ f.list # <<>> /\ Live(f.list[1])
          /\ Disconnect(f.list[1], left)
    /\ UNCHANGED <<browser, next, deadline, polling, polls, sent>>

\* The app's handler returns, or throws and is caught.
AppReturns ==
    /\ Running("app")
    /\ stack' = Tail(stack)
    /\ UNCHANGED <<browser, relays, next, link, told, goodbyes, sent>>

\* ---------------------------------------------------- the engine's sockets

\* nxrWsOpened: the upgrade request is written and the read armed.
Opened(h) ==
    /\ AppsTurn
    /\ ~browser /\ relays[h].state = "connecting"
    /\ relays' = [relays EXCEPT ![h].state = "handshake"]
    /\ reads' = [reads EXCEPT ![h] = @ + 1]
    /\ UNCHANGED <<browser, next, deadline, page, polling, polls, stack, told, goodbyes, sent>>

Items == {"text", "close", "bad"}
Chunks(n) == {s \in BoundedSeq(Items, n) : s # <<>>}

\* What may arrive next: the answer to the upgrade, perhaps with the first
\* items behind it, then items.
Arrivals(h) ==
    IF relays[h].state = "handshake"
    THEN {<<"refuse">>, <<"accept">>} \cup {<<"accept", i>> : i \in Items}
    ELSE Chunks(MaxChunk)

\* nxrWsData.  A buffer past kNxrMaxBuffer fails; any other is processed, in
\* a frame of its own because the processing calls the app.
Data(h) ==
    /\ AppsTurn /\ Room
    /\ ~browser /\ reads[h] > 0
    /\ \E chunk \in Arrivals(h) :
          /\ sent[h] + Len(chunk) <= MaxItems + 1
          /\ sent' = [sent EXCEPT ![h] = @ + Len(chunk)]
          /\ \/ /\ relays' = [relays EXCEPT ![h].buffer = @ \o chunk]
                /\ reads' = [reads EXCEPT ![h] = @ - 1]
                /\ stack' = <<Frame("drain", h, <<>>, 0, FALSE)>> \o stack
                /\ UNCHANGED <<page, told>>
             \/ Fail(h, stack)
    /\ UNCHANGED <<browser, next, deadline, polling, polls, goodbyes>>

\* The handler ends: the read is armed again only if the relay is still there.
\* Planted bug: it is armed without a look.
RearmsAlways(h) == TRUE
Rearms(h) == Live(h)

DrainEnds(h) ==
    /\ ~Live(h) \/ relays[h].buffer = <<>>
    /\ stack' = Tail(stack)
    /\ reads' = IF Rearms(h) THEN [reads EXCEPT ![h] = @ + 1] ELSE reads
    /\ UNCHANGED <<relays, page, told, goodbyes>>

Eaten(h) == [relays EXCEPT ![h].buffer = Tail(@)]

\* nxrProcessHandshake: the answer to the upgrade.  left is what the app's
\* handler will return to.
Answered(h, item, left) ==
    /\ \/ /\ item = "accept"
          /\ relays' = [Eaten(h) EXCEPT ![h].state = "open"]
          /\ Tell(h, "open", left)
          /\ UNCHANGED <<reads, page>>
       \/ item = "refuse" /\ Fail(h, left)
    /\ UNCHANGED goodbyes

\* nxrProcessFrames takes one item.
TakeFrame(h, item, left) ==
    \/ /\ item = "text"
       /\ relays' = Eaten(h)
       /\ Tell(h, "message", left)
       /\ UNCHANGED <<reads, page, goodbyes>>
    \/ /\ item = "close"
       /\ goodbyes' = [goodbyes EXCEPT ![h] = @ + 1]
       /\ Teardown(h, left)
    \/ /\ item = "bad"
       /\ Fail(h, left)
       /\ UNCHANGED goodbyes

\* nxrProcessBuffer.
Drain ==
    LET h == stack[1].h
        item == relays[h].buffer[1]
    IN
    /\ Running("drain")
    /\ \/ DrainEnds(h)
       \/ /\ Live(h) /\ relays[h].buffer # <<>>
          /\ Answered(h, item, stack) \/ TakeFrame(h, item, stack)
    /\ UNCHANGED <<browser, next, deadline, polling, polls, sent>>

\* socketError, and socketTimeout before the handshake is through.
SocketFails(h) ==
    /\ AppsTurn /\ Room
    /\ ~browser
    /\ Fail(h, stack)
    /\ UNCHANGED <<browser, next, deadline, polling, polls, goodbyes, sent>>

\* socketClosed.
SocketCloses(h) ==
    /\ AppsTurn /\ Room
    /\ ~browser /\ relays[h].state # "connecting"
    /\ Teardown(h, stack)
    /\ UNCHANGED <<browser, next, deadline, polling, polls, goodbyes, sent>>

\* nxrDeadline: only a relay that is still on its way to "open" fails.
\* Planted bug: only one that is still connecting.
OnlyConnecting == {"connecting"}
OnTheWay == {"connecting", "handshake"}

Deadline(h) ==
    /\ AppsTurn /\ Room
    /\ h \in deadline
    /\ deadline' = deadline \ {h}
    /\ \/ relays[h].state \in OnTheWay /\ Fail(h, stack)
       \/ relays[h].state \notin OnTheWay /\ UNCHANGED <<relays, reads, page, stack, told>>
    /\ UNCHANGED <<browser, next, polling, polls, goodbyes, sent>>

\* ------------------------------------------------- the browser's WebSocket

PageEvents == {"open", "message", "error", "close"}

\* The page queues what happens to a WebSocket: "open" first, then messages,
\* then perhaps "error", "close" last.
PageQueues(h) ==
    /\ AppsTurn
    /\ browser /\ Live(h)
    /\ sent[h] <= MaxItems
    /\ sent' = [sent EXCEPT ![h] = @ + 1]
    /\ \E e \in PageEvents :
          /\ (e = "open") => sent[h] = 0
          /\ (e = "message") => sent[h] > 0
          /\ page[h] # <<>> /\ Last(page[h]) = "error" => e = "close"
          /\ page[h] # <<>> => Last(page[h]) # "close"
          /\ page' = [page EXCEPT ![h] = Append(@, e)]
    /\ UNCHANGED <<browser, relays, next, reads, deadline, polling, polls, stack, told, goodbyes>>

\* nxrWebPoll begins: the handles as they are, in the table's order.
PollFires ==
    /\ AppsTurn /\ Room
    /\ polls > 0
    /\ polls' = polls - 1
    /\ polling' = FALSE
    /\ \E list \in LiveSeqs : stack' = <<Frame("poll", 0, list, 0, FALSE)>> \o stack
    /\ UNCHANGED <<browser, relays, next, reads, deadline, page, told, goodbyes, sent>>

\* nxrWebEvent.
WebEvent(h, e, left) ==
    \/ /\ e = "open" /\ relays[h].state = "handshake"
       /\ relays' = [relays EXCEPT ![h].state = "open"]
       /\ page' = [page EXCEPT ![h] = Tail(@)]
       /\ Tell(h, "open", left)
       /\ UNCHANGED reads
    \/ /\ e = "message"
       /\ page' = [page EXCEPT ![h] = Tail(@)]
       /\ Tell(h, "message", left)
       /\ UNCHANGED <<relays, reads>>
    \/ e = "error" /\ Fail(h, left)
    \/ e = "close" /\ Teardown(h, left)

\* One event of the handle the loop is at, or on to the next handle.
PollStep ==
    LET f == stack[1]
        h == f.list[1]
        over == ~Live(h) \/ page[h] = <<>> \/ f.n = PollBatch
    IN
    /\ Running("poll")
    /\ \/ /\ f.list = <<>>
          /\ stack' = Tail(stack)
          /\ IF f.live THEN Arm ELSE UNCHANGED <<polling, polls>>
          /\ UNCHANGED <<relays, reads, page, told>>
       \/ /\ f.list # <<>> /\ over
          /\ stack' = <<Frame("poll", 0, Tail(f.list), 0, f.live \/ Live(h))>> \o Tail(stack)
          /\ UNCHANGED <<relays, reads, page, told, polling, polls>>
       \/ /\ f.list # <<>> /\ ~over
          /\ WebEvent(h, page[h][1], <<[f EXCEPT !.n = @ + 1]>> \o Tail(stack))
          /\ UNCHANGED <<polling, polls>>
    /\ UNCHANGED <<browser, next, deadline, goodbyes, sent>>

AppActs == AppConnects \/ AppShutsDown \/ \E h \in Handles : AppDisconnects(h)

\* The client's own handlers, which the engine runs to their end.
Continues == FailTail \/ Shutdown \/ Drain \/ PollStep

Network == \E h \in Handles : \/ Opened(h) \/ Data(h) \/ SocketFails(h)
                              \/ SocketCloses(h) \/ PageQueues(h)

Next ==
    \/ AppActs
    \/ AppReturns
    \/ Continues
    \/ Network
    \/ PollFires
    \/ \E h \in Handles : Deadline(h)

Spec == Init /\ [][Next]_vars

\* The engine runs a handler to its end, the app's handlers return, and the
\* engine delivers pending messages in the order they are due, so none waits
\* forever behind others.  Nothing is assumed of the network.
FairSpec ==
    /\ Spec
    /\ WF_vars(Continues) /\ WF_vars(AppReturns)
    /\ SF_vars(PollFires) /\ \A h \in Handles : SF_vars(Deadline(h))

\* ------------------------------------------------------------- properties

Kinds == {"open", "message", "error", "disconnected"}
Sent == Items \cup {"accept", "refuse"}
Frames ==
    {f \in [k : {"app", "fail", "shutdown", "drain", "poll"}, h : 0 .. MaxRelays,
            list : Seq(Handles), n : 0 .. PollBatch, live : BOOLEAN] :
        f.k \in {"fail", "drain"} => f.h # 0}

\* Every variable has its type, and a handle that is not given out yet or is
\* forgotten owns nothing: no read is armed for it and the page has no event.
TypeOK ==
    /\ browser \in BOOLEAN /\ polling \in BOOLEAN
    /\ next \in 0 .. MaxRelays
    /\ relays \in [Handles -> [state : {"gone", "connecting", "handshake", "open"},
                             buffer : Seq(Sent)]]
    /\ reads \in [Handles -> 0 .. 1]
    /\ deadline \subseteq 1 .. next
    /\ page \in [Handles -> Seq(PageEvents)]
    /\ polls \in 0 .. 1
    /\ told \in [Handles -> Seq(Kinds)]
    /\ goodbyes \in [Handles -> Nat] /\ sent \in [Handles -> Nat]
    /\ stack \in Seq(Frames)
    /\ \A h \in Handles :
          /\ h > next => ~Live(h)
          /\ ~Live(h) => reads[h] = 0 /\ page[h] = <<>>

\* The frames on the stack of one kind, for one relay.
On(k, h) == {i \in DOMAIN stack : stack[i].k = k /\ stack[i].h = h}

\* The callback contract (nostr-relay.livecodescript:37-58), whatever the app
\* does inside a callback: "open" comes first and once, messages only after
\* it, "error" is followed by "disconnected" and by nothing else, and
\* "disconnected" comes once, last, for a relay that is gone; a relay that is
\* gone has been reported, or its report is next on the stack.  The handle of a
\* WebSocket the browser refused is spent untold: it has no deadline either.
InOrder(t) ==
    \A i \in DOMAIN t :
       /\ t[i] = "open" => i = 1
       /\ t[i] = "message" => t[1] = "open"
       /\ t[i] = "error" => i + 1 >= Len(t)
       /\ i > 1 /\ t[i - 1] = "error" => t[i] = "disconnected"
       /\ t[i] = "disconnected" => i = Len(t)

ToldInOrder(h) ==
    LET t == told[h] IN
    /\ InOrder(t)
    /\ Live(h) => /\ \A i \in DOMAIN t : t[i] \notin {"error", "disconnected"}
                 /\ relays[h].state = "open" <=> t # <<>>
    /\ ~Live(h) /\ t # <<>> =>
          \/ t[Len(t)] = "disconnected"
          \/ t[Len(t)] = "error" /\ On("fail", h) # {}
    /\ ~Live(h) /\ h <= next /\ (browser => h \in deadline) => t # <<>>

\* Somebody is always about to listen to a live relay, and only one: a socket
\* past its connect has one read, armed or being handled, and a page has one
\* timer, pending or in a poll that will reach the relay or arm the next.
Polled(h) ==
    \/ polls = 1
    \/ \E i \in DOMAIN stack :
          stack[i].k = "poll" /\ (stack[i].live \/ \E j \in DOMAIN stack[i].list : stack[i].list[j] = h)

ReadOnce(h) ==
    IF relays[h].state = "connecting" THEN reads[h] = 0 /\ On("drain", h) = {}
    ELSE \/ reads[h] = 1 /\ On("drain", h) = {}
         \/ reads[h] = 0 /\ \E i \in DOMAIN stack : On("drain", h) = {i}

OneListener(h) == Live(h) => IF browser THEN Polled(h) ELSE ReadOnce(h)

\* nxrTeardown's comment (:1219-1225) names what went wrong before: a second
\* close frame, a second callback.
Contract ==
    /\ \A h \in Handles : ToldInOrder(h) /\ OneListener(h) /\ goodbyes[h] <= 1
    /\ polls = (IF polling THEN 1 ELSE 0)

\* A relay that never answers does not stay on its way ("timeouts are
\* mandatory", :349-352), and what has arrived is taken up, however often the
\* app's handlers get in between.
Settled(h) ==
    relays[h].state \in {"open", "gone"} /\ relays[h].buffer = <<>> /\ page[h] = <<>>

Settles == \A h \in Handles : []<>Settled(h)
================================================================================
