---------------------------- MODULE NostrRelayProofs ----------------------------
(***************************************************************************)
(* Proofs about NostrRelay, for every number of relays, every depth of     *)
(* callbacks and every bound: type correctness and the callback contract.  *)
(***************************************************************************)
EXTENDS NostrRelay, FiniteSetTheorems, TLAPS

\* ------------------------------------------------- frames on a stack

\* On, Single and Polled of any sequence of frames.
OnIn(s, k, h) == {i \in DOMAIN s : s[i].k = k /\ s[i].h = h}
Single(s, k, h) == \E i \in DOMAIN s : OnIn(s, k, h) = {i}

Reaches(f, h) == f.k = "poll" /\ (f.live \/ \E j \in DOMAIN f.list : f.list[j] = h)
PolledIn(s, h) == \E i \in DOMAIN s : Reaches(s[i], h)

Owns(f, g) == f.k \in {"drain", "fail"} /\ f.h = g

\* Relay g has the same handlers and the same failure on both stacks.
Same(s, t, g) ==
    \A k \in {"drain", "fail"} :
       /\ OnIn(s, k, g) = {} <=> OnIn(t, k, g) = {}
       /\ Single(s, k, g) => Single(t, k, g)

LEMMA PushSeq ==
    ASSUME NEW s \in Seq(Frames), NEW e \in Frames
    PROVE  /\ <<e>> \o s \in Seq(Frames)
           /\ Len(<<e>> \o s) = Len(s) + 1
           /\ (<<e>> \o s)[1] = e
           /\ \A i \in 1 .. Len(s) : (<<e>> \o s)[i + 1] = s[i]
           /\ <<e>> \o s # <<>>
           /\ Tail(<<e>> \o s) = s
OBVIOUS

LEMMA PopSeq ==
    ASSUME NEW s \in Seq(Frames), s # <<>>
    PROVE  /\ Tail(s) \in Seq(Frames)
           /\ Len(Tail(s)) = Len(s) - 1
           /\ \A i \in 1 .. Len(s) - 1 : Tail(s)[i] = s[i + 1]
           /\ s[1] \in Frames
           /\ Len(s) >= 1
OBVIOUS

\* A pushed frame that is of another kind or of another relay.
LEMMA PushOn ==
    ASSUME NEW s \in Seq(Frames), NEW e \in Frames, NEW k, NEW g
    PROVE  /\ e.k # k \/ e.h # g =>
                /\ OnIn(s, k, g) = {} <=> OnIn(<<e>> \o s, k, g) = {}
                /\ Single(s, k, g) => Single(<<e>> \o s, k, g)
           /\ e.k = k /\ e.h = g =>
                /\ OnIn(<<e>> \o s, k, g) # {}
                /\ OnIn(s, k, g) = {} => Single(<<e>> \o s, k, g)
<1> DEFINE t == <<e>> \o s
<1>1. /\ t \in Seq(Frames) /\ Len(t) = Len(s) + 1 /\ t[1] = e
      /\ \A i \in 1 .. Len(s) : t[i + 1] = s[i]
  BY PushSeq
<1>2. DOMAIN t = 1 .. Len(s) + 1 /\ DOMAIN s = 1 .. Len(s) /\ Len(s) \in Nat
  BY <1>1
<1> HIDE DEF t
<1>3. \A i \in DOMAIN t : i = 1 \/ (i - 1 \in DOMAIN s /\ t[i] = s[i - 1])
  BY <1>1, <1>2
<1>4. \A i \in DOMAIN s : i + 1 \in DOMAIN t /\ t[i + 1] = s[i]
  BY <1>1, <1>2
<1>5. ASSUME e.k # k \/ e.h # g
      PROVE  OnIn(t, k, g) = {i + 1 : i \in OnIn(s, k, g)}
  <2>1. ASSUME NEW i \in OnIn(t, k, g) PROVE \E j \in OnIn(s, k, g) : i = j + 1
    <3>1. i \in DOMAIN t /\ t[i].k = k /\ t[i].h = g  BY <2>1 DEF OnIn
    <3>2. i # 1  BY <3>1, <1>1, <1>5
    <3>3. i - 1 \in OnIn(s, k, g)  BY <3>1, <3>2, <1>3 DEF OnIn
    <3> QED BY <3>3, <3>1, <1>2
  <2>2. ASSUME NEW j \in OnIn(s, k, g) PROVE j + 1 \in OnIn(t, k, g)
    BY <2>2, <1>4 DEF OnIn
  <2> QED BY <2>1, <2>2
<1>6. ASSUME e.k = k, e.h = g, OnIn(s, k, g) = {} PROVE OnIn(t, k, g) = {1}
  <2>1. 1 \in OnIn(t, k, g)  BY <1>1, <1>2, <1>6 DEF OnIn
  <2>2. ASSUME NEW i \in OnIn(t, k, g), i # 1 PROVE FALSE
    <3>1. i \in DOMAIN t /\ t[i].k = k /\ t[i].h = g  BY <2>2 DEF OnIn
    <3>2. i - 1 \in OnIn(s, k, g)  BY <2>2, <3>1, <1>3 DEF OnIn
    <3> QED BY <3>2, <1>6
  <2> QED BY <2>1, <2>2
<1>7. ASSUME e.k = k, e.h = g PROVE 1 \in OnIn(t, k, g)
  BY <1>1, <1>2, <1>7 DEF OnIn
<1>8. ASSUME e.k # k \/ e.h # g, Single(s, k, g) PROVE Single(t, k, g)
  <2>1. PICK i \in DOMAIN s : OnIn(s, k, g) = {i}  BY <1>8 DEF Single
  <2>2. OnIn(t, k, g) = {i + 1}  BY <2>1, <1>5, <1>8
  <2> QED BY <2>2, <2>1, <1>4 DEF Single
<1>9. 1 \in DOMAIN t  BY <1>2
<1>10. e.k = k /\ e.h = g /\ OnIn(s, k, g) = {} => Single(t, k, g)
  BY <1>6, <1>9 DEF Single
<1>11. (e.k # k \/ e.h # g) => (OnIn(s, k, g) = {} <=> OnIn(t, k, g) = {})
  BY <1>5
<1> QED BY <1>7, <1>8, <1>10, <1>11 DEF t

\* A popped frame.
LEMMA PopOn ==
    ASSUME NEW s \in Seq(Frames), s # <<>>, NEW k, NEW g
    PROVE  /\ OnIn(s, k, g) = {} => OnIn(Tail(s), k, g) = {}
           /\ s[1].k # k \/ s[1].h # g =>
                /\ OnIn(s, k, g) = {} <=> OnIn(Tail(s), k, g) = {}
                /\ Single(s, k, g) => Single(Tail(s), k, g)
           /\ s[1].k = k /\ s[1].h = g /\ Single(s, k, g) => OnIn(Tail(s), k, g) = {}
<1> DEFINE t == Tail(s)
<1>1. /\ t \in Seq(Frames) /\ Len(t) = Len(s) - 1 /\ Len(s) >= 1
      /\ \A i \in 1 .. Len(s) - 1 : t[i] = s[i + 1]
  BY PopSeq
<1>2. DOMAIN t = 1 .. Len(s) - 1 /\ DOMAIN s = 1 .. Len(s) /\ Len(s) \in Nat
  BY <1>1
<1> HIDE DEF t
<1>3. \A i \in DOMAIN t : i + 1 \in DOMAIN s /\ t[i] = s[i + 1]
  BY <1>1, <1>2
<1>4. \A i \in DOMAIN s : i = 1 \/ (i - 1 \in DOMAIN t /\ s[i] = t[i - 1])
  BY <1>1, <1>2
<1>5. ASSUME NEW i \in OnIn(t, k, g) PROVE i + 1 \in OnIn(s, k, g) /\ i \in Nat /\ i # 0
  BY <1>5, <1>3, <1>2 DEF OnIn
<1>6. ASSUME NEW i \in OnIn(s, k, g), i # 1 PROVE i - 1 \in OnIn(t, k, g)
  BY <1>6, <1>4 DEF OnIn
<1>7. 1 \in OnIn(s, k, g) <=> s[1].k = k /\ s[1].h = g
  BY <1>1, <1>2 DEF OnIn
<1>8. OnIn(s, k, g) = {} => OnIn(t, k, g) = {}
  BY <1>5
<1>9. (s[1].k # k \/ s[1].h # g) => (OnIn(s, k, g) = {} <=> OnIn(t, k, g) = {})
  BY <1>6, <1>7, <1>8
<1>10. ASSUME s[1].k # k \/ s[1].h # g, Single(s, k, g) PROVE Single(t, k, g)
  <2>1. PICK i \in DOMAIN s : OnIn(s, k, g) = {i}  BY <1>10 DEF Single
  <2>2. i # 1  BY <2>1, <1>7, <1>10
  <2>3. i - 1 \in OnIn(t, k, g)  BY <2>1, <2>2, <1>6
  <2>4. \A j \in OnIn(t, k, g) : j = i - 1  BY <2>1, <1>5, <1>2
  <2>5. OnIn(t, k, g) = {i - 1}  BY <2>3, <2>4
  <2>6. i - 1 \in DOMAIN t  BY <2>3 DEF OnIn
  <2> QED BY <2>5, <2>6 DEF Single
<1>11. ASSUME s[1].k = k, s[1].h = g, Single(s, k, g) PROVE OnIn(t, k, g) = {}
  <2>1. OnIn(s, k, g) = {1}  BY <1>11, <1>7 DEF Single
  <2> QED BY <2>1, <1>5
<1> QED BY <1>8, <1>9, <1>10, <1>11 DEF t

LEMMA PushSame ==
    ASSUME NEW s \in Seq(Frames), NEW e \in Frames, NEW g, ~Owns(e, g)
    PROVE  Same(s, <<e>> \o s, g)
<1>1. ASSUME NEW k \in {"drain", "fail"} PROVE e.k # k \/ e.h # g
  BY <1>1 DEF Owns
<1> QED BY <1>1, PushOn DEF Same

LEMMA PopSame ==
    ASSUME NEW s \in Seq(Frames), s # <<>>, NEW g, ~Owns(s[1], g)
    PROVE  Same(s, Tail(s), g)
<1>1. ASSUME NEW k \in {"drain", "fail"} PROVE s[1].k # k \/ s[1].h # g
  BY <1>1 DEF Owns
<1> QED BY <1>1, PopOn DEF Same

LEMMA SameTrans ==
    ASSUME NEW s, NEW t, NEW u, NEW g, Same(s, t, g), Same(t, u, g)
    PROVE  Same(s, u, g)
BY DEF Same

LEMMA SameSelf == ASSUME NEW s, NEW g PROVE Same(s, s, g)
BY DEF Same

\* A poll that reaches a relay still does under a pushed frame, and on the
\* stack without its first frame when that one does not reach the relay.
LEMMA PushPolled ==
    ASSUME NEW s \in Seq(Frames), NEW e \in Frames, NEW g
    PROVE  PolledIn(<<e>> \o s, g) <=> PolledIn(s, g) \/ Reaches(e, g)
<1> DEFINE t == <<e>> \o s
<1>1. /\ t \in Seq(Frames) /\ Len(t) = Len(s) + 1 /\ t[1] = e
      /\ \A i \in 1 .. Len(s) : t[i + 1] = s[i]
  BY PushSeq
<1>2. DOMAIN t = 1 .. Len(s) + 1 /\ DOMAIN s = 1 .. Len(s) /\ Len(s) \in Nat
  BY <1>1
<1> HIDE DEF t
<1>3. \A i \in DOMAIN t : i = 1 \/ (i - 1 \in DOMAIN s /\ t[i] = s[i - 1])
  BY <1>1, <1>2
<1>4. \A i \in DOMAIN s : i + 1 \in DOMAIN t /\ t[i + 1] = s[i]
  BY <1>1, <1>2
<1>5. 1 \in DOMAIN t  BY <1>2
<1>6. PolledIn(s, g) \/ Reaches(e, g) => PolledIn(t, g)
  BY <1>1, <1>4, <1>5 DEF PolledIn
<1>7. PolledIn(t, g) => PolledIn(s, g) \/ Reaches(e, g)
  BY <1>1, <1>3 DEF PolledIn
<1> QED BY <1>6, <1>7 DEF t

LEMMA PopPolled ==
    ASSUME NEW s \in Seq(Frames), s # <<>>, NEW g
    PROVE  PolledIn(s, g) <=> PolledIn(Tail(s), g) \/ Reaches(s[1], g)
<1>1. Tail(s) \in Seq(Frames) /\ s[1] \in Frames /\ s = <<s[1]>> \o Tail(s)
  OBVIOUS
<1> QED BY <1>1, PushPolled

\* -------------------------------------------------- the frames themselves

LEMMA NewFrames ==
    ASSUME NEW h \in Handles, NEW list \in Seq(Handles)
    PROVE  /\ InApp(h) \in Frames /\ InApp(h).k = "app"
           /\ Frame("fail", h, <<>>, 0, FALSE) \in Frames
           /\ Frame("fail", h, <<>>, 0, FALSE).k = "fail"
           /\ Frame("fail", h, <<>>, 0, FALSE).h = h
           /\ Frame("drain", h, <<>>, 0, FALSE) \in Frames
           /\ Frame("drain", h, <<>>, 0, FALSE).k = "drain"
           /\ Frame("drain", h, <<>>, 0, FALSE).h = h
           /\ Frame("shutdown", 0, list, 0, FALSE) \in Frames
           /\ Frame("shutdown", 0, list, 0, FALSE).k = "shutdown"
           /\ \A live \in BOOLEAN :
                 LET f == Frame("poll", 0, list, 0, live) IN
                 f \in Frames /\ f.k = "poll" /\ f.list = list /\ f.live = live
<1>1. h # 0 /\ h \in 0 .. MaxRelays /\ 0 \in 0 .. MaxRelays /\ 0 \in 0 .. PollBatch
  BY RelayAssumption DEF Handles
<1>2. <<>> \in Seq(Handles)  OBVIOUS
<1> QED BY <1>1, <1>2 DEF InApp, Frame, Frames

\* What the handlers in progress keep of their frame.
LEMMA OldFrame ==
    ASSUME NEW f \in Frames
    PROVE  /\ f.k \in {"app", "fail", "shutdown", "drain", "poll"}
           /\ f.k \in {"fail", "drain"} => f.h \in Handles
           /\ f.list \in Seq(Handles) /\ f.n \in 0 .. PollBatch /\ f.live \in BOOLEAN
           /\ f.list # <<>> =>
                /\ f.list[1] \in Handles
                /\ [f EXCEPT !.list = Tail(@)] \in Frames
                /\ [f EXCEPT !.list = Tail(@)].k = f.k
           /\ f.n # PollBatch =>
                /\ [f EXCEPT !.n = @ + 1] \in Frames
                /\ [f EXCEPT !.n = @ + 1].k = f.k
                /\ [f EXCEPT !.n = @ + 1].list = f.list
                /\ [f EXCEPT !.n = @ + 1].live = f.live
<1>1. f.h \in 0 .. MaxRelays /\ f.h # 0 => f.h \in Handles
  BY RelayAssumption DEF Handles
<1>2. f.n # PollBatch => f.n + 1 \in 0 .. PollBatch
  BY RelayAssumption DEF Frames
<1>3. f.list # <<>> => f.list[1] \in Handles /\ Tail(f.list) \in Seq(Handles)
  BY DEF Frames
<1>4. /\ f.k \in {"app", "fail", "shutdown", "drain", "poll"} /\ f.h \in 0 .. MaxRelays
      /\ f.list \in Seq(Handles) /\ f.n \in 0 .. PollBatch /\ f.live \in BOOLEAN
      /\ f.k \in {"fail", "drain"} => f.h # 0
  BY DEF Frames
<1>5. f.list # <<>> => [f EXCEPT !.list = Tail(@)] \in Frames /\ [f EXCEPT !.list = Tail(@)].k = f.k
  BY <1>3 DEF Frames
<1>6. f.n # PollBatch => /\ [f EXCEPT !.n = @ + 1] \in Frames
                         /\ [f EXCEPT !.n = @ + 1].k = f.k
                         /\ [f EXCEPT !.n = @ + 1].list = f.list
                         /\ [f EXCEPT !.n = @ + 1].live = f.live
  BY <1>2 DEF Frames
<1> QED BY <1>1, <1>3, <1>4, <1>5, <1>6

\* The relays in the table, one after the other, each of them once.
LEMMA LiveList ==
    ASSUME TypeOK, NEW list \in LiveSeqs
    PROVE  /\ list \in Seq(Handles)
           /\ \A h \in Handles : Live(h) => \E j \in DOMAIN list : list[j] = h
<1> DEFINE S == {h \in Handles : Live(h)}
<1> DEFINE D == 1 .. Cardinality(S)
<1>1. IsFiniteSet(Handles)
  BY FS_Interval, RelayAssumption DEF Handles
<1>2. IsFiniteSet(S) /\ Cardinality(S) \in Nat
  BY <1>1, FS_Subset, FS_CardinalityType
<1>3. list \in [D -> S] /\ \A i, j \in D : i # j => list[i] # list[j]
  BY DEF LiveSeqs, SetToSeqs
<1>4. IsFiniteSet(D) /\ Cardinality(D) = Cardinality(S)
  BY <1>2, FS_Interval
<1> HIDE DEF S
<1>5. list \in Injection(D, S)
  BY <1>3 DEF Injection, IsInjective
<1>6. list \in Surjection(D, S)
  BY <1>2, <1>4, <1>5, FS_Injection
<1>7. \A h \in S : \E j \in D : list[j] = h
  BY <1>6 DEF Surjection
<1>8. list \in Seq(S) /\ DOMAIN list = D
  BY <1>2, <1>3
<1>9. S \subseteq Handles  BY DEF S
<1>10. list \in Seq(Handles)  BY <1>8, <1>9, <1>2, <1>3
<1> QED BY <1>7, <1>8, <1>10 DEF S

\* ------------------------------------------------------ what a relay is told

LEMMA Appended ==
    ASSUME NEW t \in Seq(Kinds), NEW x \in Kinds
    PROVE  /\ Append(t, x) \in Seq(Kinds) /\ Append(t, x) # <<>>
           /\ Len(Append(t, x)) = Len(t) + 1
           /\ Append(t, x)[Len(t) + 1] = x
           /\ \A i \in DOMAIN t : Append(t, x)[i] = t[i]
           /\ DOMAIN Append(t, x) = DOMAIN t \cup {Len(t) + 1}
           /\ DOMAIN t = 1 .. Len(t) /\ Len(t) \in Nat
           /\ t # <<>> <=> Len(t) > 0
OBVIOUS

\* The next callback of a relay that has not ended, and the last of one that
\* has failed.
LEMMA NextTold ==
    ASSUME NEW t \in Seq(Kinds), InOrder(t), NEW x \in Kinds,
           \/ \A i \in DOMAIN t : t[i] \notin {"error", "disconnected"}
           \/ t # <<>> /\ t[Len(t)] = "error" /\ x = "disconnected",
           x = "open" => t = <<>>, x = "message" => t # <<>>
    PROVE  InOrder(Append(t, x))
<1> DEFINE u == Append(t, x)
<1>1. /\ Len(u) = Len(t) + 1 /\ u[Len(t) + 1] = x
      /\ \A i \in DOMAIN t : u[i] = t[i]
      /\ DOMAIN u = DOMAIN t \cup {Len(t) + 1}
      /\ DOMAIN t = 1 .. Len(t) /\ Len(t) \in Nat
      /\ t # <<>> <=> Len(t) > 0
      /\ \A i \in DOMAIN t : t[i] \in Kinds
  BY Appended
<1> HIDE DEF u
<1>2. ASSUME NEW i \in DOMAIN t
      PROVE  /\ u[i] = "open" => i = 1
             /\ u[i] = "message" => u[1] = "open"
             /\ u[i] = "error" => i + 1 >= Len(u)
             /\ i > 1 /\ u[i - 1] = "error" => u[i] = "disconnected"
             /\ u[i] = "disconnected" => i = Len(u)
  <2>1. u[i] = t[i] /\ i \in 1 .. Len(t) /\ 1 \in DOMAIN t /\ u[1] = t[1]
    BY <1>1, <1>2
  <2>2. u[i] = "disconnected" => i = Len(u)
    BY <2>1, <1>1 DEF InOrder
  <2>3. u[i] = "error" => i + 1 >= Len(u)
    BY <2>1, <1>1 DEF InOrder
  <2>4. i > 1 => i - 1 \in DOMAIN t /\ u[i - 1] = t[i - 1]
    BY <2>1, <1>1
  <2> QED BY <2>1, <2>2, <2>3, <2>4 DEF InOrder
<1>3. ASSUME NEW i, i = Len(t) + 1
      PROVE  /\ u[i] = "open" => i = 1
             /\ u[i] = "message" => u[1] = "open"
             /\ u[i] = "error" => i + 1 >= Len(u)
             /\ i > 1 /\ u[i - 1] = "error" => u[i] = "disconnected"
             /\ u[i] = "disconnected" => i = Len(u)
  <2>1. x = "open" => i = 1  BY <1>1, <1>3
  <2>2. ASSUME x = "message" PROVE u[1] = "open"
    <3>1. 1 \in DOMAIN t /\ u[1] = t[1] /\ t[1] \in Kinds
      BY <2>2, <1>1
    <3>2. t[1] \notin {"error", "disconnected"}
      BY <2>2, <3>1
    <3> QED BY <3>1, <3>2 DEF InOrder, Kinds
  <2>3. ASSUME i > 1, u[i - 1] = "error" PROVE x = "disconnected"
    <3>1. i - 1 \in DOMAIN t /\ u[i - 1] = t[i - 1]
      BY <2>3, <1>1, <1>3
    <3> QED BY <3>1, <2>3
  <2> QED BY <2>1, <2>2, <2>3, <1>1, <1>3
<1>4. InOrder(u)
  BY <1>1, <1>2, <1>3 DEF InOrder
<1> QED BY <1>4 DEF u

\* ------------------------------------------------- the inductive invariant

\* What is in a relay's receive buffer is being processed, and the answer to
\* the upgrade is at its head, and nowhere else, while there is none yet.
BufferInv(h) ==
    LET b == relays[h].buffer
        st == relays[h].state
    IN  Live(h) =>
        /\ b # <<>> => On("drain", h) # {}
        /\ On("drain", h) # {} => ~browser
        /\ b # <<>> /\ st = "handshake" => b[1] \in {"accept", "refuse"}
        /\ \A i \in DOMAIN b : b[i] \notin Items => i = 1 /\ st = "handshake"

\* The page's "open" is at the head of its queue while the relay waits for it;
\* a socket has no such queue.
PageInv(h) ==
    LET p == page[h]
        st == relays[h].state
    IN  Live(h) =>
        IF browser
        THEN /\ st \in {"handshake", "open"}
             /\ sent[h] = 0 => p = <<>> /\ st = "handshake"
             /\ sent[h] # 0 /\ st = "handshake" => p # <<>> /\ p[1] # "message"
             /\ \A i \in DOMAIN p : p[i] = "open" => i = 1 /\ st = "handshake"
        ELSE p = <<>>

\* A handle not given out yet has no history and no frame; a live relay has
\* not failed; a failure in progress is the only one, and its "error" is the
\* last thing told.
FailInv(h) ==
    /\ h > next => /\ told[h] = <<>> /\ goodbyes[h] = 0 /\ sent[h] = 0
                   /\ On("drain", h) = {} /\ On("fail", h) = {}
    /\ Live(h) => goodbyes[h] = 0 /\ On("fail", h) = {}
    /\ On("fail", h) # {} => /\ ~Live(h)
                             /\ told[h] # <<>> /\ told[h][Len(told[h])] = "error"
                             /\ Single(stack, "fail", h)

RelayInv(h) ==
    /\ FailInv(h) /\ BufferInv(h) /\ PageInv(h)
    /\ ToldInOrder(h) /\ OneListener(h) /\ goodbyes[h] <= 1

IInv ==
    /\ TypeOK
    /\ polls = (IF polling THEN 1 ELSE 0)
    /\ \A h \in Handles : RelayInv(h)

LEMMA OnStack ==
    /\ \A k, h : On(k, h) = OnIn(stack, k, h) /\ On(k, h)' = OnIn(stack', k, h)
    /\ \A h : Polled(h) <=> polls = 1 \/ PolledIn(stack, h)
    /\ \A h : Polled(h)' <=> polls' = 1 \/ PolledIn(stack', h)
BY DEF On, OnIn, Polled, PolledIn, Reaches

\* ---------------------------------------------------- what a step does to g

\* The step leaves relay g alone.
Alone(g) ==
    /\ relays'[g] = relays[g] /\ reads'[g] = reads[g] /\ page'[g] = page[g]
    /\ told'[g] = told[g] /\ goodbyes'[g] = goodbyes[g] /\ sent'[g] = sent[g]
    /\ browser' = browser
    /\ g \in deadline' => g \in deadline
    /\ g > next' <=> g > next
    /\ Same(stack, stack', g)
    /\ Live(g) /\ Polled(g) => Polled(g)'

LEMMA SameOn ==
    ASSUME NEW g, Same(stack, stack', g)
    PROVE  /\ On("drain", g) = {} <=> On("drain", g)' = {}
           /\ On("fail", g) = {} <=> On("fail", g)' = {}
           /\ (\E i \in DOMAIN stack : On("drain", g) = {i})
                 => \E i \in DOMAIN stack' : On("drain", g)' = {i}
           /\ Single(stack, "fail", g) => Single(stack', "fail", g)
<1>1. /\ OnIn(stack, "drain", g) = {} <=> OnIn(stack', "drain", g) = {}
      /\ OnIn(stack, "fail", g) = {} <=> OnIn(stack', "fail", g) = {}
      /\ Single(stack, "drain", g) => Single(stack', "drain", g)
      /\ Single(stack, "fail", g) => Single(stack', "fail", g)
  BY DEF Same
<1> QED BY <1>1, OnStack DEF Single

LEMMA AloneInv ==
    ASSUME TypeOK, NEW g \in Handles, RelayInv(g), Alone(g), next' \in Nat
    PROVE  RelayInv(g)'
<1>1. /\ relays'[g] = relays[g] /\ reads'[g] = reads[g] /\ page'[g] = page[g]
      /\ told'[g] = told[g] /\ goodbyes'[g] = goodbyes[g] /\ sent'[g] = sent[g]
      /\ browser' = browser
      /\ g \in deadline' => g \in deadline
      /\ g > next' <=> g > next
      /\ Live(g) /\ Polled(g) => Polled(g)'
  BY DEF Alone
<1>2. /\ On("drain", g) = {} <=> On("drain", g)' = {}
      /\ On("fail", g) = {} <=> On("fail", g)' = {}
      /\ (\E i \in DOMAIN stack : On("drain", g) = {i})
            => \E i \in DOMAIN stack' : On("drain", g)' = {i}
      /\ Single(stack, "fail", g) => Single(stack', "fail", g)
  BY SameOn DEF Alone
<1>3. Live(g)' <=> Live(g)  BY <1>1 DEF Live
<1>4. g <= next' <=> g <= next
  BY <1>1 DEF TypeOK, Handles
<1>5. FailInv(g)'
  BY <1>1, <1>2, <1>3 DEF RelayInv, FailInv
<1>6. BufferInv(g)'
  BY <1>1, <1>2, <1>3 DEF RelayInv, BufferInv
<1>7. PageInv(g)'
  BY <1>1, <1>3 DEF RelayInv, PageInv
<1>8. ToldInOrder(g)'
  BY <1>1, <1>2, <1>3, <1>4 DEF RelayInv, ToldInOrder, InOrder
<1>9. OneListener(g)'
  BY <1>1, <1>2, <1>3 DEF RelayInv, OneListener, ReadOnce
<1> QED BY <1>1, <1>5, <1>6, <1>7, <1>8, <1>9 DEF RelayInv

\* The table and the invariant of one relay, for relays the step leaves alone.
LEMMA OthersInv ==
    ASSUME IInv, NEW h \in Handles, next' \in Nat,
           \A g \in Handles : g # h => Alone(g),
           RelayInv(h)'
    PROVE  \A g \in Handles : RelayInv(g)'
BY AloneInv DEF IInv

LEMMA AllAlone ==
    ASSUME IInv, TypeOK', polls' = (IF polling' THEN 1 ELSE 0),
           \A g \in Handles : Alone(g)
    PROVE  IInv'
<1>1. next' \in Nat  BY DEF TypeOK
<1>2. \A g \in Handles : RelayInv(g)'  BY <1>1, AloneInv DEF IInv
<1> QED BY <1>2 DEF IInv

\* The relay is gone, and its app has been told so, or of the failure of which
\* the second callback is left.
LEMMA ClosedInv ==
    ASSUME TypeOK, NEW h \in Handles, RelayInv(h), Live(h),
           relays'[h] = Gone, next' = next, browser' = browser,
           goodbyes'[h] \in {goodbyes[h], goodbyes[h] + 1},
           \/ told'[h] = Append(told[h], "disconnected") /\ Same(stack, stack', h)
           \/ /\ told'[h] = Append(told[h], "error")
              /\ On("fail", h)' # {} /\ Single(stack', "fail", h)
    PROVE  RelayInv(h)'
<1>1. ~(h > next') /\ told[h] \in Seq(Kinds)
  BY DEF TypeOK, Handles
<1>2. ~Live(h)'  BY DEF Live, Gone
<1>3. /\ InOrder(told[h])
      /\ \A i \in DOMAIN told[h] : told[h][i] \notin {"error", "disconnected"}
      /\ goodbyes[h] = 0 /\ On("fail", h) = {}
  BY DEF RelayInv, ToldInOrder, FailInv
<1>4. PICK x \in {"error", "disconnected"} :
        /\ told'[h] = Append(told[h], x)
        /\ x = "disconnected" => On("fail", h)' = {}
        /\ x = "error" => On("fail", h)' # {} /\ Single(stack', "fail", h)
  BY <1>3, SameOn
<1>5. InOrder(told'[h])
  BY <1>1, <1>3, <1>4, NextTold DEF Kinds
<1>6. told'[h] # <<>> /\ told'[h][Len(told'[h])] = x
  BY <1>1, <1>4, Appended DEF Kinds
<1>7. FailInv(h)'
  BY <1>1, <1>2, <1>4, <1>6, Zenon DEF FailInv
<1>8. BufferInv(h)' /\ PageInv(h)' /\ OneListener(h)'
  BY <1>2 DEF BufferInv, PageInv, OneListener
<1>9. ToldInOrder(h)'
  BY <1>2, <1>4, <1>5, <1>6 DEF ToldInOrder
<1>10. goodbyes'[h] <= 1
  BY <1>3
<1> QED BY <1>7, <1>8, <1>9, <1>10 DEF RelayInv

\* The relay stays, perhaps is open now, and its app is told so, or of a
\* message on an open relay.
LEMMA StaysInv ==
    ASSUME TypeOK, NEW h \in Handles, RelayInv(h), Live(h), Live(h)',
           next' = next, browser' = browser, goodbyes'[h] = goodbyes[h],
           On("fail", h)' = {},
           \/ told'[h] = told[h] /\ (relays'[h].state = "open" <=> relays[h].state = "open")
           \/ /\ told'[h] = Append(told[h], "message")
              /\ relays[h].state = "open" /\ relays'[h].state = "open"
           \/ /\ told'[h] = Append(told[h], "open")
              /\ relays[h].state # "open" /\ relays'[h].state = "open",
           BufferInv(h)', PageInv(h)', OneListener(h)'
    PROVE  RelayInv(h)'
<1>1. h <= next /\ next \in Nat /\ told[h] \in Seq(Kinds)
  BY DEF TypeOK, Handles
<1>2. /\ InOrder(told[h])
      /\ \A i \in DOMAIN told[h] : told[h][i] \notin {"error", "disconnected"}
      /\ relays[h].state = "open" <=> told[h] # <<>>
      /\ goodbyes[h] = 0 /\ goodbyes[h] <= 1
  BY DEF RelayInv, ToldInOrder, FailInv
<1>3. ~(h > next') /\ goodbyes'[h] = 0
  BY <1>1, <1>2 DEF Handles
<1>4. FailInv(h)'
  BY <1>3, Zenon DEF FailInv
<1>5. ASSUME NEW x \in {"open", "message"}, told'[h] = Append(told[h], x),
             x = "open" => told[h] = <<>>, x = "message" => told[h] # <<>>
      PROVE  /\ InOrder(told'[h]) /\ told'[h] # <<>>
             /\ \A i \in DOMAIN told'[h] : told'[h][i] \notin {"error", "disconnected"}
  <2>1. InOrder(told'[h])
    BY <1>1, <1>2, <1>5, NextTold DEF Kinds
  <2>2. /\ told'[h] # <<>>
        /\ \A i \in DOMAIN told'[h] : told'[h][i] \notin {"error", "disconnected"}
    BY <1>1, <1>2, <1>5, Appended DEF Kinds
  <2> QED BY <2>1, <2>2
<1>6. ToldInOrder(h)'
  <2>1. CASE told'[h] = told[h] /\ (relays'[h].state = "open" <=> relays[h].state = "open")
    BY <2>1, <1>2 DEF ToldInOrder
  <2>2. CASE /\ told'[h] = Append(told[h], "message")
             /\ relays[h].state = "open" /\ relays'[h].state = "open"
    BY <2>2, <1>2, <1>5 DEF ToldInOrder
  <2>3. CASE /\ told'[h] = Append(told[h], "open")
             /\ relays[h].state # "open" /\ relays'[h].state = "open"
    BY <2>3, <1>2, <1>5 DEF ToldInOrder
  <2> QED BY <2>1, <2>2, <2>3
<1> QED BY <1>2, <1>4, <1>6 DEF RelayInv

\* ------------------------------------------------------ telling and closing

\* What is left of the stack has the same handlers and polls for every relay.
Carries(left) ==
    /\ left \in Seq(Frames)
    /\ \A g \in Handles : /\ Same(stack, left, g)
                          /\ Live(g) /\ PolledIn(stack, g) => PolledIn(left, g)

LEMMA TellStep ==
    ASSUME TypeOK, NEW h \in Handles, NEW kind \in Kinds, NEW left \in Seq(Frames),
           Tell(h, kind, left)
    PROVE  /\ told' \in [Handles -> Seq(Kinds)]
           /\ told'[h] = Append(told[h], kind)
           /\ \A g \in Handles : g # h => told'[g] = told[g]
           /\ stack' \in Seq(Frames)
           /\ \A g \in Handles : /\ Same(left, stack', g)
                                 /\ PolledIn(left, g) => PolledIn(stack', g)
<1>1. told \in [Handles -> Seq(Kinds)]
  BY DEF TypeOK
<1>2. told' = [told EXCEPT ![h] = Append(told[h], kind)] /\ stack' = <<InApp(h)>> \o left
  BY DEF Tell
<1>3. Append(told[h], kind) \in Seq(Kinds)
  BY <1>1
<1>4. InApp(h) \in Frames /\ InApp(h).k = "app"
  <2>1. <<>> \in Seq(Handles)  OBVIOUS
  <2> QED BY <2>1, NewFrames
<1>5. stack' \in Seq(Frames)
  BY <1>2, <1>4, PushSeq
<1>6. \A g \in Handles : ~Owns(InApp(h), g)
  BY <1>4 DEF Owns
<1>7. \A g \in Handles : Same(left, stack', g) /\ (PolledIn(left, g) => PolledIn(stack', g))
  BY <1>2, <1>4, <1>6, PushSame, PushPolled
<1> QED BY <1>1, <1>2, <1>3, <1>5, <1>7

LEMMA ForgetStep ==
    ASSUME TypeOK, NEW h \in Handles, Forget(h)
    PROVE  /\ relays' \in [Handles -> [state : {"gone", "connecting", "handshake", "open"},
                                       buffer : Seq(Sent)]]
           /\ reads' \in [Handles -> 0 .. 1] /\ page' \in [Handles -> Seq(PageEvents)]
           /\ relays'[h] = Gone /\ reads'[h] = 0 /\ page'[h] = <<>>
           /\ \A g \in Handles : g # h => /\ relays'[g] = relays[g] /\ reads'[g] = reads[g]
                                          /\ page'[g] = page[g]
<1>1. Gone \in [state : {"gone", "connecting", "handshake", "open"}, buffer : Seq(Sent)]
  BY DEF Gone
<1> QED BY <1>1 DEF Forget, TypeOK

\* A typed successor in which the tables of one relay are gone.
LEMMA GoneType ==
    ASSUME IInv, NEW h \in Handles, NEW kind \in Kinds, NEW left \in Seq(Frames),
           Live(h), Forget(h), Tell(h, kind, left),
           UNCHANGED <<browser, next, polling, polls>>, deadline' \subseteq deadline,
           goodbyes' \in [Handles -> Nat], sent' \in [Handles -> Nat]
    PROVE  TypeOK'
<1>1. /\ TypeOK
      /\ browser' = browser /\ next' = next /\ polling' = polling /\ polls' = polls
  BY DEF IInv
<1>2. /\ browser' \in BOOLEAN /\ polling' \in BOOLEAN /\ next' \in 0 .. MaxRelays
      /\ polls' \in 0 .. 1 /\ deadline' \subseteq 1 .. next'
  BY <1>1 DEF TypeOK
<1>3. told' \in [Handles -> Seq(Kinds)] /\ stack' \in Seq(Frames)
  BY <1>1, TellStep
<1>4. /\ relays' \in [Handles -> [state : {"gone", "connecting", "handshake", "open"},
                                  buffer : Seq(Sent)]]
      /\ reads' \in [Handles -> 0 .. 1] /\ page' \in [Handles -> Seq(PageEvents)]
      /\ relays'[h] = Gone /\ reads'[h] = 0 /\ page'[h] = <<>>
      /\ \A g \in Handles : g # h => /\ relays'[g] = relays[g] /\ reads'[g] = reads[g]
                                     /\ page'[g] = page[g]
  BY <1>1, ForgetStep
<1>5. ASSUME NEW g \in Handles
      PROVE  /\ g > next' => ~Live(g)'
             /\ ~Live(g)' => reads'[g] = 0 /\ page'[g] = <<>>
  <2>1. CASE g = h
    BY <2>1, <1>4 DEF Live, Gone
  <2>2. CASE g # h
    BY <2>2, <1>1, <1>4 DEF Live, TypeOK
  <2> QED BY <2>1, <2>2
<1> QED BY <1>2, <1>3, <1>4, <1>5 DEF TypeOK

\* nxrTeardown, whatever the handler has left to do.
LEMMA TeardownStep ==
    ASSUME IInv, NEW h \in Handles, NEW left, Carries(left), Teardown(h, left),
           UNCHANGED <<browser, next, polling, polls, sent>>, deadline' \subseteq deadline,
           goodbyes' = goodbyes \/ goodbyes' = [goodbyes EXCEPT ![h] = @ + 1]
    PROVE  IInv'
<1>1. /\ TypeOK /\ RelayInv(h)
      /\ browser' = browser /\ next' = next /\ polling' = polling /\ polls' = polls
      /\ sent' = sent /\ polls = (IF polling THEN 1 ELSE 0)
  BY DEF IInv
<1>2. /\ goodbyes \in [Handles -> Nat] /\ sent \in [Handles -> Nat] /\ next \in Nat
  BY <1>1 DEF TypeOK
<1>3. Live(h) /\ Forget(h) /\ Tell(h, "disconnected", left) /\ left \in Seq(Frames)
  BY DEF Teardown, Carries
<1>4. /\ goodbyes' \in [Handles -> Nat] /\ goodbyes'[h] \in {goodbyes[h], goodbyes[h] + 1}
      /\ \A g \in Handles : g # h => goodbyes'[g] = goodbyes[g]
  BY <1>2
<1>5. "disconnected" \in Kinds  BY DEF Kinds
<1>6. TypeOK'
  BY <1>1, <1>2, <1>3, <1>4, <1>5, GoneType
<1>7. /\ told'[h] = Append(told[h], "disconnected")
      /\ \A g \in Handles : g # h => told'[g] = told[g]
      /\ \A g \in Handles : /\ Same(left, stack', g)
                            /\ PolledIn(left, g) => PolledIn(stack', g)
  BY <1>1, <1>3, <1>5, TellStep
<1>8. /\ relays'[h] = Gone
      /\ \A g \in Handles : g # h => /\ relays'[g] = relays[g] /\ reads'[g] = reads[g]
                                     /\ page'[g] = page[g]
  BY <1>1, <1>3, ForgetStep
<1>9. \A g \in Handles : /\ Same(stack, stack', g)
                         /\ Live(g) /\ Polled(g) => Polled(g)'
  BY <1>1, <1>7, SameTrans, OnStack DEF Carries
<1>10. RelayInv(h)'
  BY <1>1, <1>3, <1>4, <1>7, <1>8, <1>9, ClosedInv
<1>11. \A g \in Handles : g # h => Alone(g)
  BY <1>1, <1>4, <1>7, <1>8, <1>9 DEF Alone
<1>12. \A g \in Handles : RelayInv(g)'
  BY <1>1, <1>2, <1>10, <1>11, OthersInv
<1> QED BY <1>1, <1>6, <1>12 DEF IInv

\* nxrFail up to its first callback.
LEMMA FailStep ==
    ASSUME IInv, NEW h \in Handles, NEW left, Carries(left), Fail(h, left),
           UNCHANGED <<browser, next, polling, polls, goodbyes>>, deadline' \subseteq deadline,
           sent' \in [Handles -> Nat], \A g \in Handles : g # h => sent'[g] = sent[g]
    PROVE  IInv'
<1> DEFINE f == Frame("fail", h, <<>>, 0, FALSE)
<1>1. /\ TypeOK /\ RelayInv(h)
      /\ browser' = browser /\ next' = next /\ polling' = polling /\ polls' = polls
      /\ goodbyes' = goodbyes /\ polls = (IF polling THEN 1 ELSE 0)
  BY DEF IInv
<1>2. goodbyes \in [Handles -> Nat] /\ next \in Nat
  BY <1>1 DEF TypeOK
<1>3. /\ Live(h) /\ Forget(h) /\ Tell(h, "error", <<f>> \o left) /\ left \in Seq(Frames)
  BY DEF Fail, Carries
<1>4. f \in Frames /\ f.k = "fail" /\ f.h = h
  <2>1. <<>> \in Seq(Handles)  OBVIOUS
  <2> QED BY <2>1, NewFrames
<1> HIDE DEF f
<1>5. <<f>> \o left \in Seq(Frames)
  BY <1>3, <1>4, PushSeq
<1>6. "error" \in Kinds  BY DEF Kinds
<1>7. TypeOK'
  BY <1>1, <1>2, <1>3, <1>5, <1>6, GoneType
<1>8. /\ told'[h] = Append(told[h], "error")
      /\ \A g \in Handles : g # h => told'[g] = told[g]
      /\ \A g \in Handles : /\ Same(<<f>> \o left, stack', g)
                            /\ PolledIn(<<f>> \o left, g) => PolledIn(stack', g)
  BY <1>1, <1>3, <1>5, <1>6, TellStep
<1>9. /\ relays'[h] = Gone
      /\ \A g \in Handles : g # h => /\ relays'[g] = relays[g] /\ reads'[g] = reads[g]
                                     /\ page'[g] = page[g]
  BY <1>1, <1>3, ForgetStep
<1>10. \A g \in Handles : Live(g) /\ Polled(g) => Polled(g)'
  BY <1>1, <1>3, <1>4, <1>8, PushPolled, OnStack DEF Carries
<1>11. \A g \in Handles : g # h => Same(stack, stack', g)
  <2>1. \A g \in Handles : g # h => ~Owns(f, g)
    BY <1>4 DEF Owns
  <2>2. \A g \in Handles : g # h => Same(left, <<f>> \o left, g)
    BY <2>1, <1>3, <1>4, PushSame
  <2>3. \A g \in Handles : g # h => Same(stack, <<f>> \o left, g)
    BY <2>2, SameTrans DEF Carries
  <2> QED BY <2>3, <1>8, SameTrans
<1>12. On("fail", h)' # {} /\ Single(stack', "fail", h)
  <2>1. OnIn(stack, "fail", h) = {}
    BY <1>1, <1>3, OnStack DEF RelayInv, FailInv
  <2>2. OnIn(left, "fail", h) = {}
    BY <2>1 DEF Carries, Same
  <2>3. OnIn(<<f>> \o left, "fail", h) # {} /\ Single(<<f>> \o left, "fail", h)
    BY <2>2, <1>3, <1>4, PushOn
  <2> QED BY <2>3, <1>8, OnStack DEF Same
<1>13. RelayInv(h)'
  BY <1>1, <1>3, <1>8, <1>9, <1>12, ClosedInv
<1>14. \A g \in Handles : g # h => Alone(g)
  BY <1>1, <1>8, <1>9, <1>10, <1>11 DEF Alone
<1>15. \A g \in Handles : RelayInv(g)'
  BY <1>1, <1>2, <1>13, <1>14, OthersInv
<1> QED BY <1>1, <1>7, <1>15 DEF IInv

\* ----------------------------------------------- steps that move the stack

LEMMA CarriesAll ==
    ASSUME TypeOK PROVE Carries(stack)
BY SameSelf DEF Carries, TypeOK

LEMMA CarriesTop ==
    ASSUME TypeOK, stack # <<>>, NEW f \in Frames,
           stack[1].k \notin {"drain", "fail"}, f.k = stack[1].k,
           \A g \in Handles : Live(g) /\ Reaches(stack[1], g) => Reaches(f, g)
    PROVE  Carries(<<f>> \o Tail(stack))
<1>1. stack \in Seq(Frames) /\ Tail(stack) \in Seq(Frames)
  BY PopSeq DEF TypeOK
<1>2. <<f>> \o Tail(stack) \in Seq(Frames)
  BY <1>1, PushSeq
<1>3. \A g : ~Owns(stack[1], g) /\ ~Owns(f, g)
  BY DEF Owns
<1>4. \A g : Same(stack, <<f>> \o Tail(stack), g)
  BY <1>1, <1>3, PopSame, PushSame, SameTrans
<1>5. \A g : PolledIn(stack, g) <=> PolledIn(Tail(stack), g) \/ Reaches(stack[1], g)
  BY <1>1, PopPolled
<1>6. \A g : PolledIn(<<f>> \o Tail(stack), g) <=> PolledIn(Tail(stack), g) \/ Reaches(f, g)
  BY <1>1, PushPolled
<1> QED BY <1>2, <1>4, <1>5, <1>6 DEF Carries

LEMMA CarriesRest ==
    ASSUME TypeOK, stack # <<>>, stack[1].k \notin {"drain", "fail"},
           \A g \in Handles : Live(g) => ~Reaches(stack[1], g)
    PROVE  Carries(Tail(stack))
<1>1. stack \in Seq(Frames) /\ Tail(stack) \in Seq(Frames)
  BY PopSeq DEF TypeOK
<1>2. \A g : Same(stack, Tail(stack), g)
  BY <1>1, PopSame DEF Owns
<1>3. \A g : PolledIn(stack, g) <=> PolledIn(Tail(stack), g) \/ Reaches(stack[1], g)
  BY <1>1, PopPolled
<1> QED BY <1>1, <1>2, <1>3 DEF Carries

LEMMA CarriesPush ==
    ASSUME TypeOK, NEW f \in Frames, f.k \notin {"drain", "fail"}
    PROVE  Carries(<<f>> \o stack)
<1>1. stack \in Seq(Frames)  BY DEF TypeOK
<1>2. \A g : Same(stack, <<f>> \o stack, g)
  BY <1>1, PushSame DEF Owns
<1>3. \A g : PolledIn(stack, g) => PolledIn(<<f>> \o stack, g)
  BY <1>1, PushPolled
<1> QED BY <1>1, <1>2, <1>3, PushSeq DEF Carries

\* Only the stack, the deadlines and the timer of the page change.
LEMMA StackOnly ==
    ASSUME IInv, stack' \in Seq(Frames),
           \A g \in Handles : Same(stack, stack', g) /\ (Live(g) /\ Polled(g) => Polled(g)'),
           UNCHANGED <<browser, relays, next, reads, page, told, goodbyes, sent>>,
           deadline' \subseteq deadline,
           polling' \in BOOLEAN, polls' = (IF polling' THEN 1 ELSE 0)
    PROVE  IInv'
<1>1. /\ TypeOK /\ polls' \in 0 .. 1
      /\ browser' = browser /\ relays' = relays /\ next' = next /\ reads' = reads
      /\ page' = page /\ told' = told /\ goodbyes' = goodbyes /\ sent' = sent
  BY DEF IInv
<1>2. TypeOK'
  BY <1>1 DEF TypeOK, Live
<1>3. \A g \in Handles : Alone(g)
  BY <1>1 DEF Alone
<1> QED BY <1>2, <1>3, AllAlone

LEMMA CarriesOnly ==
    ASSUME IInv, Carries(stack'), deadline' \subseteq deadline,
           UNCHANGED <<browser, relays, next, reads, page, told, goodbyes, sent, polling, polls>>
    PROVE  IInv'
<1>1. /\ TypeOK /\ polls = (IF polling THEN 1 ELSE 0) /\ polling \in BOOLEAN
      /\ polling' = polling /\ polls' = polls
  BY DEF IInv, TypeOK
<1>2. stack' \in Seq(Frames)
  BY DEF Carries
<1>3. \A g \in Handles : Same(stack, stack', g) /\ (Live(g) /\ Polled(g) => Polled(g)')
  BY <1>1, OnStack DEF Carries
<1> QED BY <1>1, <1>2, <1>3, StackOnly

LEMMA AppReturnsStep == ASSUME IInv, AppReturns PROVE IInv'
<1>1. TypeOK /\ stack # <<>> /\ stack[1].k = "app" /\ stack' = Tail(stack)
  BY DEF IInv, AppReturns, Running
<1>2. Carries(stack')
  BY <1>1, CarriesRest DEF Reaches
<1> QED BY <1>2, CarriesOnly DEF AppReturns, link

LEMMA AppShutsDownStep == ASSUME IInv, AppShutsDown PROVE IInv'
<1>1. TypeOK  BY DEF IInv
<1>2. PICK list \in LiveSeqs : stack' = <<Frame("shutdown", 0, list, 0, FALSE)>> \o stack
  BY DEF AppShutsDown
<1>3. list \in Seq(Handles)
  BY <1>1, LiveList
<1>4. Frame("shutdown", 0, list, 0, FALSE) \in Frames
      /\ Frame("shutdown", 0, list, 0, FALSE).k = "shutdown"
  BY <1>3, RelayAssumption DEF Frame, Frames
<1>5. Carries(stack')
  BY <1>1, <1>2, <1>4, CarriesPush
<1> QED BY <1>5, CarriesOnly DEF AppShutsDown, link

LEMMA ShutdownStep == ASSUME IInv, Shutdown PROVE IInv'
<1> DEFINE f == stack[1]
<1> DEFINE g == [f EXCEPT !.list = Tail(@)]
<1>1. TypeOK /\ stack # <<>> /\ f.k = "shutdown" /\ f \in Frames
  BY PopSeq DEF IInv, TypeOK, Shutdown, Running
<1>2. UNCHANGED <<browser, next, deadline, polling, polls, sent>>
  BY DEF Shutdown
<1>3. CASE f.list = <<>> /\ stack' = Tail(stack) /\ UNCHANGED <<relays, reads, page, told, goodbyes>>
  <2>1. Carries(stack')
    BY <1>1, <1>3, CarriesRest DEF Reaches
  <2> QED BY <1>2, <1>3, <2>1, CarriesOnly
<1>4. ASSUME f.list # <<>>
      PROVE  Carries(<<g>> \o Tail(stack)) /\ f.list[1] \in Handles
  <2>1. g \in Frames /\ g.k = "shutdown" /\ f.list[1] \in Handles
    BY <1>1, <1>4, OldFrame
  <2> HIDE DEF g
  <2> QED BY <1>1, <2>1, CarriesTop DEF Reaches
<1>5. CASE f.list # <<>> /\ stack' = <<g>> \o Tail(stack) /\ UNCHANGED <<relays, reads, page, told, goodbyes>>
  BY <1>2, <1>4, <1>5, CarriesOnly
<1>6. CASE f.list # <<>> /\ Disconnect(f.list[1], <<g>> \o Tail(stack))
  <2>1. Teardown(f.list[1], <<g>> \o Tail(stack))
        /\ (goodbyes' = goodbyes \/ goodbyes' = [goodbyes EXCEPT ![f.list[1]] = @ + 1])
    BY <1>6 DEF Disconnect
  <2> HIDE DEF g, f
  <2> QED BY <1>2, <1>4, <1>6, <2>1, TeardownStep
<1> QED BY <1>3, <1>5, <1>6 DEF Shutdown

LEMMA AppDisconnectsStep ==
    ASSUME IInv, NEW h \in Handles, AppDisconnects(h) PROVE IInv'
<1>1. Teardown(h, stack) /\ (goodbyes' = goodbyes \/ goodbyes' = [goodbyes EXCEPT ![h] = @ + 1])
  BY DEF AppDisconnects, Disconnect
<1>2. Carries(stack)
  BY CarriesAll DEF IInv
<1> QED BY <1>1, <1>2, TeardownStep DEF AppDisconnects

LEMMA SocketFailsStep ==
    ASSUME IInv, NEW h \in Handles, SocketFails(h) PROVE IInv'
<1>1. Carries(stack) /\ sent \in [Handles -> Nat]
  BY CarriesAll DEF IInv, TypeOK
<1> QED BY <1>1, FailStep DEF SocketFails

LEMMA SocketClosesStep ==
    ASSUME IInv, NEW h \in Handles, SocketCloses(h) PROVE IInv'
<1>1. Carries(stack)
  BY CarriesAll DEF IInv
<1> QED BY <1>1, TeardownStep DEF SocketCloses

LEMMA DeadlineStep ==
    ASSUME IInv, NEW h \in Handles, Deadline(h) PROVE IInv'
<1>1. Carries(stack) /\ sent \in [Handles -> Nat] /\ deadline' \subseteq deadline
  BY CarriesAll DEF IInv, TypeOK, Deadline
<1>2. CASE Fail(h, stack)
  BY <1>1, <1>2, FailStep DEF Deadline
<1>3. CASE UNCHANGED <<relays, reads, page, stack, told>>
  BY <1>1, <1>3, CarriesOnly DEF Deadline
<1> QED BY <1>2, <1>3 DEF Deadline

\* nxrFail's second callback: the frame of the failure goes, and the relay it
\* was for has been told everything.
LEMMA FailTailStep == ASSUME IInv, FailTail PROVE IInv'
<1>0. /\ TypeOK /\ stack \in Seq(Frames) /\ stack # <<>> /\ stack[1].k = "fail"
      /\ stack[1] \in Frames /\ polls = (IF polling THEN 1 ELSE 0)
  BY PopSeq DEF IInv, TypeOK, FailTail, Running
<1> PICK h \in Handles : h = stack[1].h
  BY <1>0, OldFrame
<1>1. /\ TypeOK /\ stack \in Seq(Frames) /\ stack # <<>> /\ stack[1].k = "fail"
      /\ stack[1] \in Frames /\ RelayInv(h) /\ polls = (IF polling THEN 1 ELSE 0)
  BY <1>0 DEF IInv
<1>2. /\ Tell(h, "disconnected", Tail(stack))
      /\ browser' = browser /\ relays' = relays /\ next' = next /\ reads' = reads
      /\ deadline' = deadline /\ page' = page /\ polling' = polling /\ polls' = polls
      /\ goodbyes' = goodbyes /\ sent' = sent
  BY DEF FailTail, link
<1>3. Tail(stack) \in Seq(Frames) /\ "disconnected" \in Kinds
  BY <1>1, PopSeq DEF Kinds
<1>4. /\ told' \in [Handles -> Seq(Kinds)]
      /\ told'[h] = Append(told[h], "disconnected")
      /\ \A g \in Handles : g # h => told'[g] = told[g]
      /\ stack' \in Seq(Frames)
      /\ \A g \in Handles : /\ Same(Tail(stack), stack', g)
                            /\ PolledIn(Tail(stack), g) => PolledIn(stack', g)
  BY <1>1, <1>2, <1>3, TellStep
<1>5. TypeOK'
  BY <1>1, <1>2, <1>4 DEF TypeOK, Live
<1>6. \A g \in Handles : Polled(g) => Polled(g)'
  BY <1>1, <1>2, <1>4, PopPolled, OnStack DEF Reaches
<1>7. \A g \in Handles : g # h => Alone(g)
  <2>1. \A g \in Handles : g # h => ~Owns(stack[1], g)
    BY DEF Owns
  <2>2. \A g \in Handles : g # h => Same(stack, stack', g)
    BY <2>1, <1>1, <1>4, PopSame, SameTrans
  <2> QED BY <2>2, <1>2, <1>4, <1>6 DEF Alone
<1>8. RelayInv(h)'
  <2>1. On("fail", h) # {}
    <3>1. 1 \in DOMAIN stack  BY <1>1
    <3> QED BY <3>1, <1>1 DEF On
  <2>2. /\ ~Live(h) /\ told[h] # <<>> /\ told[h][Len(told[h])] = "error"
        /\ Single(stack, "fail", h) /\ InOrder(told[h]) /\ goodbyes[h] <= 1
        /\ ~(h > next)
    BY <1>1, <2>1 DEF RelayInv, FailInv, ToldInOrder
  <2>3. On("fail", h)' = {}
    <3>1. OnIn(Tail(stack), "fail", h) = {}
      BY <2>2, <1>1, PopOn
    <3> QED BY <3>1, <1>4, OnStack DEF Same
  <2>4. ~Live(h)'  BY <2>2, <1>2 DEF Live
  <2>5. told[h] \in Seq(Kinds)  BY <1>1 DEF TypeOK
  <2>6. InOrder(told'[h])
    BY <2>2, <2>5, <1>3, <1>4, NextTold
  <2>7. told'[h] # <<>> /\ told'[h][Len(told'[h])] = "disconnected"
    BY <2>5, <1>3, <1>4, Appended
  <2>8. FailInv(h)'
    BY <2>2, <2>3, <2>4, <1>2 DEF FailInv
  <2>9. BufferInv(h)' /\ PageInv(h)' /\ OneListener(h)'
    BY <2>4 DEF BufferInv, PageInv, OneListener
  <2>10. ToldInOrder(h)'
    BY <2>4, <2>6, <2>7 DEF ToldInOrder
  <2> QED BY <2>2, <2>8, <2>9, <2>10, <1>2 DEF RelayInv
<1>9. \A g \in Handles : RelayInv(g)'
  <2>1. next' \in Nat  BY <1>5 DEF TypeOK
  <2> QED BY <2>1, <1>1, <1>7, <1>8, OthersInv
<1> QED BY <1>1, <1>2, <1>5, <1>9 DEF IInv

\* The next handle is taken into the table, or is spent.
LEMMA AppConnectsStep == ASSUME IInv, AppConnects PROVE IInv'
<1>0. /\ TypeOK /\ polls = (IF polling THEN 1 ELSE 0)
  BY DEF IInv
<1>1. next \in Nat /\ next < MaxRelays /\ next' = next + 1 /\ next + 1 \in Handles
  BY <1>0, RelayAssumption DEF AppConnects, TypeOK, Handles
<1> PICK h \in Handles : h = next + 1
  BY <1>1
<1> PICK r : r = [state |-> IF browser THEN "handshake" ELSE "connecting", buffer |-> <<>>]
  OBVIOUS
<1>2. /\ next \in Nat /\ next < MaxRelays /\ next' = h /\ next' \in Nat
      /\ browser' = browser /\ reads' = reads /\ page' = page /\ stack' = stack
      /\ told' = told /\ goodbyes' = goodbyes /\ sent' = sent
  BY <1>1 DEF AppConnects
<1>3. \/ relays' = [relays EXCEPT ![h] = r] /\ deadline' = deadline \cup {h}
         /\ (IF browser THEN Arm ELSE UNCHANGED <<polling, polls>>)
      \/ browser /\ UNCHANGED <<relays, deadline, polling, polls>>
  BY DEF AppConnects
<1>4. RelayInv(h)
  BY <1>2 DEF IInv
<1>5. ~Live(h) /\ h > next /\ reads[h] = 0 /\ page[h] = <<>>
  BY <1>0, <1>2 DEF TypeOK
<1>6. /\ told[h] = <<>> /\ goodbyes[h] = 0 /\ sent[h] = 0
      /\ On("drain", h) = {} /\ On("fail", h) = {}
  BY <1>4, <1>5 DEF RelayInv, FailInv
<1>7. /\ polling' \in BOOLEAN /\ polls' = (IF polling' THEN 1 ELSE 0)
      /\ polls = 1 => polls' = 1
      /\ browser /\ relays' # relays => polls' = 1
  <2>1. polling \in BOOLEAN /\ polls = (IF polling THEN 1 ELSE 0)
    BY <1>0 DEF TypeOK
  <2>2. \/ polling' = polling /\ polls' = polls /\ (browser => relays' = relays)
        \/ polling' = TRUE /\ polls' = (IF polling THEN polls ELSE polls + 1)
    BY <1>3 DEF Arm
  <2>3. CASE polling' = polling /\ polls' = polls /\ (browser => relays' = relays)
    BY <2>1, <2>3
  <2>4. CASE polling' = TRUE /\ polls' = (IF polling THEN polls ELSE polls + 1)
    BY <2>1, <2>4
  <2> QED BY <2>2, <2>3, <2>4
<1>8. /\ r \in [state : {"gone", "connecting", "handshake", "open"}, buffer : Seq(Sent)]
      /\ r.state # "gone" /\ r.state # "open" /\ r.buffer = <<>>
      /\ browser => r.state = "handshake"
      /\ ~browser => r.state = "connecting"
  OBVIOUS
<1>9. /\ relays' \in [Handles -> [state : {"gone", "connecting", "handshake", "open"},
                                  buffer : Seq(Sent)]]
      /\ \A g \in Handles : g # h => relays'[g] = relays[g]
      /\ relays'[h] = r \/ (browser /\ relays' = relays /\ deadline' = deadline)
      /\ deadline' \subseteq deadline \cup {h}
  <2>1. relays \in [Handles -> [state : {"gone", "connecting", "handshake", "open"},
                                buffer : Seq(Sent)]]
    BY <1>0 DEF TypeOK
  <2>2. CASE relays' = [relays EXCEPT ![h] = r] /\ deadline' = deadline \cup {h}
    BY <2>1, <2>2, <1>8
  <2>3. CASE browser /\ UNCHANGED <<relays, deadline>>
    BY <2>1, <2>3
  <2> QED BY <2>2, <2>3, <1>3
<1>10. TypeOK'
  <2>1. next' \in 0 .. MaxRelays /\ polls' \in 0 .. 1
    BY <1>1, <1>7, RelayAssumption
  <2>2. deadline' \subseteq 1 .. next'
    <3>1. deadline \subseteq 1 .. next  BY <1>0 DEF TypeOK
    <3> QED BY <3>1, <1>1, <1>2, <1>9
  <2>3. ASSUME NEW g \in Handles
        PROVE  /\ g > next' => ~Live(g)'
               /\ ~Live(g)' => reads'[g] = 0 /\ page'[g] = <<>>
    <3>1. CASE g = h
      BY <3>1, <1>2, <1>5
    <3>2. CASE g # h
      <4>1. g > next' => g > next
        BY <1>2 DEF Handles
      <4> QED BY <3>2, <4>1, <1>0, <1>2, <1>9 DEF TypeOK, Live
    <3> QED BY <3>1, <3>2
  <2> QED BY <1>0, <1>2, <1>7, <1>9, <2>1, <2>2, <2>3 DEF TypeOK
<1>11. \A g \in Handles : Polled(g) => Polled(g)'
  BY <1>2, <1>7, OnStack
<1>12. \A g \in Handles : g # h => Alone(g)
  <2>1. \A g \in Handles : g # h => (g > next' <=> g > next)
    BY <1>2 DEF Handles
  <2> QED BY <2>1, <1>2, <1>9, <1>11, SameSelf DEF Alone
<1>13. RelayInv(h)'
  <2>1. On("drain", h)' = {} /\ On("fail", h)' = {} /\ ~(h > next')
    BY <1>2, <1>6 DEF On
  <2>2. FailInv(h)'
    BY <2>1, <1>2, <1>6 DEF FailInv
  <2>3. CASE relays'[h] = r
    <3>1. BufferInv(h)' /\ PageInv(h)'
      BY <2>1, <2>3, <1>2, <1>5, <1>6, <1>8 DEF BufferInv, PageInv
    <3>2. Live(h)' /\ relays'[h].state # "open"
      BY <2>3, <1>8 DEF Live
    <3>3. ToldInOrder(h)'
      BY <3>2, <1>2, <1>6 DEF ToldInOrder, InOrder
    <3>4. OneListener(h)'
      <4>1. CASE browser
        <5>1. polls' = 1
          BY <4>1, <1>2, <1>5, <1>7, <2>3, <3>2 DEF Live
        <5> QED BY <5>1, <4>1, <1>2, OnStack DEF OneListener
      <4>2. CASE ~browser
        BY <4>2, <2>1, <2>3, <1>2, <1>5, <1>8 DEF OneListener, ReadOnce
      <4> QED BY <4>1, <4>2
    <3> QED BY <2>2, <3>1, <3>3, <3>4, <1>2, <1>6 DEF RelayInv
  <2>4. CASE browser /\ relays' = relays /\ deadline' = deadline
    <3>1. ~Live(h)' /\ h \notin deadline'
      BY <2>4, <1>0, <1>5 DEF Live, TypeOK
    <3>2. BufferInv(h)' /\ PageInv(h)' /\ OneListener(h)'
      BY <3>1 DEF BufferInv, PageInv, OneListener
    <3>3. ToldInOrder(h)'
      BY <3>1, <2>4, <1>2, <1>6 DEF ToldInOrder, InOrder
    <3> QED BY <2>2, <3>2, <3>3, <1>2, <1>6 DEF RelayInv
  <2> QED BY <2>3, <2>4, <1>9
<1>14. \A g \in Handles : RelayInv(g)'
  BY <1>2, <1>12, <1>13, OthersInv
<1> QED BY <1>7, <1>10, <1>14 DEF IInv

\* ---------------------------------------------------- the engine's sockets

Entries == [state : {"gone", "connecting", "handshake", "open"}, buffer : Seq(Sent)]

\* A typed successor in which the relay stays: only its entry, its read and
\* its page's queue change, and what it is told and has sent.
LEMMA StaysType ==
    ASSUME TypeOK, NEW h \in Handles, Live(h), Live(h)',
           relays' \in [Handles -> Entries], reads' \in [Handles -> 0 .. 1],
           page' \in [Handles -> Seq(PageEvents)], told' \in [Handles -> Seq(Kinds)],
           sent' \in [Handles -> Nat], stack' \in Seq(Frames),
           \A g \in Handles : g # h => /\ relays'[g] = relays[g] /\ reads'[g] = reads[g]
                                       /\ page'[g] = page[g],
           UNCHANGED <<browser, next, deadline, polling, polls, goodbyes>>
    PROVE  TypeOK'
<1>1. ASSUME NEW g \in Handles
      PROVE  /\ g > next' => ~Live(g)'
             /\ ~Live(g)' => reads'[g] = 0 /\ page'[g] = <<>>
  <2>1. CASE g = h
    BY <2>1 DEF TypeOK
  <2>2. CASE g # h
    BY <2>2 DEF TypeOK, Live
  <2> QED BY <2>1, <2>2
<1> QED BY <1>1 DEF TypeOK, Entries

LEMMA OpenedStep ==
    ASSUME IInv, NEW h \in Handles, Opened(h) PROVE IInv'
<1>1. /\ TypeOK /\ RelayInv(h) /\ polls = (IF polling THEN 1 ELSE 0)
  BY DEF IInv
<1>2. /\ ~browser /\ relays[h].state = "connecting" /\ Live(h)
      /\ relays' = [relays EXCEPT ![h].state = "handshake"]
      /\ reads' = [reads EXCEPT ![h] = @ + 1]
      /\ browser' = browser /\ next' = next /\ deadline' = deadline /\ page' = page
      /\ polling' = polling /\ polls' = polls /\ stack' = stack /\ told' = told
      /\ goodbyes' = goodbyes /\ sent' = sent
  BY DEF Opened, Live
<1>3. /\ reads[h] = 0 /\ On("drain", h) = {} /\ On("fail", h) = {}
      /\ relays[h].buffer = <<>> /\ page[h] = <<>>
  BY <1>1, <1>2 DEF RelayInv, FailInv, BufferInv, PageInv, OneListener, ReadOnce
<1>4. /\ relays \in [Handles -> Entries] /\ reads \in [Handles -> 0 .. 1] /\ next \in Nat
  BY <1>1 DEF TypeOK, Entries
<1>5. /\ relays' \in [Handles -> Entries]
      /\ relays'[h].state = "handshake" /\ relays'[h].buffer = <<>>
      /\ \A g \in Handles : g # h => relays'[g] = relays[g]
  BY <1>2, <1>3, <1>4 DEF Entries
<1>6. /\ reads' \in [Handles -> 0 .. 1] /\ reads'[h] = 1
      /\ \A g \in Handles : g # h => reads'[g] = reads[g]
  BY <1>2, <1>3, <1>4
<1>7. Live(h)'  BY <1>5 DEF Live
<1>8. TypeOK'
  <2>1. page' \in [Handles -> Seq(PageEvents)] /\ told' \in [Handles -> Seq(Kinds)]
        /\ sent' \in [Handles -> Nat] /\ stack' \in Seq(Frames)
    BY <1>1, <1>2 DEF TypeOK
  <2> QED BY <2>1, <1>1, <1>2, <1>5, <1>6, <1>7, StaysType
<1>9. On("drain", h)' = {} /\ On("fail", h)' = {}
  BY <1>2, <1>3 DEF On
<1>10. BufferInv(h)' /\ PageInv(h)' /\ OneListener(h)'
  BY <1>2, <1>3, <1>5, <1>6, <1>9 DEF BufferInv, PageInv, OneListener, ReadOnce
<1>11. RelayInv(h)'
  BY <1>1, <1>2, <1>5, <1>7, <1>9, <1>10, StaysInv
<1>12. \A g \in Handles : g # h => Alone(g)
  BY <1>2, <1>5, <1>6, SameSelf, OnStack DEF Alone
<1>13. \A g \in Handles : RelayInv(g)'
  BY <1>2, <1>4, <1>11, <1>12, OthersInv
<1> QED BY <1>1, <1>2, <1>8, <1>13 DEF IInv

LEMMA Arrived ==
    ASSUME NEW h, NEW chunk \in Arrivals(h)
    PROVE  /\ chunk \in Seq(Sent) /\ chunk # <<>>
           /\ relays[h].state = "handshake" => chunk[1] \in {"accept", "refuse"}
           /\ \A i \in DOMAIN chunk :
                 chunk[i] \notin Items => i = 1 /\ relays[h].state = "handshake"
<1>1. CASE relays[h].state = "handshake"
  <2>1. chunk = <<"refuse">> \/ chunk = <<"accept">> \/ \E i \in Items : chunk = <<"accept", i>>
    BY <1>1 DEF Arrivals
  <2>2. CASE chunk = <<"refuse">> \/ chunk = <<"accept">>
    <3>1. PICK x \in {"accept", "refuse"} : chunk = <<x>>
      BY <2>2
    <3>2. x \in Sent
      BY DEF Sent
    <3>3. chunk \in Seq(Sent) /\ chunk # <<>> /\ DOMAIN chunk = {1} /\ chunk[1] = x
      BY <3>1, <3>2
    <3> QED BY <1>1, <3>3
  <2>3. CASE \E i \in Items : chunk = <<"accept", i>>
    <3>1. PICK i \in Items : chunk = <<"accept", i>>
      BY <2>3
    <3>2. "accept" \in Sent /\ i \in Sent
      BY DEF Sent
    <3>3. /\ chunk \in Seq(Sent) /\ chunk # <<>> /\ DOMAIN chunk = {1, 2}
          /\ chunk[1] = "accept" /\ chunk[2] = i
      BY <3>1, <3>2
    <3> QED BY <1>1, <3>3
  <2> QED BY <2>1, <2>2, <2>3
<1>2. CASE relays[h].state # "handshake"
  <2>1. PICK m \in 0 .. MaxChunk : chunk \in [1 .. m -> Items] /\ chunk # <<>>
    BY <1>2 DEF Arrivals, Chunks, BoundedSeq, SeqOf
  <2>2. chunk \in Seq(Items) /\ chunk \in Seq(Sent)
    BY <2>1, RelayAssumption DEF Sent
  <2> QED BY <2>1, <2>2, <1>2
<1> QED BY <1>1, <1>2

LEMMA DataStep ==
    ASSUME IInv, NEW h \in Handles, Data(h) PROVE IInv'
<1> DEFINE f == Frame("drain", h, <<>>, 0, FALSE)
<1>1. /\ TypeOK /\ RelayInv(h) /\ polls = (IF polling THEN 1 ELSE 0)
      /\ ~browser /\ reads[h] > 0
      /\ browser' = browser /\ next' = next /\ deadline' = deadline
      /\ polling' = polling /\ polls' = polls /\ goodbyes' = goodbyes
  BY DEF IInv, Data
<1>2. PICK chunk \in Arrivals(h) :
        /\ sent' = [sent EXCEPT ![h] = @ + Len(chunk)]
        /\ \/ /\ relays' = [relays EXCEPT ![h].buffer = @ \o chunk]
              /\ reads' = [reads EXCEPT ![h] = @ - 1]
              /\ stack' = <<f>> \o stack
              /\ UNCHANGED <<page, told>>
           \/ Fail(h, stack)
  BY DEF Data
<1>3. /\ chunk \in Seq(Sent) /\ chunk # <<>>
      /\ relays[h].state = "handshake" => chunk[1] \in {"accept", "refuse"}
      /\ \A i \in DOMAIN chunk : chunk[i] \notin Items => i = 1 /\ relays[h].state = "handshake"
  BY Arrived
<1>4. /\ relays \in [Handles -> Entries] /\ reads \in [Handles -> 0 .. 1] /\ next \in Nat
      /\ sent \in [Handles -> Nat] /\ stack \in Seq(Frames) /\ Len(chunk) \in Nat
  BY <1>1, <1>3 DEF TypeOK, Entries
<1>5. /\ sent' \in [Handles -> Nat] /\ \A g \in Handles : g # h => sent'[g] = sent[g]
  BY <1>2, <1>4
<1>6. CASE Fail(h, stack)
  <2>1. Carries(stack)  BY <1>1, CarriesAll
  <2> QED BY <2>1, <1>1, <1>5, <1>6, FailStep
<1>7. CASE /\ relays' = [relays EXCEPT ![h].buffer = @ \o chunk]
           /\ reads' = [reads EXCEPT ![h] = @ - 1]
           /\ stack' = <<f>> \o stack
           /\ UNCHANGED <<page, told>>
  <2>1. reads[h] = 1 /\ Live(h)
    BY <1>1, <1>4 DEF TypeOK
  <2>2. /\ relays[h].state # "connecting" /\ On("drain", h) = {} /\ relays[h].buffer = <<>>
        /\ On("fail", h) = {} /\ page[h] = <<>>
    BY <2>1, <1>1 DEF RelayInv, FailInv, BufferInv, PageInv, OneListener, ReadOnce
  <2>3. relays[h].buffer \o chunk = chunk
    BY <2>2, <1>3
  <2>4. /\ relays' \in [Handles -> Entries]
        /\ relays'[h].state = relays[h].state /\ relays'[h].buffer = chunk
        /\ \A g \in Handles : g # h => relays'[g] = relays[g]
    BY <2>3, <1>3, <1>4, <1>7 DEF Entries
  <2>5. /\ reads' \in [Handles -> 0 .. 1] /\ reads'[h] = 0
        /\ \A g \in Handles : g # h => reads'[g] = reads[g]
    BY <2>1, <1>4, <1>7
  <2>6. f \in Frames /\ f.k = "drain" /\ f.h = h
    <3>1. <<>> \in Seq(Handles)  OBVIOUS
    <3> QED BY <3>1, NewFrames
  <2> HIDE DEF f
  <2>7. Live(h)'  BY <2>1, <2>4 DEF Live
  <2>8. TypeOK'
    <3>1. page' \in [Handles -> Seq(PageEvents)] /\ told' \in [Handles -> Seq(Kinds)]
          /\ stack' \in Seq(Frames)
      BY <1>1, <1>4, <1>7, <2>6, PushSeq DEF TypeOK
    <3> QED BY <3>1, <1>1, <1>5, <2>1, <2>4, <2>5, <2>7, <1>7, StaysType
  <2>9. On("drain", h)' # {} /\ (\E i \in DOMAIN stack' : On("drain", h)' = {i})
    <3>1. OnIn(stack, "drain", h) = {}
      BY <2>2, OnStack
    <3>2. OnIn(stack', "drain", h) # {} /\ Single(stack', "drain", h)
      BY <3>1, <2>6, <1>4, <1>7, PushOn
    <3> QED BY <3>2, OnStack DEF Single
  <2>10. On("fail", h)' = {}
    BY <2>2, <2>6, <1>4, <1>7, PushOn, OnStack
  <2>11. BufferInv(h)' /\ PageInv(h)' /\ OneListener(h)'
    BY <2>2, <2>4, <2>5, <2>9, <1>1, <1>3, <1>7 DEF BufferInv, PageInv, OneListener, ReadOnce
  <2>12. RelayInv(h)'
    BY <2>1, <2>4, <2>7, <2>10, <2>11, <1>1, <1>7, StaysInv
  <2>13. \A g \in Handles : g # h => Alone(g)
    <3>1. \A g \in Handles : g # h => Same(stack, stack', g)
      BY <2>6, <1>4, <1>7, PushSame DEF Owns
    <3>2. \A g \in Handles : Polled(g) => Polled(g)'
      BY <2>6, <1>1, <1>4, <1>7, PushPolled, OnStack
    <3> QED BY <3>1, <3>2, <2>4, <2>5, <1>1, <1>5, <1>7 DEF Alone
  <2>14. \A g \in Handles : RelayInv(g)'
    BY <2>12, <2>13, <1>1, <1>4, OthersInv
  <2> QED BY <2>8, <2>14, <1>1 DEF IInv
<1> QED BY <1>2, <1>6, <1>7

\* The frame of nxrProcessBuffer goes: the read is armed again, or the relay is
\* gone and the frame was the last that knew it.
LEMMA DrainEndsStep ==
    ASSUME IInv, NEW h \in Handles, stack # <<>>, stack[1].k = "drain", stack[1].h = h,
           DrainEnds(h), UNCHANGED <<browser, next, deadline, polling, polls, sent>>
    PROVE  IInv'
<1>1. /\ TypeOK /\ RelayInv(h) /\ polls = (IF polling THEN 1 ELSE 0)
      /\ stack' = Tail(stack) /\ (~Live(h) \/ relays[h].buffer = <<>>)
      /\ reads' = (IF Live(h) THEN [reads EXCEPT ![h] = @ + 1] ELSE reads)
      /\ relays' = relays /\ page' = page /\ told' = told /\ goodbyes' = goodbyes
      /\ browser' = browser /\ next' = next /\ deadline' = deadline
      /\ polling' = polling /\ polls' = polls /\ sent' = sent
  BY DEF IInv, DrainEnds, Rearms
<1>2. /\ relays \in [Handles -> Entries] /\ reads \in [Handles -> 0 .. 1] /\ next \in Nat
      /\ stack \in Seq(Frames) /\ stack' \in Seq(Frames)
  BY <1>1, PopSeq DEF TypeOK, Entries
<1>3. On("drain", h) # {}
  <2>1. 1 \in DOMAIN stack  BY <1>2
  <2> QED BY <2>1 DEF On
<1>4. On("fail", h) = {} <=> On("fail", h)' = {}
  BY <1>1, <1>2, PopOn, OnStack
<1>5. Single(stack, "fail", h) => Single(stack', "fail", h)
  BY <1>1, <1>2, PopOn
<1>6. Live(h)' <=> Live(h)  BY <1>1 DEF Live
<1>7. Live(h) => /\ ~browser /\ reads[h] = 0 /\ relays[h].state # "connecting"
                 /\ On("drain", h)' = {} /\ relays'[h].buffer = <<>> /\ page[h] = <<>>
  <2> SUFFICES ASSUME Live(h)
               PROVE  /\ ~browser /\ reads[h] = 0 /\ relays[h].state # "connecting"
                      /\ On("drain", h)' = {} /\ relays'[h].buffer = <<>> /\ page[h] = <<>>
    OBVIOUS
  <2>1. ~browser /\ page[h] = <<>>
    BY <1>1, <1>3 DEF RelayInv, BufferInv, PageInv
  <2>2. reads[h] = 0 /\ relays[h].state # "connecting" /\ Single(stack, "drain", h)
    BY <2>1, <1>1, <1>3, OnStack DEF RelayInv, OneListener, ReadOnce, Single
  <2>3. On("drain", h)' = {}
    BY <2>2, <1>1, <1>2, PopOn, OnStack
  <2> QED BY <2>1, <2>2, <2>3, <1>1
<1>8. /\ reads' \in [Handles -> 0 .. 1]
      /\ \A g \in Handles : g # h => reads'[g] = reads[g]
      /\ Live(h) => reads'[h] = 1
      /\ ~Live(h) => reads' = reads
  BY <1>1, <1>2, <1>7
<1>9. TypeOK'
  <2>1. ASSUME NEW g \in Handles
        PROVE  /\ g > next' => ~Live(g)'
               /\ ~Live(g)' => reads'[g] = 0 /\ page'[g] = <<>>
    <3>1. Live(g)' <=> Live(g)  BY <1>1 DEF Live
    <3>2. ~Live(g) => reads'[g] = reads[g]
      BY <1>8
    <3> QED BY <3>1, <3>2, <1>1 DEF TypeOK
  <2>2. /\ relays' \in [Handles -> [state : {"gone", "connecting", "handshake", "open"},
                                  buffer : Seq(Sent)]]
        /\ browser' \in BOOLEAN /\ polling' \in BOOLEAN /\ next' \in 0 .. MaxRelays
        /\ deadline' \subseteq 1 .. next' /\ polls' \in 0 .. 1
        /\ page' \in [Handles -> Seq(PageEvents)] /\ told' \in [Handles -> Seq(Kinds)]
        /\ goodbyes' \in [Handles -> Nat] /\ sent' \in [Handles -> Nat]
    BY <1>1 DEF TypeOK
  <2> QED BY <2>1, <2>2, <1>2, <1>8 DEF TypeOK
<1>10. RelayInv(h)'
  <2>1. FailInv(h)'
    BY <1>1, <1>3, <1>4, <1>5, <1>6 DEF RelayInv, FailInv
  <2>2. BufferInv(h)' /\ PageInv(h)' /\ OneListener(h)'
    BY <1>1, <1>6, <1>7, <1>8 DEF BufferInv, PageInv, OneListener, ReadOnce
  <2>3. ToldInOrder(h)'
    BY <1>1, <1>4, <1>6 DEF RelayInv, ToldInOrder, InOrder
  <2> QED BY <2>1, <2>2, <2>3, <1>1 DEF RelayInv
<1>11. \A g \in Handles : g # h => Alone(g)
  <2>1. \A g \in Handles : g # h => Same(stack, stack', g)
    BY <1>1, <1>2, PopSame DEF Owns
  <2>2. \A g \in Handles : Polled(g) => Polled(g)'
    BY <1>1, <1>2, PopPolled, OnStack DEF Reaches
  <2> QED BY <2>1, <2>2, <1>1, <1>8 DEF Alone
<1>12. \A g \in Handles : RelayInv(g)'
  BY <1>1, <1>2, <1>10, <1>11, OthersInv
<1> QED BY <1>1, <1>9, <1>12 DEF IInv

\* A callback in the middle of a handler: an answered upgrade or a message.
\* left is what the app's handler returns to.
LEMMA CallbackStep ==
    ASSUME IInv, NEW h \in Handles, NEW left, Carries(left), NEW kind \in {"open", "message"},
           Live(h), Tell(h, kind, left),
           kind = "message" => relays[h].state = "open",
           kind = "open" => relays[h].state # "open",
           relays' \in [Handles -> Entries], page' \in [Handles -> Seq(PageEvents)],
           relays'[h].state = "open",
           \A g \in Handles : g # h => relays'[g] = relays[g] /\ page'[g] = page[g],
           Same(stack, stack', h) => BufferInv(h)' /\ PageInv(h)',
           relays[h].state # "connecting",
           UNCHANGED <<browser, next, reads, deadline, polling, polls, goodbyes, sent>>
    PROVE  IInv'
<1>1. /\ TypeOK /\ RelayInv(h) /\ polls = (IF polling THEN 1 ELSE 0)
      /\ browser' = browser /\ next' = next /\ deadline' = deadline /\ reads' = reads
      /\ polling' = polling /\ polls' = polls /\ goodbyes' = goodbyes /\ sent' = sent
  BY DEF IInv
<1>2. reads \in [Handles -> 0 .. 1] /\ next \in Nat /\ sent \in [Handles -> Nat]
  BY <1>1 DEF TypeOK
<1>3. kind \in Kinds /\ left \in Seq(Frames)
  BY DEF Kinds, Carries
<1>4. /\ told' \in [Handles -> Seq(Kinds)]
      /\ told'[h] = Append(told[h], kind)
      /\ \A g \in Handles : g # h => told'[g] = told[g]
      /\ stack' \in Seq(Frames)
      /\ \A g \in Handles : /\ Same(left, stack', g)
                            /\ PolledIn(left, g) => PolledIn(stack', g)
  BY <1>1, <1>3, TellStep
<1>5. Live(h)'  BY DEF Live
<1>6. TypeOK'
  BY <1>1, <1>2, <1>4, <1>5, StaysType
<1>7. \A g \in Handles : /\ Same(stack, stack', g)
                         /\ Live(g) /\ Polled(g) => Polled(g)'
  BY <1>1, <1>4, SameTrans, OnStack DEF Carries
<1>8. On("fail", h)' = {}
  <2>1. On("fail", h) = {}  BY <1>1 DEF RelayInv, FailInv
  <2> QED BY <2>1, <1>7, SameOn
<1>9. OneListener(h)'
  <2>1. CASE browser
    BY <2>1, <1>1, <1>7 DEF RelayInv, OneListener
  <2>2. CASE ~browser
    <3>1. \/ reads[h] = 1 /\ On("drain", h) = {}
          \/ reads[h] = 0 /\ \E i \in DOMAIN stack : On("drain", h) = {i}
      BY <2>2, <1>1 DEF RelayInv, OneListener, ReadOnce
    <3>2. \/ reads'[h] = 1 /\ On("drain", h)' = {}
          \/ reads'[h] = 0 /\ \E i \in DOMAIN stack' : On("drain", h)' = {i}
      BY <3>1, <1>1, <1>7, SameOn
    <3> QED BY <3>2, <2>2, <1>1 DEF OneListener, ReadOnce
  <2> QED BY <2>1, <2>2
<1>10. RelayInv(h)'
  <2>1. BufferInv(h)' /\ PageInv(h)'  BY <1>7
  <2> QED BY <2>1, <1>1, <1>4, <1>5, <1>8, <1>9, StaysInv
<1>11. \A g \in Handles : g # h => Alone(g)
  BY <1>1, <1>4, <1>7 DEF Alone
<1>12. \A g \in Handles : RelayInv(g)'
  BY <1>1, <1>2, <1>10, <1>11, OthersInv
<1> QED BY <1>1, <1>6, <1>12 DEF IInv

LEMMA TailOf ==
    ASSUME NEW S, NEW s \in Seq(S), s # <<>>
    PROVE  /\ Tail(s) \in Seq(S) /\ s[1] \in S /\ 1 \in DOMAIN s
           /\ \A i \in DOMAIN Tail(s) : i \in Nat /\ i + 1 \in DOMAIN s /\ i + 1 # 1
                                        /\ Tail(s)[i] = s[i + 1]
           /\ \A i \in DOMAIN s : i # 1 => /\ i - 1 \in DOMAIN Tail(s)
                                           /\ Tail(s)[i - 1] = s[i]
OBVIOUS

LEMMA DrainStep == ASSUME IInv, Drain PROVE IInv'
<1>0. /\ TypeOK /\ stack \in Seq(Frames) /\ stack # <<>> /\ stack[1].k = "drain"
      /\ stack[1] \in Frames /\ 1 \in DOMAIN stack
  BY PopSeq DEF IInv, TypeOK, Drain, Running
<1> PICK h \in Handles : h = stack[1].h
  BY <1>0, OldFrame
<1> PICK item : item = relays[h].buffer[1]
  OBVIOUS
<1>1. RelayInv(h) /\ Carries(stack) /\ On("drain", h) # {}
  BY <1>0, CarriesAll DEF IInv, On
<1>2. UNCHANGED <<browser, next, deadline, polling, polls, sent>>
  BY DEF Drain
<1>3. CASE DrainEnds(h)
  BY <1>0, <1>2, <1>3, DrainEndsStep
<1>4. ASSUME Live(h), relays[h].buffer # <<>>,
             Answered(h, item, stack) \/ TakeFrame(h, item, stack)
      PROVE  IInv'
  <2>1. /\ relays \in [Handles -> Entries] /\ sent \in [Handles -> Nat]
        /\ page \in [Handles -> Seq(PageEvents)]
        /\ relays[h].buffer \in Seq(Sent)
    BY <1>0 DEF TypeOK, Entries
  <2>2. ~browser /\ relays[h].state # "connecting" /\ page[h] = <<>>
    BY <1>1, <1>4 DEF RelayInv, BufferInv, PageInv, OneListener, ReadOnce
  <2>3. /\ item \notin Items => relays[h].state = "handshake"
        /\ item \in Items => relays[h].state = "open"
    <3>1. item \notin Items => relays[h].state = "handshake"
      BY <1>1, <1>4, <2>1, TailOf DEF RelayInv, BufferInv
    <3>2. relays[h].state = "handshake" => item \notin Items
      BY <1>1, <1>4 DEF RelayInv, BufferInv, Items
    <3>3. relays[h].state \in {"connecting", "handshake", "open"}
      BY <1>4, <2>1 DEF Live, Entries
    <3> QED BY <3>1, <3>2, <3>3, <2>2
  <2>4. /\ Tail(relays[h].buffer) \in Seq(Sent)
        /\ \A i \in DOMAIN Tail(relays[h].buffer) : Tail(relays[h].buffer)[i] \in Items
    <3> PICK b \in Seq(Sent) : b = relays[h].buffer
      BY <2>1
    <3>1. b # <<>> /\ \A i \in DOMAIN b : b[i] \notin Items => i = 1
      BY <1>1, <1>4 DEF RelayInv, BufferInv
    <3>2. /\ Tail(b) \in Seq(Sent)
          /\ \A i \in DOMAIN Tail(b) : i + 1 \in DOMAIN b /\ i + 1 # 1 /\ Tail(b)[i] = b[i + 1]
      BY <3>1, TailOf
    <3>3. \A i \in DOMAIN Tail(b) : Tail(b)[i] \in Items
      BY <3>1, <3>2
    <3> QED BY <3>2, <3>3
  <2>5. ASSUME relays'[h].buffer = Tail(relays[h].buffer), relays'[h].state = "open",
               page' = page, Same(stack, stack', h)
        PROVE  BufferInv(h)' /\ PageInv(h)'
    <3>1. ~browser' /\ On("drain", h)' # {}
      BY <2>2, <2>5, <1>1, <1>2, SameOn, SMTT(30)
    <3> QED BY <3>1, <2>2, <2>4, <2>5 DEF BufferInv, PageInv
  <2>6. CASE /\ item = "accept"
             /\ relays' = [Eaten(h) EXCEPT ![h].state = "open"]
             /\ Tell(h, "open", stack)
             /\ UNCHANGED <<reads, page, goodbyes>>
    <3>1. relays[h].state = "handshake"
      BY <2>3, <2>6 DEF Items
    <3>2. Eaten(h) \in [Handles -> Entries] /\ Eaten(h)[h].buffer = Tail(relays[h].buffer)
          /\ \A g \in Handles : g # h => Eaten(h)[g] = relays[g]
      BY <2>1, <2>4 DEF Eaten, Entries
    <3>3. /\ relays' \in [Handles -> Entries]
          /\ relays'[h].buffer = Tail(relays[h].buffer) /\ relays'[h].state = "open"
          /\ \A g \in Handles : g # h => relays'[g] = relays[g]
      BY <2>6, <3>2 DEF Entries
    <3> HIDE DEF Entries
    <3> QED BY <3>1, <3>3, <2>1, <2>5, <2>6, <1>1, <1>2, <1>4, CallbackStep
  <2>7. CASE /\ item = "text"
             /\ relays' = Eaten(h)
             /\ Tell(h, "message", stack)
             /\ UNCHANGED <<reads, page, goodbyes>>
    <3>1. relays[h].state = "open"
      BY <2>3, <2>7 DEF Items
    <3>2. /\ relays' \in [Handles -> Entries]
          /\ relays'[h].buffer = Tail(relays[h].buffer) /\ relays'[h].state = "open"
          /\ \A g \in Handles : g # h => relays'[g] = relays[g]
      BY <2>1, <2>4, <2>7, <3>1 DEF Eaten, Entries
    <3> QED BY <3>1, <3>2, <2>1, <2>5, <2>7, <1>1, <1>2, <1>4, CallbackStep
  <2>8. CASE Fail(h, stack) /\ UNCHANGED goodbyes
    BY <2>1, <2>8, <1>1, <1>2, FailStep
  <2>9. CASE goodbyes' = [goodbyes EXCEPT ![h] = @ + 1] /\ Teardown(h, stack)
    BY <2>9, <1>1, <1>2, TeardownStep
  <2> QED BY <1>4, <2>6, <2>7, <2>8, <2>9 DEF Answered, TakeFrame
<1> QED BY <1>3, <1>4 DEF Drain

\* ------------------------------------------------- the browser's WebSocket

LEMMA PageQueuesStep ==
    ASSUME IInv, NEW h \in Handles, PageQueues(h) PROVE IInv'
<1>1. /\ TypeOK /\ RelayInv(h) /\ polls = (IF polling THEN 1 ELSE 0)
      /\ browser /\ Live(h) /\ sent' = [sent EXCEPT ![h] = @ + 1]
      /\ browser' = browser /\ relays' = relays /\ next' = next /\ reads' = reads
      /\ deadline' = deadline /\ polling' = polling /\ polls' = polls /\ stack' = stack
      /\ told' = told /\ goodbyes' = goodbyes
  BY DEF IInv, PageQueues
<1>2. PICK e \in PageEvents :
        /\ (e = "open") => sent[h] = 0
        /\ (e = "message") => sent[h] > 0
        /\ page' = [page EXCEPT ![h] = Append(@, e)]
  BY DEF PageQueues
<1>3. /\ page \in [Handles -> Seq(PageEvents)] /\ sent \in [Handles -> Nat] /\ next \in Nat
  BY <1>1 DEF TypeOK
<1>4. /\ page' \in [Handles -> Seq(PageEvents)] /\ page'[h] = Append(page[h], e)
      /\ \A g \in Handles : g # h => page'[g] = page[g]
      /\ sent' \in [Handles -> Nat] /\ sent'[h] # 0
      /\ \A g \in Handles : g # h => sent'[g] = sent[g]
  BY <1>1, <1>2, <1>3
<1>5. Live(h)'  BY <1>1 DEF Live
<1>6. TypeOK'
  <2>1. /\ relays' \in [Handles -> Entries] /\ reads' \in [Handles -> 0 .. 1]
        /\ told' \in [Handles -> Seq(Kinds)] /\ stack' \in Seq(Frames)
    BY <1>1 DEF TypeOK, Entries
  <2> QED BY <2>1, <1>1, <1>4, <1>5, StaysType
<1>7. \A k \in {"drain", "fail"} : On(k, h)' = On(k, h)
  BY <1>1 DEF On
<1>8. BufferInv(h)'
  BY <1>1, <1>7 DEF RelayInv, BufferInv, Live
<1>9. PageInv(h)'
  <2>1. /\ relays[h].state \in {"handshake", "open"}
        /\ sent[h] = 0 => page[h] = <<>> /\ relays[h].state = "handshake"
        /\ sent[h] # 0 /\ relays[h].state = "handshake" =>
              page[h] # <<>> /\ page[h][1] # "message"
        /\ \A i \in DOMAIN page[h] : page[h][i] = "open" => i = 1 /\ relays[h].state = "handshake"
    BY <1>1 DEF RelayInv, PageInv
  <2>2. /\ page'[h] # <<>> /\ DOMAIN page'[h] = DOMAIN page[h] \cup {Len(page[h]) + 1}
        /\ page'[h][Len(page[h]) + 1] = e
        /\ \A i \in DOMAIN page[h] : page'[h][i] = page[h][i]
        /\ page[h] # <<>> => 1 \in DOMAIN page[h]
        /\ page[h] = <<>> => Len(page[h]) = 0
    BY <1>3, <1>4
  <2>3. relays[h].state = "handshake" => page'[h][1] # "message"
    BY <2>1, <2>2, <1>2, <1>3
  <2>4. \A i \in DOMAIN page'[h] : page'[h][i] = "open" => i = 1 /\ relays[h].state = "handshake"
    BY <2>1, <2>2, <1>2
  <2> QED BY <2>1, <2>2, <2>3, <2>4, <1>1, <1>4 DEF PageInv
<1>10. OneListener(h)'
  BY <1>1, OnStack DEF RelayInv, OneListener
<1>11. On("fail", h)' = {}
  BY <1>1, <1>7 DEF RelayInv, FailInv
<1>12. RelayInv(h)'
  BY <1>1, <1>5, <1>8, <1>9, <1>10, <1>11, StaysInv
<1>13. \A g \in Handles : g # h => Alone(g)
  BY <1>1, <1>4, SameSelf, OnStack DEF Alone
<1>14. \A g \in Handles : RelayInv(g)'
  BY <1>1, <1>3, <1>12, <1>13, OthersInv
<1> QED BY <1>1, <1>6, <1>14 DEF IInv

\* The poll that begins reaches every relay in the table.
LEMMA PollFiresStep == ASSUME IInv, PollFires PROVE IInv'
<1>1. /\ TypeOK /\ polls = (IF polling THEN 1 ELSE 0) /\ polls > 0
      /\ polls' = polls - 1 /\ polling' = FALSE
  BY DEF IInv, PollFires
<1>2. PICK list \in LiveSeqs : stack' = <<Frame("poll", 0, list, 0, FALSE)>> \o stack
  BY DEF PollFires
<1>3. /\ list \in Seq(Handles)
      /\ \A g \in Handles : Live(g) => \E j \in DOMAIN list : list[j] = g
  BY <1>1, LiveList
<1> PICK f : f = Frame("poll", 0, list, 0, FALSE)
  OBVIOUS
<1>4. f \in Frames /\ f.k = "poll" /\ f.list = list
  BY <1>3, RelayAssumption DEF Frame, Frames
<1>5. stack \in Seq(Frames) /\ stack' = <<f>> \o stack
  BY <1>1, <1>2 DEF TypeOK
<1>6. stack' \in Seq(Frames)
  BY <1>4, <1>5, PushSeq
<1>7. \A g \in Handles : Same(stack, stack', g)
  BY <1>4, <1>5, PushSame DEF Owns
<1>8. \A g \in Handles : Live(g) => Polled(g)'
  <2>1. \A g \in Handles : Live(g) => Reaches(f, g)
    BY <1>3, <1>4 DEF Reaches
  <2> QED BY <2>1, <1>4, <1>5, PushPolled, OnStack
<1>9. polling' \in BOOLEAN /\ polls' = (IF polling' THEN 1 ELSE 0)
  <2>1. polls' = 0 /\ polling' = FALSE  BY <1>1
  <2> QED BY <2>1, Zenon
<1>10. /\ UNCHANGED <<browser, relays, next, reads, page, told, goodbyes, sent>>
       /\ deadline' \subseteq deadline
  BY DEF PollFires
<1> QED BY <1>6, <1>7, <1>8, <1>9, <1>10, StackOnly

\* nxrWebEvent: one event of a relay that is in the table.
LEMMA WebEventStep ==
    ASSUME IInv, NEW h \in Handles, NEW left, Carries(left), Live(h), page[h] # <<>>,
           WebEvent(h, page[h][1], left),
           UNCHANGED <<browser, next, deadline, polling, polls, goodbyes, sent>>
    PROVE  IInv'
<1>1. /\ TypeOK /\ RelayInv(h) /\ sent \in [Handles -> Nat]
      /\ relays \in [Handles -> Entries] /\ page \in [Handles -> Seq(PageEvents)]
      /\ reads \in [Handles -> 0 .. 1]
  BY DEF IInv, TypeOK, Entries
<1>2. CASE Fail(h, left)
  BY <1>1, <1>2, FailStep
<1>3. CASE Teardown(h, left)
  BY <1>3, TeardownStep
<1>4. /\ browser /\ On("drain", h) = {} /\ relays[h].buffer = <<>>
      /\ relays[h].state \in {"handshake", "open"}
      /\ page[h][1] = "message" => relays[h].state = "open"
      /\ sent[h] # 0
      /\ \A i \in DOMAIN page[h] : page[h][i] = "open" => i = 1
  BY <1>1 DEF RelayInv, BufferInv, PageInv
<1>5. /\ Tail(page[h]) \in Seq(PageEvents)
      /\ \A i \in DOMAIN Tail(page[h]) : Tail(page[h])[i] # "open"
  BY <1>1, <1>4, TailOf
<1>6. ASSUME relays'[h].buffer = <<>>, relays'[h].state = "open", page'[h] = Tail(page[h]),
             Same(stack, stack', h)
      PROVE  BufferInv(h)' /\ PageInv(h)'
  <2>1. browser' /\ sent'[h] # 0 /\ On("drain", h)' = {}
    BY <1>4, <1>6, SameOn
  <2> QED BY <2>1, <1>5, <1>6 DEF BufferInv, PageInv
<1>7. ASSUME page' = [page EXCEPT ![h] = Tail(@)]
      PROVE  /\ page' \in [Handles -> Seq(PageEvents)] /\ page'[h] = Tail(page[h])
             /\ \A g \in Handles : g # h => page'[g] = page[g]
  BY <1>1, <1>5, <1>7
<1>8. CASE /\ page[h][1] = "open" /\ relays[h].state = "handshake"
           /\ relays' = [relays EXCEPT ![h].state = "open"]
           /\ page' = [page EXCEPT ![h] = Tail(@)]
           /\ Tell(h, "open", left)
           /\ UNCHANGED reads
  <2>1. /\ relays' \in [Handles -> Entries]
        /\ relays'[h].buffer = <<>> /\ relays'[h].state = "open"
        /\ \A g \in Handles : g # h => relays'[g] = relays[g]
    BY <1>1, <1>4, <1>8 DEF Entries
  <2> HIDE DEF Entries
  <2> QED BY <2>1, <1>6, <1>7, <1>8, CallbackStep
<1>9. CASE /\ page[h][1] = "message"
           /\ page' = [page EXCEPT ![h] = Tail(@)]
           /\ Tell(h, "message", left)
           /\ UNCHANGED <<relays, reads>>
  BY <1>1, <1>4, <1>6, <1>7, <1>9, CallbackStep
<1> QED BY <1>2, <1>3, <1>8, <1>9 DEF WebEvent

LEMMA PollStepStep == ASSUME IInv, PollStep PROVE IInv'
<1>0. /\ TypeOK /\ stack \in Seq(Frames) /\ stack # <<>> /\ stack[1].k = "poll"
      /\ stack[1] \in Frames /\ polls = (IF polling THEN 1 ELSE 0) /\ polling \in BOOLEAN
  BY PopSeq DEF IInv, TypeOK, PollStep, Running
<1> PICK f \in Frames : f = stack[1]
  BY <1>0
<1>1. /\ f.k = "poll" /\ f.list \in Seq(Handles) /\ f.n \in 0 .. PollBatch /\ f.live \in BOOLEAN
      /\ UNCHANGED <<browser, next, deadline, goodbyes, sent>>
  BY <1>0, OldFrame DEF PollStep
<1>2. CASE /\ f.list = <<>>
           /\ stack' = Tail(stack)
           /\ IF f.live THEN Arm ELSE UNCHANGED <<polling, polls>>
           /\ UNCHANGED <<relays, reads, page, told>>
  <2>1. CASE f.live
    <3>1. polling' \in BOOLEAN /\ polls' = (IF polling' THEN 1 ELSE 0) /\ polls' = 1
      BY <2>1, <1>0, <1>2 DEF Arm
    <3>2. \A g \in Handles : Polled(g)'
      BY <3>1, OnStack
    <3>3. stack' \in Seq(Frames) /\ \A g \in Handles : Same(stack, stack', g)
      BY <1>0, <1>2, PopSeq, PopSame DEF Owns
    <3> QED BY <3>1, <3>2, <3>3, <1>1, <1>2, StackOnly
  <2>2. CASE ~f.live
    <3>1. \A g \in Handles : ~Reaches(stack[1], g)
      BY <2>2, <1>2 DEF Reaches
    <3>2. Carries(stack')
      BY <3>1, <1>0, <1>2, CarriesRest
    <3> QED BY <3>2, <2>2, <1>1, <1>2, CarriesOnly
  <2> QED BY <2>1, <2>2
<1>3. ASSUME f.list # <<>> PROVE IInv'
  <2> PICK h \in Handles : h = f.list[1]
    BY <1>3, OldFrame
  <2>1. CASE /\ ~Live(h) \/ page[h] = <<>> \/ f.n = PollBatch
             /\ stack' = <<Frame("poll", 0, Tail(f.list), 0, f.live \/ Live(h))>> \o Tail(stack)
             /\ UNCHANGED <<relays, reads, page, told, polling, polls>>
    <3> PICK b \in BOOLEAN : b = (f.live \/ Live(h))
      OBVIOUS
    <3> PICK t : t = Frame("poll", 0, Tail(f.list), 0, b)
      OBVIOUS
    <3>1. t \in Frames /\ t.k = "poll" /\ t.list = Tail(f.list) /\ t.live = b
      <4>1. Tail(f.list) \in Seq(Handles)  BY <1>1, <1>3
      <4> QED BY <4>1, RelayAssumption DEF Frame, Frames
    <3>2. ASSUME NEW g \in Handles, Live(g), Reaches(f, g) PROVE Reaches(t, g)
      <4>1. CASE f.live
        BY <4>1, <3>1 DEF Reaches
      <4>2. CASE g = h
        BY <4>2, <3>1, <3>2 DEF Reaches
      <4>3. CASE ~f.live /\ g # h
        <5>1. PICK j \in DOMAIN f.list : f.list[j] = g
          BY <4>3, <3>2 DEF Reaches
        <5>2. j - 1 \in DOMAIN Tail(f.list) /\ Tail(f.list)[j - 1] = f.list[j]
          BY <5>1, <4>3, <1>1, <1>3, TailOf
        <5> QED BY <5>1, <5>2, <3>1 DEF Reaches
      <4> QED BY <4>1, <4>2, <4>3
    <3>3. Carries(stack')
      BY <3>1, <3>2, <2>1, <1>0, <1>1, CarriesTop
    <3> QED BY <3>3, <2>1, <1>1, CarriesOnly
  <2>2. CASE /\ Live(h) /\ page[h] # <<>> /\ f.n # PollBatch
             /\ WebEvent(h, page[h][1], <<[f EXCEPT !.n = @ + 1]>> \o Tail(stack))
             /\ UNCHANGED <<polling, polls>>
    <3> PICK t : t = [f EXCEPT !.n = @ + 1]
      OBVIOUS
    <3>1. t \in Frames /\ t.k = "poll" /\ t.list = f.list /\ t.live = f.live
      BY <2>2, <1>1, OldFrame
    <3>2. Carries(<<t>> \o Tail(stack))
      BY <3>1, <1>0, <1>1, CarriesTop DEF Reaches
    <3> QED BY <3>2, <2>2, <1>1, WebEventStep
  <2> QED BY <2>1, <2>2, <1>3 DEF PollStep
<1> QED BY <1>2, <1>3 DEF PollStep

\* ------------------------------------------------------------ the theorems

LEMMA InitInv == ASSUME Init PROVE IInv
<1>1. TypeOK
  <2>1. /\ Gone \in [state : {"gone", "connecting", "handshake", "open"}, buffer : Seq(Sent)]
        /\ <<>> \in Seq(PageEvents) /\ <<>> \in Seq(Kinds) /\ <<>> \in Seq(Frames)
        /\ 0 \in 0 .. MaxRelays
    BY RelayAssumption DEF Gone
  <2>2. \A h \in Handles : ~Live(h)
    BY DEF Init, Live, Gone
  <2>3. /\ relays \in [Handles -> [state : {"gone", "connecting", "handshake", "open"},
                                 buffer : Seq(Sent)]]
        /\ page \in [Handles -> Seq(PageEvents)] /\ told \in [Handles -> Seq(Kinds)]
        /\ reads \in [Handles -> 0 .. 1] /\ goodbyes \in [Handles -> Nat]
        /\ sent \in [Handles -> Nat]
    BY <2>1 DEF Init
  <2>4. \A h \in Handles : reads[h] = 0 /\ page[h] = <<>>
    BY DEF Init
  <2>5. /\ browser \in BOOLEAN /\ polling \in BOOLEAN /\ next \in 0 .. MaxRelays
        /\ deadline \subseteq 1 .. next /\ polls \in 0 .. 1 /\ stack \in Seq(Frames)
    <3>1. /\ browser \in BOOLEAN /\ polling = FALSE /\ next = 0 /\ deadline = {}
          /\ polls = 0 /\ stack = <<>>
      BY DEF Init
    <3>2. polls \in 0 .. 1 /\ next \in 0 .. MaxRelays  BY <3>1, <2>1
    <3> QED BY <2>1, <3>1, <3>2
  <2> QED BY <2>2, <2>3, <2>4, <2>5 DEF TypeOK
<1>2. ASSUME NEW h \in Handles PROVE RelayInv(h)
  <2>1. ~Live(h) /\ ~(h <= next) /\ told[h] = <<>> /\ goodbyes[h] = 0 /\ sent[h] = 0
    BY DEF Init, Live, Gone, Handles
  <2>2. On("drain", h) = {} /\ On("fail", h) = {}
    BY DEF Init, On
  <2> QED BY <2>1, <2>2 DEF RelayInv, FailInv, BufferInv, PageInv, ToldInOrder, InOrder, OneListener
<1>3. polls = (IF polling THEN 1 ELSE 0)
  BY DEF Init
<1> QED BY <1>1, <1>2, <1>3 DEF IInv

LEMMA NextInv == ASSUME IInv, [Next]_vars PROVE IInv'
<1>1. CASE UNCHANGED vars
  <2>1. Carries(stack') /\ polling' = polling
    <3>1. stack' = stack /\ polling' = polling  BY <1>1 DEF vars
    <3> QED BY <3>1, CarriesAll DEF IInv
  <2> QED BY <2>1, <1>1, CarriesOnly DEF vars
<1>2. CASE AppActs
  BY <1>2, AppConnectsStep, AppShutsDownStep, AppDisconnectsStep DEF AppActs
<1>3. CASE AppReturns
  BY <1>3, AppReturnsStep
<1>4. CASE Continues
  BY <1>4, FailTailStep, ShutdownStep, DrainStep, PollStepStep DEF Continues
<1>5. CASE Network
  BY <1>5, OpenedStep, DataStep, SocketFailsStep, SocketClosesStep, PageQueuesStep DEF Network
<1>6. CASE PollFires
  BY <1>6, PollFiresStep
<1>7. CASE \E h \in Handles : Deadline(h)
  BY <1>7, DeadlineStep
<1> QED BY <1>1, <1>2, <1>3, <1>4, <1>5, <1>6, <1>7 DEF Next

\* The strengthening that every step preserves, for every number of relays and
\* every depth of callbacks.
THEOREM RelayInductive == Spec => []IInv
<1> QED BY InitInv, NextInv, PTL DEF Spec

\* Type correctness; above all, that no read is armed and no page event queued
\* for a relay that the tables have forgotten.
THEOREM RelayTypes == Spec => []TypeOK
<1>1. IInv => TypeOK  BY DEF IInv
<1> QED BY <1>1, RelayInductive, PTL

\* The callback contract, one listener for each live relay, one close frame on
\* each socket and one timer, whatever the app does inside its callbacks.
THEOREM RelayContract == Spec => []Contract
<1>1. IInv => Contract  BY DEF IInv, RelayInv, Contract
<1> QED BY <1>1, RelayInductive, PTL
================================================================================
