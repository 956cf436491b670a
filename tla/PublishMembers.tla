----------------------------- MODULE PublishMembers -----------------------------
(***************************************************************************)
(* The publisher (tools/publish-members.py, which the workflow             *)
(* publish-members.yml runs): how the states the suite's main held reach   *)
(* one member's own repository while people work on both sides and several *)
(* runs, automatic and manual, overlap.                                    *)
(*                                                                         *)
(* A tree is the set of patches it holds, Absent where main has no such    *)
(* directory.  The suite's main is its first-parent line: commit k has the *)
(* member's tree and the member commits whose port it brought              *)
(* (Mirror-Commit trailers).  The member repository is the first-parent    *)
(* line of its default branch: mark is the suite commit a Suite-Commit     *)
(* trailer names, 0 if there is none, and own the commits the member made  *)
(* itself that arrived with it.  Two equal commits on equal histories are  *)
(* the same commit, as they are in git.                                    *)
(*                                                                         *)
(* Members are published one after the other and one that is refused does  *)
(* not stop the next, so one stands for all.  Dry runs and --check-push    *)
(* write nothing and are left out.                                         *)
(*                                                                         *)
(* A definition marked "Planted bug" is not part of the model: it is a     *)
(* variant of the next definition that a property must refute.             *)
(***************************************************************************)
EXTENDS Naturals, Sequences, FiniteSets, SequencesExt

CONSTANTS
    Runs,         \* publisher processes
    Changes,      \* patches developed in the suite
    Strays,       \* patches committed in the member repository
    Resolutions,  \* patches that only a merge there carries
    Base,         \* what the member held when it was folded into the suite
    Absent,       \* no tree
    MaxMain,      \* bound: commits on main
    MaxOwn        \* bound: commits the member repository makes itself

VARIABLES
    main,      \* the suite's first-parent line
    repo,      \* the member repository's first-parent line
    pr,        \* the member commits an open port brings to the suite
    run,       \* the state of each publisher process
    owns       \* commits the member has made itself (bound)

vars == <<main, repo, pr, run, owns>>

Patches == Changes \cup Strays \cup Resolutions \cup {Base}

ASSUME PublishAssumption ==
    /\ MaxMain \in Nat /\ MaxMain >= 2 /\ MaxOwn \in Nat
    /\ \A tree \in SUBSET Patches : tree # Absent
    /\ Strays \cap (Changes \cup Resolutions \cup {Base}) = {}

OwnCommits == [patch : Strays, undo : BOOLEAN]

\* by: who wrote it - the publisher, the member, or the member by copying a
\* published commit with its trailer.
Commit(tree, mark, own, by) == [tree |-> tree, mark |-> mark, own |-> own, by |-> by]

Idle == [pc |-> "idle", target |-> 0, named |-> FALSE, new |-> <<>>]

Init ==
    /\ main = <<[tree |-> Absent, ports |-> {}], [tree |-> {Base}, ports |-> {}]>>
    /\ repo \in {<<>>, <<Commit({Base}, 0, <<>>, "member")>>}
    /\ pr = <<>>
    /\ run = [r \in Runs |-> Idle]
    /\ owns = 0

Tip == main[Len(main)]
Head_(line) == line[Len(line)]

\* --------------------------------------------------- reading both sides

\* watermark(): the newest published commit on the first-parent line.
Marked(line) == {i \in DOMAIN line : line[i].mark # 0}
HasWatermark(line) == Marked(line) # {}
Watermark(line) ==
    LET marked == Marked(line) IN CHOOSE i \in marked : \A j \in marked : j <= i

\* own_commits(): what the member made itself after its commit i, oldest
\* first.  A merge's own resolution is no commit, and a commit with the
\* trailer is taken for the publisher's.
OwnAfter(line, i) ==
    FlattenSeq([k \in 1 .. Len(line) - i |-> line[i + k].own])

\* ported(): every Mirror-Commit trailer reachable from suite commit k.
\* Planted bug: only that commit's own trailers are read.
PortedThere(k) == main[k].ports
Ported(k) == UNION {main[j].ports : j \in 1 .. k}

\* --------------------------------------------------------------- writing

\* The numbers of a finite set, in ascending order.
Rising(S) ==
    [i \in 1 .. Cardinality(S) |->
        CHOOSE k \in S : Cardinality({j \in S : j < k}) = i - 1]

\* replay(): the commits of main in from .. to that changed the tree, each
\* published with its own tree.
\* Planted bug: each is compared with the tree the repository had at first.
ReplayStale(from, to, cur) ==
    LET changing == Rising({k \in from .. to : main[k].tree \notin {Absent, cur}})
    IN [i \in DOMAIN changing |-> Commit(main[changing[i]].tree, changing[i], <<>>, "suite")]
Replay(from, to, cur) ==
    LET before(k) == IF k = from THEN cur ELSE main[k - 1].tree
        changing == Rising({k \in from .. to : main[k].tree \notin {Absent, before(k)}})
    IN [i \in DOMAIN changing |-> Commit(main[changing[i]].tree, changing[i], <<>>, "suite")]

\* squash(): one commit with the suite's tree at the target.
Squash(target) == <<Commit(main[target].tree, target, <<>>, "suite")>>

\* adoption_chain(): after the newest commit whose tree the repository holds.
AdoptFrom(line, target) ==
    LET held == {k \in 1 .. target : line # <<>> /\ main[k].tree = Head_(line).tree}
    IN IF held = {} THEN 1 ELSE 1 + CHOOSE k \in held : \A j \in held : j <= k

Adopt(line, target) ==
    LET made == Replay(AdoptFrom(line, target), target,
                       IF line = <<>> THEN Absent ELSE Head_(line).tree)
    IN IF made = <<>> THEN Squash(target) ELSE made

\* Why publish_one leaves a repository alone or refuses it: w is the suite
\* commit its watermark names, one the run's clone may not even have.
\* Planted bug: an older state is published over a newer one.
AheadNever(w, target) == FALSE
Ahead(w, target) == w > target
ForgedMark(line, i) == line[i].tree # main[line[i].mark].tree
Diverged(line, w) == Head_(line).tree # main[w].tree

\* Planted bug: the member's commits are not looked at.
UnportedNever(line, i, target) == {}
Unported(line, i, target) ==
    {c \in Range(OwnAfter(line, i)) : c \notin Ported(target)}

\* The commits a run adds to the line it fetched.
Extend(line, w, target) ==
    IF Diverged(line, w) THEN Squash(target)
    ELSE Replay(w + 1, target, Head_(line).tree)

\* publish_one, up to the push: the commits it makes, <<>> if none.  named
\* says that the command line names the member: after --adopt, which matters
\* without a watermark, or after --accept-divergence, which matters with one.
Plan(line, target, named) ==
    LET i == Watermark(line)
        w == line[i].mark
        refused == /\ ~named
                   /\ \/ ForgedMark(line, i)
                      \/ Diverged(line, w) /\ Unported(line, i, target) # {}
    IN
    IF HasWatermark(line)
    THEN IF Ahead(w, target) \/ refused THEN <<>> ELSE Extend(line, w, target)
    ELSE IF named THEN Adopt(line, target) ELSE <<>>

\* --------------------------------------------------------- publisher runs

\* A run publishes one state main held: the newest its clone has (and a clone
\* may be old by the time of the fetch), or an older one --commit names.  It
\* fetches the head and judges everything by what it fetched.
Begin(r, target, named) ==
    /\ run[r].pc = "idle"
    /\ target \in DOMAIN main /\ main[target].tree # Absent
    /\ \E added \in {Plan(repo, target, named)} :
          /\ added # <<>>
          /\ run' = [run EXCEPT ![r] = [pc |-> "push", target |-> target, named |-> named,
                                        new |-> repo \o added]]
    /\ UNCHANGED <<main, repo, pr, owns>>

FastForward(line, new) == IsPrefix(line, new)

\* _finish: a push is a fast-forward or refused.
Push(r) ==
    /\ run[r].pc = "push"
    /\ repo' = IF FastForward(repo, run[r].new) THEN run[r].new ELSE repo
    /\ run' = [run EXCEPT ![r] = Idle]
    /\ UNCHANGED <<main, pr, owns>>

\* The host turns the push away, or the run dies before it.
Fault(r) ==
    /\ run[r].pc = "push"
    /\ run' = [run EXCEPT ![r] = Idle]
    /\ UNCHANGED <<main, repo, pr, owns>>

\* -------------------------------------------------------------- the suite

Grow(tree, ports) ==
    /\ Len(main) < MaxMain
    /\ main' = Append(main, [tree |-> tree, ports |-> ports])

\* A change lands on main, one is reverted, or main moves elsewhere.
Develop ==
    /\ \/ \E c \in Changes \ Tip.tree : Grow(Tip.tree \cup {c}, {})
       \/ \E c \in Tip.tree \ {Base} : Grow(Tip.tree \ {c}, {})
       \/ Grow(Tip.tree, {})
    /\ UNCHANGED <<repo, pr, run, owns>>

\* port: the member's own commits the suite has not ported yet, in order, up
\* to the first conflict; with --ref, the commit of an open pull request.
Port ==
    LET own == OwnAfter(repo, Watermark(repo))
        todo == Rising({i \in DOMAIN own : own[i] \notin Ported(Len(main))})
    IN
    /\ pr = <<>>
    /\ HasWatermark(repo)
    /\ \E n \in DOMAIN todo : pr' = [i \in 1 .. n |-> own[todo[i]]]
    /\ UNCHANGED <<main, repo, run, owns>>

\* The patches the repository's line has ever carried.
Seen(line) == UNION {line[i].tree : i \in DOMAIN line}

PortRef(s) ==
    /\ pr = <<>>
    /\ s \notin Seen(repo)
    /\ [patch |-> s, undo |-> FALSE] \notin Ported(Len(main))
    /\ pr' = <<[patch |-> s, undo |-> FALSE]>>
    /\ UNCHANGED <<main, repo, run, owns>>

Apply(c, tree) == IF c.undo THEN tree \ {c.patch} ELSE tree \cup {c.patch}

\* The port's pull request reaches main, whatever main has become.
MergePort ==
    /\ pr # <<>>
    /\ Grow(FoldLeft(LAMBDA tree, c : Apply(c, tree), Tip.tree, pr), Range(pr))
    /\ pr' = <<>>
    /\ UNCHANGED <<repo, run, owns>>

\* --------------------------------------- the member repository (external)

\* A member's own commit needs room under the bound; each stray is made once.
OwnWork(line) ==
    /\ owns < MaxOwn
    /\ owns' = owns + 1
    /\ repo' = line
    /\ UNCHANGED <<main, pr, run>>

Made(line) == UNION {Range(line[i].own) : i \in DOMAIN line}
New(s) == [patch |-> s, undo |-> FALSE] \notin Made(repo)

\* A web edit or a merged pull request; it may undo an earlier one.
Stray(s) ==
    /\ repo # <<>> /\ New(s)
    /\ OwnWork(Append(repo, Commit(Head_(repo).tree \cup {s}, 0,
                                   <<[patch |-> s, undo |-> FALSE]>>, "member")))

Undo(s) ==
    /\ repo # <<>> /\ s \in Head_(repo).tree
    /\ [patch |-> s, undo |-> TRUE] \notin Made(repo)
    /\ OwnWork(Append(repo, Commit(Head_(repo).tree \ {s}, 0,
                                   <<[patch |-> s, undo |-> TRUE]>>, "member")))

\* A pull request whose merge carries a resolution of its own.
ResolvedMerge(s, m) ==
    /\ repo # <<>> /\ New(s) /\ m \notin Seen(repo)
    /\ OwnWork(Append(repo, Commit(Head_(repo).tree \cup {s, m}, 0,
                                   <<[patch |-> s, undo |-> FALSE]>>, "member")))

\* A published commit is copied by hand, trailer and all, with a patch in it.
CopyMark(s, i) ==
    /\ New(s) /\ s \notin Seen(repo)
    /\ i \in Marked(repo)
    /\ OwnWork(Append(repo, Commit(Head_(repo).tree \cup {s}, repo[i].mark, <<>>, "copy")))

\* A branch made at commit f that merged the default branch is pushed as the
\* default branch: what was published since f leaves the first-parent line.
Foxtrot(s, f) ==
    /\ New(s) /\ f \in 1 .. Len(repo) - 1
    /\ LET mine == [patch |-> s, undo |-> FALSE]
           side == SubSeq(repo, f + 1, Len(repo)) IN
       OwnWork(SubSeq(repo, 1, f)
               \o <<Commit(repo[f].tree \cup {s}, 0, <<mine>>, "member"),
                    Commit(Head_(repo).tree \cup {s}, 0,
                           FlattenSeq([k \in DOMAIN side |-> side[k].own]), "member")>>)

MemberWorks ==
    \E s \in Strays :
       \/ Stray(s)
       \/ Undo(s)
       \/ \E m \in Resolutions : ResolvedMerge(s, m)
       \/ \E i \in DOMAIN repo : CopyMark(s, i) \/ Foxtrot(s, i)

SuiteWorks ==
    \/ Develop
    \/ Port
    \/ \E s \in Strays : PortRef(s)
    \/ MergePort

\* The run the workflow starts when the gates are green names nobody.
AutoRun(r) == Begin(r, Len(main), FALSE)

\* The runs somebody starts by hand, and those whose clone is old.  Naming the
\* member is told apart only where the run would stop without it.
OtherRun(r) ==
    \E target \in DOMAIN main, named \in BOOLEAN :
       /\ named => Plan(repo, target, FALSE) = <<>>
       /\ Begin(r, target, named)

Next ==
    \/ MemberWorks
    \/ SuiteWorks
    \/ \E r \in Runs : AutoRun(r) \/ OtherRun(r) \/ Push(r) \/ Fault(r)

Spec == Init /\ [][Next]_vars

Tree == SUBSET Patches
RepoCommit == [tree : Tree, mark : 0 .. MaxMain, own : Seq(OwnCommits),
               by : {"suite", "member", "copy"}]

\* Every variable has its type, main never loses the member again, and a run
\* about to push has a state of main to publish and commits that end in it.
TypeOK ==
    /\ main \in Seq([tree : Tree \cup {Absent}, ports : SUBSET OwnCommits])
    /\ Len(main) \in 2 .. MaxMain
    /\ \A k \in 2 .. Len(main) : main[k].tree # Absent
    /\ repo \in Seq(RepoCommit)
    /\ pr \in Seq(OwnCommits)
    /\ run \in [Runs -> [pc : {"idle", "push"}, target : 0 .. MaxMain,
                         named : BOOLEAN, new : Seq(RepoCommit)]]
    /\ owns \in 0 .. MaxOwn
    /\ \A r \in Runs : run[r].pc = "push" =>
          /\ run[r].target \in DOMAIN main
          /\ Head_(run[r].new).tree = main[run[r].target].tree

\* "The states main actually held" (publish-members.py:22-27): whatever runs
\* overlap and whatever the member commits in between, each published commit
\* holds the tree of the suite commit it names, and along the repository's
\* line the suite's states only move forward unless somebody forged a mark.
MirrorsSuite ==
    \A j \in DOMAIN repo : repo[j].by = "suite" =>
       /\ repo[j].mark \in DOMAIN main
       /\ repo[j].tree = main[repo[j].mark].tree
       /\ \A i \in Marked(repo) :
             i < j /\ (\A c \in i .. j : repo[c].by # "copy") => repo[i].mark <= repo[j].mark

\* What a push does to what the member holds ("divergence is refused, not
\* overwritten", publish-members.py:46-56, and the note at 53-56 on why the
\* suite's tree is ONE commit).  The repository's history is kept.  A patch
\* the member committed disappears only if the state that is published has
\* ported it, or the owner said so; or main has ported it and a merge took the
\* commit that published it off the first-parent line, so that an old clone's
\* run goes on from an older one (OffTheLine).  No commit of a push drops a
\* patch that was there before it and is there after it, unless the suite
\* itself dropped it and took it back since the state the push continues.
Continues(r) ==
    IF HasWatermark(repo) THEN {repo[Watermark(repo)].mark}
    ELSE {k \in 1 .. run[r].target : main[k].tree = Head_(repo).tree}

OffTheLine(s) ==
    /\ HasWatermark(repo)
    /\ s \notin repo[Watermark(repo)].tree
    /\ [patch |-> s, undo |-> FALSE] \notin Range(OwnAfter(repo, Watermark(repo)))

NothingLost(r) ==
    \A s \in Strays \cap Head_(repo).tree :
       \/ s \in Head_(repo').tree
       \/ run[r].named
       \/ [patch |-> s, undo |-> FALSE] \notin Made(repo)
       \/ \E k \in DOMAIN main :
             /\ [patch |-> s, undo |-> FALSE] \in main[k].ports
             /\ k <= run[r].target \/ OffTheLine(s)

NoFlicker(r) ==
    \A x \in Len(repo) + 1 .. Len(repo'), p \in Head_(repo).tree \cap Head_(repo').tree,
       k \in Continues(r) :
       \/ p \in repo'[x].tree
       \/ p \in main[k].tree /\ \E l \in k .. run[r].target : p \notin main[l].tree

PushSafe ==
    [][\A r \in Runs :
          run[r].pc = "push" /\ run'[r].pc = "idle" /\ repo # <<>> /\ repo' # repo =>
             /\ IsPrefix(repo, repo')
             /\ NothingLost(r)
             /\ NoFlicker(r)]_vars

\* The repository holds the suite's newest state.
Published == HasWatermark(repo) /\ Head_(repo).tree = Tip.tree

\* Only a person can go on: nobody adopted the repository, its newest mark is
\* forged, or it holds commits that main has never ported.
NeedsOwner ==
    \/ ~HasWatermark(repo)
    \/ LET i == Watermark(repo) IN
       \/ repo[i].tree # main[repo[i].mark].tree
       \/ \E j \in i + 1 .. Len(repo) : \E c \in Range(repo[j].own) :
             \A k \in DOMAIN main : c \notin main[k].ports

Settled == Published \/ NeedsOwner

\* What the workflow's run on main's newest state would push now.
NewestRun == Plan(repo, Len(main), FALSE)

CatchesUp ==
    /\ NewestRun # <<>>
    /\ Head_(NewestRun).tree = Tip.tree

\* It brings what a run on the older state k would have: those commits first,
\* unless the trees diverged and one commit with the suite's tree replaces them.
Covers(k) ==
    LET older == Plan(repo, k, FALSE) IN
    older # <<>> => /\ CatchesUp
                    /\ \/ IsPrefix(older, NewestRun)
                       \/ Diverged(repo, repo[Watermark(repo)].mark)

PushesNewest(r) ==
    run[r].pc = "push" /\ run'[r].pc = "idle" /\ run[r].target = Len(main) /\ repo' # repo

\* The workflow starts one run for a green gate run, has no retry, and drops the
\* run waiting behind a newer one, which "contains everything the older one would
\* have published" (publish-members.yml:81-83; suite-gates.yml:60, "Nothing goes
\* unpublished").  So one run must be enough: whatever runs raced, failed or were
\* dropped, and whatever the member did, a run that starts on main's newest state
\* has something to push unless the member is up to date or waits for its owner,
\* it finishes the work of every run it replaced, and its push leaves the member
\* up to date.  Whether a run starts at all is left to the workflow and to people.
OneRunSettles ==
    /\ [](~Settled => CatchesUp)
    /\ [](\A k \in 2 .. Len(main) : Covers(k))
    /\ [][\A r \in Runs : PushesNewest(r) => Published']_vars
================================================================================
