------------------------------ MODULE LedgerGit ------------------------------
(***************************************************************************)
(* How ledger directories travel: every operator has a clone of one git    *)
(* repository, runs the ledger commands in it and exchanges the result     *)
(* with `tfnet ledger approve' or with git by hand (cmd/tfnet/             *)
(* cmd_ledger_simple.go, cmd_ledger.go, README.md).                        *)
(*                                                                         *)
(* A step is what one operator does between two accesses to the remote.    *)
(* Commands that overlap in one directory are the subject of LedgerDir;    *)
(* here a directory has one user and the interleaving is that of pulls,    *)
(* pushes and rebases.  Git compares files: the log is one file, each      *)
(* entry.json and each signature is one.  An entry.json is identified with *)
(* its proposal, the file of a signature with the signature.               *)
(***************************************************************************)
EXTENDS Ledger, FiniteSets, SequencesExt

CONSTANTS
    Clone,      \* the clones, one for each operator
    Identity,   \* clone |-> the subject whose keys its operator holds
    Founder,    \* the clones whose identities are in the genesis
    Unmerged,   \* log.jsonl with the conflict markers of git: it does not decode
    Uses,       \* clone |-> what its operator does or meets besides the plain
                \* approve: "no-pull", "no-finalize", "no-push", "keep-pending",
                \* "sign" (ledger sign), "offline" (a failing network)
    MaxSeq,     \* bound: no command works on a log of this length
    MaxHistory  \* bound: no command starts once this many trees are published

ASSUME IdentityAssumption ==
    /\ Identity \in [Clone -> Subject]
    /\ \A c, d \in Clone : Identity[c].node = Identity[d].node => c = d
    /\ Founder \subseteq Clone
    /\ Founder # {}
    /\ Uses \in [Clone -> SUBSET {"no-pull", "no-finalize", "no-push",
                                  "keep-pending", "sign", "offline"}]
    /\ Unmerged \notin Seq(Entry)
    /\ MaxSeq \in Nat /\ MaxHistory \in Nat

\* Proposals that differ in endpoint hints only would share an entry.json.
ASSUME OneHintAssumption ==
    \A x, y \in Subject : CanonicalSubject(x) = CanonicalSubject(y) => x = y

VARIABLES
    origin,  \* the published trees, oldest first
    at,      \* clone |-> the published tree its branch is, or is based on
    branch,  \* clone |-> the tree of its branch, which HEAD is except while
             \* a rebase is stopped
    work,    \* clone |-> the working tree
    pc       \* clone |-> what the command under way does next

vars == <<origin, at, branch, work, pc>>

-----------------------------------------------------------------------------
(* Trees *)

\* The log, and the files under pending/.
Tree == [log : Seq(Entry), files : SUBSET (Proposal \cup SigFile)]

\* A working tree may also hold the log that a stopped rebase has left.
WorkTree == [log : Seq(Entry) \cup {Unmerged}, files : SUBSET (Proposal \cup SigFile)]

Signatures(t) == t.files \cap SigFile

Proposals(t) == t.files \ SigFile

\* The files of the pending directory of hash h.
DirFiles(t, h) == {s \in Signatures(t) : s.hash = h}
                  \cup {e \in Proposals(t) : HashOf(e) = h}

Loaded(t, e) == WithApprovals(e, {s \in Signatures(t) : s.hash = HashOf(e)})

WithFiles(t, fs) == [t EXCEPT !.files = @ \cup fs]

WithLine(t, e) == [t EXCEPT !.log = Append(@, e)]

\* Fault: committing clears all of pending/.
WithoutDir_All(t, h) == [t EXCEPT !.files = {}]

WithoutDir(t, h) == [t EXCEPT !.files = @ \ DirFiles(t, h)]

-----------------------------------------------------------------------------
(* Three-way merges *)

LogConflict(base, ours, theirs) ==
    ours.log # base.log /\ theirs.log # base.log /\ ours.log # theirs.log

\* The side that has changed the log wins, and the files that a side has
\* added or removed are added and removed.
Merged(base, ours, theirs) ==
    [log   |-> IF ours.log = base.log THEN theirs.log ELSE ours.log,
     files |-> (theirs.files \cup (ours.files \ base.files))
               \ (base.files \ ours.files)]

\* The published tree that c is based on, and the latest one.
Base(c) == origin[at[c]]
Tip == Last(origin)

UpToDate(c) == at[c] = Len(origin)

\* The branch has commits that are not published.
Ahead(c) == branch[c] # Base(c)

\* git merge --ff-only leaves a file alone that is changed in the working
\* tree, or new in it, and refuses when the remote has such a file too.
Overwrites(c) ==
    \/ work[c].log # branch[c].log /\ Tip.log # branch[c].log
    \/ (work[c].files \cap Tip.files) \ branch[c].files # {}

-----------------------------------------------------------------------------
(* Getting the latest tree *)

Pc == {"idle", "work", "push", "rebase", "again", "conflict"}

Begins(c) ==
    /\ pc[c] = "idle"
    /\ Len(origin) < MaxHistory

Goto(c, l) == pc' = [pc EXCEPT ![c] = l]

\* git fetch, git merge --ff-only.  What the working tree has of its own
\* stays.  A clone that has diverged, or whose changes would be overwritten,
\* goes no further: the command dies.
Pull(c) ==
    /\ Begins(c)
    /\ IF UpToDate(c)
       THEN UNCHANGED <<at, branch, work>>
       ELSE /\ ~ Ahead(c) /\ ~ Overwrites(c)
            /\ at' = [at EXCEPT ![c] = Len(origin)]
            /\ branch' = [branch EXCEPT ![c] = Tip]
            /\ work' = [work EXCEPT ![c] = Merged(branch[c], @, Tip)]
    /\ Goto(c, "work")
    /\ UNCHANGED origin

\* approve -no-pull, and commands by hand.
NoPull(c) ==
    /\ Begins(c)
    /\ "no-pull" \in Uses[c]
    /\ Goto(c, "work")
    /\ UNCHANGED <<origin, at, branch, work>>

-----------------------------------------------------------------------------
(* The commands.  Each turns the working tree into t and then commits it. *)

\* The command ends, or dies, and leaves its changes uncommitted.
Leave(c, t) ==
    /\ work' = [work EXCEPT ![c] = t]
    /\ Goto(c, "idle")
    /\ UNCHANGED <<origin, at, branch>>

\* git add, git commit.  Without staged changes there is no push either.
GitCommit(c, t) ==
    IF t = branch[c]
    THEN Leave(c, t)
    ELSE /\ work' = [work EXCEPT ![c] = t]
         /\ branch' = [branch EXCEPT ![c] = t]
         /\ Goto(c, "push")
         /\ UNCHANGED <<origin, at>>

\* -no-push, or the process dies before git add.
Finish(c, t) ==
    \/ GitCommit(c, t)
    \/ "no-push" \in Uses[c] /\ Leave(c, t)

\* The state that the log of the working tree replays to.
Current(c) == Replay(work[c].log).state

\* Commands that replay the log die unless it replays.
Works(c) ==
    /\ pc[c] = "work"
    /\ Replay(work[c].log).ok
    /\ Len(work[c].log) < MaxSeq

NewProposal(c, op, x) ==
    [seq |-> Current(c).nextSeq, prev |-> Current(c).prevHash, op |-> op,
     subjects |-> {x}]

\* propose-self-add, git add, git commit, git push.
ProposeSelfAdd(c) ==
    LET x == Identity[c]
        e == NewProposal(c, "ADD", x)
    IN  /\ Works(c)
        /\ x.node \notin MemberIDs(Current(c))
        /\ ~ OverlayTaken(Current(c), x.ip)
        /\ Finish(c, WithFiles(work[c], {e, SignatureOf(x, HashOf(e))}))

ProposeRemove(c, m) ==
    /\ Works(c)
    /\ m \in Current(c).members
    /\ Finish(c, WithFiles(work[c], {NewProposal(c, "REMOVE", m)}))

\* Fault: a signature is filed under the name of the proposal's subject.
Sign_ForSubject(c, e) ==
    /\ "sign" \in Uses[c]
    /\ pc[c] = "work"
    /\ e \in Proposals(work[c])
    /\ \E x \in e.subjects :
          Finish(c, WithFiles(work[c],
              {[SignatureOf(Identity[c], HashOf(e)) EXCEPT !.node = x.node]}))

\* ledger sign, by whoever wants to.
Sign(c, e) ==
    /\ "sign" \in Uses[c]
    /\ pc[c] = "work"
    /\ e \in Proposals(work[c])
    /\ Finish(c, WithFiles(work[c], {SignatureOf(Identity[c], HashOf(e))}))

\* Append the entry e, which t holds with its approvals, and remove its
\* directory.  -keep-pending, a failing removal or a crash leaves that.
Finalized(c, t, e) ==
    LET u == WithLine(t, Loaded(t, e))
    IN  {WithoutDir(u, HashOf(e))} \cup (IF "keep-pending" \in Uses[c] THEN {u} ELSE {})

\* Fault: the entry is appended without being applied first.
Commit_Unchecked(c, e) ==
    /\ Works(c)
    /\ e \in Proposals(work[c])
    /\ \E t \in Finalized(c, work[c], e) : Finish(c, t)

\* ledger commit, by anybody.
Commit(c, e) ==
    /\ Works(c)
    /\ e \in Proposals(work[c])
    /\ CanApply(Current(c), Loaded(work[c], e))
    /\ \E t \in Finalized(c, work[c], e) : Finish(c, t)

\* ledger approve of e: sign unless that is done, then commit if no approval
\* is missing.  When the complete proposal does not apply, the command dies
\* with the signature written and nothing committed.
Approve(c, e) ==
    LET x == Identity[c]
        s == Current(c)
        t == WithFiles(work[c], {SignatureOf(x, HashOf(e))})
        signs == x.node \notin Approvers(Loaded(work[c], e))
        complete == MissingApprovers(s, Loaded(t, e)) = {}
    IN  /\ Works(c)
        /\ e \in Proposals(work[c])
        /\ RequirementKnown(s, e)
        /\ x.node \in RequiredApprovers(s, e)
        /\ \/ /\ ~ complete \/ "no-finalize" \in Uses[c]
              /\ IF signs THEN Finish(c, t) ELSE Leave(c, t)
           \/ /\ complete
              /\ IF CanApply(s, Loaded(t, e))
                 THEN \E u \in Finalized(c, t, e) : Finish(c, u)
                 ELSE Leave(c, t)

\* Nothing to approve, no required approver, or the operator aborts.
GiveUp(c) == pc[c] = "work" /\ Leave(c, work[c])

-----------------------------------------------------------------------------
(* Publishing *)

Publish(c) ==
    /\ origin' = IF Ahead(c) THEN Append(origin, branch[c]) ELSE origin
    /\ at' = [at EXCEPT ![c] = Len(origin')]

\* The first push that fails leads to a rebase, the second ends the command.
Rejected(c) == Goto(c, IF pc[c] = "push" THEN "rebase" ELSE "idle")

\* Fault: the push is forced.
Push_Force(c) ==
    /\ pc[c] \in {"push", "again"}
    /\ Publish(c)
    /\ Goto(c, "idle")
    /\ UNCHANGED <<branch, work>>

\* git push: the remote takes a fast-forward only.
Push(c) ==
    /\ pc[c] \in {"push", "again"}
    /\ IF UpToDate(c)
       THEN Publish(c) /\ Goto(c, "idle")
       ELSE Rejected(c) /\ UNCHANGED <<origin, at>>
    /\ UNCHANGED <<branch, work>>

\* The push does not get through, or it does and its answer is lost.
PushFails(c) ==
    /\ "offline" \in Uses[c]
    /\ pc[c] \in {"push", "again"}
    /\ \/ UNCHANGED <<origin, at>>
       \/ UpToDate(c) /\ Publish(c)
    /\ Rejected(c)
    /\ UNCHANGED <<branch, work>>

\* The process dies before its next git command, or the fetch of a rebase
\* fails.
Dies(c) ==
    /\ "offline" \in Uses[c]
    /\ pc[c] \in {"push", "rebase", "again"}
    /\ Goto(c, "idle")
    /\ UNCHANGED <<origin, at, branch, work>>

\* Fault: the rebase takes the local log when both sides have changed it.
Rebase_OwnLog(c) ==
    LET t == Merged(Base(c), branch[c], Tip) IN
    /\ pc[c] = "rebase"
    /\ at' = [at EXCEPT ![c] = Len(origin)]
    /\ branch' = [branch EXCEPT ![c] = t]
    /\ work' = [work EXCEPT ![c] = t]
    /\ Goto(c, "again")
    /\ UNCHANGED origin

\* git pull --rebase of a clean tree.  A commit with nothing left in it is
\* dropped.  A conflict stops the rebase and ends the command, which aborts
\* nothing: HEAD stays at the remote's commit, the branch where it was, and
\* the log of the working tree is left with both sides between markers.
\* Commands that replay that log die, git merge refuses unmerged files, and so
\* nobody works in the directory before the operator has ended the rebase.
Rebase(c) ==
    LET t == Merged(Base(c), branch[c], Tip) IN
    /\ pc[c] = "rebase"
    /\ IF LogConflict(Base(c), branch[c], Tip)
       THEN /\ work' = [work EXCEPT ![c] = [log |-> Unmerged, files |-> t.files]]
            /\ Goto(c, "conflict")
            /\ UNCHANGED <<at, branch>>
       ELSE /\ at' = [at EXCEPT ![c] = Len(origin)]
            /\ branch' = [branch EXCEPT ![c] = t]
            /\ work' = [work EXCEPT ![c] = t]
            /\ Goto(c, "again")
    /\ UNCHANGED origin

\* The operator makes up for a push: git pull --rebase && git push.
Retry(c) ==
    /\ pc[c] = "idle"
    /\ Ahead(c)
    /\ work[c] = branch[c]
    /\ Goto(c, "rebase")
    /\ UNCHANGED <<origin, at, branch, work>>

\* The operator ends a stopped rebase and keeps the commits: git rebase --abort.
Abort(c) ==
    /\ pc[c] = "conflict"
    /\ work' = [work EXCEPT ![c] = branch[c]]
    /\ Goto(c, "idle")
    /\ UNCHANGED <<origin, at, branch>>

\* Or gives the commits up: git rebase --abort, git fetch, git reset --hard.
Reset(c) ==
    /\ pc[c] = "conflict"
    /\ at' = [at EXCEPT ![c] = Len(origin)]
    /\ branch' = [branch EXCEPT ![c] = Tip]
    /\ work' = [work EXCEPT ![c] = Tip]
    /\ Goto(c, "idle")
    /\ UNCHANGED origin

-----------------------------------------------------------------------------

Genesis ==
    LET xs == {Identity[c] : c \in Founder}
        e == [seq |-> 0, prev |-> ZeroHash, op |-> "GENESIS", subjects |-> xs]
    IN  WithApprovals(e, {SignatureOf(x, HashOf(e)) : x \in xs})

EmptyTree == [log |-> << >>, files |-> {}]

Init ==
    /\ origin = <<WithLine(EmptyTree, Genesis)>>
    /\ at = [c \in Clone |-> 1]
    /\ branch = [c \in Clone |-> WithLine(EmptyTree, Genesis)]
    /\ work = branch
    /\ pc = [c \in Clone |-> "idle"]

Command(c) ==
    /\ pc[c] = "work"
    /\ \/ ProposeSelfAdd(c)
       \/ \E m \in Current(c).members : ProposeRemove(c, m)
       \/ \E e \in Proposals(work[c]) : Sign(c, e)
       \/ \E e \in Proposals(work[c]) : Commit(c, e)
       \/ \E e \in Proposals(work[c]) : Approve(c, e)
       \/ GiveUp(c)

Next == \E c \in Clone :
    \/ Pull(c)
    \/ NoPull(c)
    \/ Command(c)
    \/ Push(c)
    \/ PushFails(c)
    \/ Dies(c)
    \/ Rebase(c)
    \/ Retry(c)
    \/ Abort(c)
    \/ Reset(c)

Spec == Init /\ [][Next]_vars

-----------------------------------------------------------------------------
(* Properties *)

\* Where a file lies under pending/.
Path(f) == IF f \in SigFile THEN <<f.hash, f.node>> ELSE <<HashOf(f)>>

\* The type invariant: trees hold files of the types of entry.go, and no two
\* files of a tree share a path, so git may compare them one by one.
TypeOK ==
    /\ origin \in Seq(Tree) /\ origin # << >>
    /\ at \in [Clone -> DOMAIN origin]
    /\ branch \in [Clone -> Tree]
    /\ work \in [Clone -> WorkTree]
    /\ pc \in [Clone -> Pc]
    /\ \A c \in Clone : \A f, g \in work[c].files : Path(f) = Path(g) => f = g

\* The trees that are published, committed or lie in a working tree, but for
\* those of stopped rebases.
Trees ==
    {origin[i] : i \in DOMAIN origin} \cup {branch[c] : c \in Clone}
    \cup {work[c] : c \in {d \in Clone : pc[d] # "conflict"}}

\* A rebase never puts an entry behind one it was not made for: it stops
\* instead, and a log with conflict markers stays in the working tree of the
\* clone where that happened.  Every log that is committed or published, and
\* every other that is in a working tree, replays.
EveryLogReplays == \A t \in Trees : Replay(t.log).ok

\* Whoever is a member by some operator's log, published or not, has approved
\* every entry since it joined, and that log alone shows it.
MembersConsented == \A t \in Trees : Consented(t.log)

\* Operators who compare heads compare memberships: behind one head there are
\* the same members, up to endpoint hints, in whichever clone it is.
OneHeadOneMembership ==
    LET reached == {Replay(t.log).state : t \in Trees}
    IN  \A s, r \in reached :
            s.prevHash = r.prevHash => CanonicalMembers(s) = CanonicalMembers(r)

\* Of entries that several operators commit at once only one gets its
\* sequence number: no push takes a line of the published log back.
PublishedLogGrows == [][IsPrefix(Tip.log, Tip'.log)]_vars

\* The proposal that a file under pending/ belongs to.
ProposalOf(f) == IF f \in SigFile THEN f.hash ELSE HashOf(f)

Committed(t, h) == \E i \in DOMAIN t.log : HashOf(t.log[i]) = h

\* A published proposal or signature stays published until its own entry is
\* committed, whatever else is committed, merged or given up.
PublishedFilesKept ==
    [][\A f \in Tip.files :
            f \in Tip'.files \/ Committed(Tip', ProposalOf(f))]_vars

\* All operators are done and have pushed everything they have.
Quiet ==
    \A c \in Clone : pc[c] = "idle" /\ ~ Ahead(c) /\ work[c] = branch[c]

\* Approvals may run in parallel: once everybody is done no proposal is left
\* that has all its signatures and applies.
CompleteIsCommitted ==
    Quiet => \A e \in Proposals(Tip) :
                ~ CanApply(Replay(Tip.log).state, Loaded(Tip, e))
=============================================================================
