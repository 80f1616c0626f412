--------------------------- MODULE LedgerGitProofs ---------------------------
(***************************************************************************)
(* Theorems about LedgerGit, for every set of clones and every bound: the  *)
(* types, that every log replays except where a rebase has stopped, that   *)
(* the published log only grows, and that no published proposal or         *)
(* signature is lost before its entry is committed.                        *)
(***************************************************************************)
EXTENDS LedgerGit, ReplayProofs, PrefixLemmas

-----------------------------------------------------------------------------
(* The inductive invariant *)

\* A signature made with the keys of one of the operators.
Made(f) == f \in SigFile /\ \E c \in Clone : f = SignatureOf(Identity[c], f.hash)

\* A file that may lie under pending/.
FileOK(f) == f \in Proposal \/ Made(f)

TreeOK(t) == t \in Tree /\ Replay(t.log).ok /\ \A f \in t.files : FileOK(f)

\* u has come out of t: nothing of the log is gone, and of the files only
\* those whose proposal has been committed.
Follows(t, u) ==
    /\ IsPrefix(t.log, u.log)
    /\ \A f \in t.files : f \in u.files \/ Committed(u, ProposalOf(f))

TreesOK ==
    /\ origin \in Seq(Tree) /\ origin # << >>
    /\ \A i \in DOMAIN origin : TreeOK(origin[i])
    /\ branch \in [Clone -> Tree] /\ work \in [Clone -> WorkTree]
    /\ \A c \in Clone : TreeOK(branch[c])

\* The working tree of a clone comes after its branch, except that a stopped
\* rebase leaves a log behind that is none.
WorkOK(b, w, l) ==
    \/ l # "conflict" /\ TreeOK(w) /\ Follows(b, w)
    \/ l = "conflict" /\ w.log = Unmerged /\ \A f \in w.files : FileOK(f)

\* Published logs only grow.
OriginGrows ==
    \A i, j \in DOMAIN origin : i <= j => IsPrefix(origin[i].log, origin[j].log)

IInv ==
    /\ TreesOK
    /\ OriginGrows
    /\ at \in [Clone -> DOMAIN origin]
    /\ pc \in [Clone -> Pc]
    /\ \A c \in Clone : Follows(Base(c), branch[c]) /\ WorkOK(branch[c], work[c], pc[c])

-----------------------------------------------------------------------------
(* Lemmas about trees that follow one another *)

\* What a log has committed a longer one has committed too.
LEMMA CommittedStays ==
    ASSUME NEW t \in Tree, NEW u \in Tree, IsPrefix(t.log, u.log), NEW h,
           Committed(t, h)
    PROVE  Committed(u, h)
  <1>1. t.log \in Seq(Entry) /\ u.log \in Seq(Entry)
    BY DEF Tree
  <1>2. PICK i \in 1 .. Len(t.log) : HashOf(t.log[i]) = h
    BY <1>1 DEF Committed
  <1>3. i \in 1 .. Len(u.log) /\ u.log[i] = t.log[i]
    BY <1>1, PrefixIs
  <1>4. QED
    BY <1>1, <1>2, <1>3 DEF Committed

LEMMA FollowsReflexive ==
    ASSUME NEW t \in Tree
    PROVE  Follows(t, t)
  BY PrefixReflexive DEF Follows, Tree

LEMMA FollowsTransitive ==
    ASSUME NEW t \in Tree, NEW u \in Tree, NEW v \in Tree,
           Follows(t, u), Follows(u, v)
    PROVE  Follows(t, v)
  <1>1. IsPrefix(t.log, v.log)
    BY PrefixTransitive DEF Follows, Tree
  <1>2. ASSUME NEW f \in t.files PROVE f \in v.files \/ Committed(v, ProposalOf(f))
    BY CommittedStays DEF Follows
  <1>3. QED
    BY <1>1, <1>2 DEF Follows

-----------------------------------------------------------------------------
(* Lemmas about trees *)

LEMMA LoadedIsEntry ==
    ASSUME NEW t, TreeOK(t), NEW e \in Proposals(t)
    PROVE  /\ e \in Proposal
           /\ Loaded(t, e) \in Entry
           /\ HashOf(Loaded(t, e)) = HashOf(e)
           /\ HashOf(e) \in Hash
  <1>1. e \in Proposal
    BY DEF TreeOK, Tree, Proposals
  <1>2. {s \in Signatures(t) : s.hash = HashOf(e)} \in SUBSET SigFile
    BY DEF Signatures
  <1>3. QED
    BY <1>1, <1>2, HashIgnoresApprovals, HashOfIsHash DEF Loaded

\* New files change nothing else.
LEMMA MoreFiles ==
    ASSUME NEW t, TreeOK(t), NEW fs, \A f \in fs : FileOK(f)
    PROVE  /\ TreeOK(WithFiles(t, fs))
           /\ Follows(t, WithFiles(t, fs))
           /\ WithFiles(t, fs).log = t.log
           /\ WithFiles(t, fs).files = t.files \cup fs
  <1> DEFINE u == WithFiles(t, fs)
  <1>1. fs \subseteq Proposal \cup SigFile
    BY DEF FileOK, Made
  <1>2. /\ u \in Tree /\ u.log = t.log
        /\ u.files = t.files \cup fs
    BY <1>1 DEF WithFiles, TreeOK, Tree
  <1>3. TreeOK(u)
    BY <1>2 DEF TreeOK
  <1>4. Follows(t, u)
    BY <1>2, PrefixReflexive DEF Follows, Tree
  <1>5. QED
    BY <1>2, <1>3, <1>4

\* A line that applies keeps the log replaying, and the directory that goes
\* with it is that of the entry in the line.
LEMMA CommittedLine ==
    ASSUME NEW c \in Clone, NEW t, TreeOK(t), NEW e \in Proposals(t),
           CanApply(Replay(t.log).state, Loaded(t, e)), NEW u \in Finalized(c, t, e)
    PROVE  TreeOK(u) /\ Follows(t, u)
  <1> DEFINE l == Loaded(t, e)
             v == WithLine(t, l)
  <1>1. t \in Tree /\ t.log \in Seq(Entry) /\ Replay(t.log).ok
    BY DEF TreeOK, Tree
  <1>2. l \in Entry /\ HashOf(l) = HashOf(e)
    BY LoadedIsEntry
  <1>3. /\ v.log = Append(t.log, l)
        /\ v.files = t.files
        /\ v \in Tree
        /\ Replay(v.log).ok
    <2>1. Append(t.log, l) \in Seq(Entry)
      BY <1>1, <1>2
    <2>2. v.log = Append(t.log, l) /\ v.files = t.files /\ v \in Tree
      BY <1>1, <2>1 DEF WithLine, Tree
    <2>3. CanApply(Replay(t.log).state, l)
      OBVIOUS
    <2> HIDE DEF l, v
    <2>4. Replay(v.log) = ReplayEntry(Replay(t.log), l)
      BY <1>1, <1>2, <2>2, ReplayAppend
    <2>5. QED
      BY <1>1, <2>2, <2>3, <2>4 DEF ReplayEntry
  <1>4. /\ u \in Tree /\ u.log = v.log
        /\ \A f \in t.files : f \in u.files \/ ProposalOf(f) = HashOf(e)
        /\ u.files \subseteq t.files
    <2>1. CASE u = v
      BY <2>1, <1>3
    <2>2. CASE u = WithoutDir(v, HashOf(e))
      <3>1. /\ u.log = v.log
            /\ u.files = t.files \ DirFiles(v, HashOf(e)) /\ u \in Tree
        BY <2>2, <1>3 DEF WithoutDir, Tree
      <3>2. \A f \in DirFiles(v, HashOf(e)) : ProposalOf(f) = HashOf(e)
        BY DEF DirFiles, ProposalOf, Signatures, Proposals
      <3>3. QED
        BY <3>1, <3>2
    <2>3. QED
      BY <2>1, <2>2 DEF Finalized
  <1>5. TreeOK(u)
    BY <1>3, <1>4 DEF TreeOK
  <1>6. IsPrefix(t.log, u.log)
    BY <1>1, <1>2, <1>3, <1>4, PrefixAppend
  <1>7. Committed(u, HashOf(e))
    <2>1. /\ Len(t.log) + 1 \in DOMAIN u.log
          /\ u.log[Len(t.log) + 1] = l
      BY <1>1, <1>2, <1>3, <1>4
    <2>2. QED
      BY <2>1, <1>2 DEF Committed
  <1>8. QED
    BY <1>4, <1>5, <1>6, <1>7 DEF Follows

\* A merge without a conflict comes after both sides, and loses nothing that
\* the remote has.
LEMMA MergeFollows ==
    ASSUME NEW base, NEW ours, NEW theirs, TreeOK(base), TreeOK(ours),
           TreeOK(theirs), Follows(base, ours), IsPrefix(base.log, theirs.log),
           ~ LogConflict(base, ours, theirs)
    PROVE  /\ TreeOK(Merged(base, ours, theirs))
           /\ Follows(theirs, Merged(base, ours, theirs))
  <1> DEFINE m == Merged(base, ours, theirs)
             l == IF ours.log = base.log THEN theirs.log ELSE ours.log
  <1>1. /\ base \in Tree /\ ours \in Tree /\ theirs \in Tree
        /\ ours.log \in Seq(Entry) /\ theirs.log \in Seq(Entry)
    BY DEF TreeOK, Tree
  <1>2. /\ m.log = l
        /\ m.files = (theirs.files \cup (ours.files \ base.files))
                     \ (base.files \ ours.files)
    BY DEF Merged
  <1>3. m = [log |-> m.log, files |-> m.files]
    BY DEF Merged
  <1>4. m \in Tree
    BY <1>1, <1>2, <1>3 DEF Tree
  <1>5. TreeOK(m)
    BY <1>2, <1>4 DEF TreeOK
  <1>6. IsPrefix(ours.log, m.log) /\ IsPrefix(theirs.log, m.log)
    <2>1. CASE ours.log = base.log
      BY <2>1, <1>1, <1>2, PrefixReflexive
    <2>2. CASE ours.log # base.log /\ theirs.log = base.log
      BY <2>2, <1>1, <1>2, PrefixReflexive DEF Follows
    <2>3. CASE ours.log # base.log /\ theirs.log = ours.log
      BY <2>3, <1>1, <1>2, PrefixReflexive
    <2>4. QED
      BY <2>1, <2>2, <2>3 DEF LogConflict
  <1>7. ASSUME NEW f \in theirs.files, f \notin m.files
        PROVE  Committed(m, ProposalOf(f))
    <2>1. f \in base.files /\ f \notin ours.files
      BY <1>2, <1>7
    <2>2. Committed(ours, ProposalOf(f))
      BY <2>1 DEF Follows
    <2>3. QED
      BY <2>2, <1>1, <1>4, <1>6, CommittedStays
  <1>8. QED
    BY <1>5, <1>6, <1>7 DEF Follows

-----------------------------------------------------------------------------
(* Steps *)

\* A step of c that publishes nothing.
LEMMA CloneStep ==
    ASSUME IInv, NEW c \in Clone, NEW k \in DOMAIN origin, NEW h, NEW w \in WorkTree,
           NEW l \in Pc,
           TreeOK(h), Follows(origin[k], h), WorkOK(h, w, l),
           origin' = origin,
           at' = [at EXCEPT ![c] = k],
           branch' = [branch EXCEPT ![c] = h],
           work' = [work EXCEPT ![c] = w],
           pc' = [pc EXCEPT ![c] = l]
    PROVE  IInv'
  <1>1. h \in Tree
    BY DEF TreeOK
  <1>2. TreesOK'
    BY <1>1 DEF IInv, TreesOK, TreeOK
  <1>3. OriginGrows' /\ at' \in [Clone -> DOMAIN origin]
    BY DEF IInv, OriginGrows
  <1>4. ASSUME NEW d \in Clone
        PROVE  Follows(Base(d)', branch'[d]) /\ WorkOK(branch'[d], work'[d], pc'[d])
    <2>1. CASE d = c
      BY <2>1, <1>1 DEF IInv, TreesOK, Base
    <2>2. CASE d # c
      <3>1. /\ Base(d)' = Base(d) /\ branch'[d] = branch[d] /\ work'[d] = work[d]
            /\ pc'[d] = pc[d]
        BY <2>2 DEF IInv, TreesOK, Base
      <3>2. QED
        BY <3>1 DEF IInv
    <2>3. QED
      BY <2>1, <2>2
  <1>5. pc' \in [Clone -> Pc]
    BY DEF IInv
  <1>6. QED
    BY <1>2, <1>3, <1>4, <1>5 DEF IInv, WorkOK, Follows, Base, FileOK, Made

\* A tree that is in order may lie in a working tree.
LEMMA WorkingTree ==
    ASSUME NEW b, NEW w, TreeOK(w), Follows(b, w), NEW l, l # "conflict"
    PROVE  w \in WorkTree /\ WorkOK(b, w, l)
  BY DEF TreeOK, Tree, WorkTree, WorkOK

\* The working tree of c after a command that publishes nothing.
LEMMA Leaving ==
    ASSUME IInv, NEW c \in Clone, pc[c] = "work", NEW t, TreeOK(t),
           Follows(work[c], t), Leave(c, t)
    PROVE  IInv'
  <1>1. /\ TreeOK(branch[c]) /\ Follows(origin[at[c]], branch[c])
        /\ at[c] \in DOMAIN origin
        /\ branch \in [Clone -> Tree]
        /\ at \in [Clone -> DOMAIN origin] /\ pc \in [Clone -> Pc]
        /\ TreeOK(work[c]) /\ Follows(branch[c], work[c])
    BY DEF IInv, TreesOK, Base, WorkOK
  <1>2. Follows(branch[c], t)
    BY <1>1, FollowsTransitive DEF TreeOK
  <1>3. /\ at' = [at EXCEPT ![c] = at[c]] /\ branch' = [branch EXCEPT ![c] = branch[c]]
        /\ work' = [work EXCEPT ![c] = t] /\ origin' = origin
        /\ pc' = [pc EXCEPT ![c] = "idle"]
    BY <1>1 DEF Leave, Goto
  <1>4. "idle" \in Pc /\ "idle" # "conflict"
    BY DEF Pc
  <1>5. t \in WorkTree /\ WorkOK(branch[c], t, "idle")
    BY <1>2, <1>4, WorkingTree
  <1>6. QED
    BY <1>1, <1>3, <1>4, <1>5, CloneStep

LEMMA Finishing ==
    ASSUME IInv, NEW c \in Clone, pc[c] = "work", NEW t, TreeOK(t),
           Follows(work[c], t), Finish(c, t)
    PROVE  IInv'
  <1>1. CASE Leave(c, t)
    BY <1>1, Leaving
  <1>2. CASE ~ Leave(c, t)
    <2>1. /\ at[c] \in DOMAIN origin /\ Follows(origin[at[c]], branch[c])
          /\ branch \in [Clone -> Tree]
          /\ at \in [Clone -> DOMAIN origin] /\ pc \in [Clone -> Pc]
          /\ TreeOK(work[c]) /\ Follows(branch[c], work[c])
      BY DEF IInv, TreesOK, Base, WorkOK
    <2>2. Follows(branch[c], t) /\ Follows(t, t)
      BY <2>1, FollowsTransitive, FollowsReflexive DEF IInv, TreesOK, TreeOK
    <2>3. Follows(origin[at[c]], t)
      BY <2>1, <2>2, FollowsTransitive DEF IInv, TreesOK, TreeOK
    <2>4. /\ at' = [at EXCEPT ![c] = at[c]] /\ branch' = [branch EXCEPT ![c] = t]
          /\ work' = [work EXCEPT ![c] = t] /\ origin' = origin
          /\ pc' = [pc EXCEPT ![c] = "push"]
      BY <1>2, <2>1 DEF Finish, GitCommit, Goto
    <2>5. "push" \in Pc /\ "push" # "conflict"
      BY DEF Pc
    <2>6. t \in WorkTree /\ WorkOK(t, t, "push")
      BY <2>2, <2>5, WorkingTree
    <2>7. QED
      BY <2>1, <2>3, <2>4, <2>5, <2>6, CloneStep
  <1>3. QED
    BY <1>1, <1>2

\* A clone that works has a tree that is in order.
LEMMA Working ==
    ASSUME IInv, NEW c \in Clone, pc[c] = "work"
    PROVE  /\ TreeOK(work[c])
           /\ Current(c) \in State
           /\ Identity[c] \in Subject
           /\ \A h \in Hash : FileOK(SignatureOf(Identity[c], h))
  <1>1. TreeOK(work[c]) /\ Identity[c] \in Subject
    BY IdentityAssumption DEF IInv, WorkOK
  <1>2. Current(c) \in State
    <2>1. work[c].log \in Seq(Entry)
      BY <1>1 DEF TreeOK, Tree
    <2>2. Replay(work[c].log) \in ReplayResult
      BY <2>1, ReplayWellFormed
    <2>3. QED
      BY <2>2 DEF ReplayResult, Current
  <1>3. ASSUME NEW h \in Hash PROVE FileOK(SignatureOf(Identity[c], h))
    <2>1. SignatureOf(Identity[c], h) \in SigFile
      BY <1>1, SignatureIsSigFile
    <2>2. SignatureOf(Identity[c], h).hash = h
      BY DEF SignatureOf
    <2>3. QED
      BY <2>1, <2>2 DEF FileOK, Made
  <1>4. QED
    BY <1>1, <1>2, <1>3

LEMMA NewProposalIsProposal ==
    ASSUME IInv, NEW c \in Clone, pc[c] = "work", NEW op \in Op, NEW x \in Subject
    PROVE  NewProposal(c, op, x) \in Proposal
  BY Working DEF NewProposal, Proposal, State

LEMMA CommandStep ==
    ASSUME IInv, NEW c \in Clone, Command(c)
    PROVE  IInv'
  <1>1. /\ TreeOK(work[c]) /\ Current(c) \in State /\ Identity[c] \in Subject
        /\ \A h \in Hash : FileOK(SignatureOf(Identity[c], h))
        /\ pc[c] = "work"
    BY Working DEF Command
  <1>2. CASE ProposeSelfAdd(c)
    <2> DEFINE e == NewProposal(c, "ADD", Identity[c])
               fs == {e, SignatureOf(Identity[c], HashOf(e))}
    <2>1. e \in Proposal
      BY <1>1, NewProposalIsProposal DEF Op
    <2>2. \A f \in fs : FileOK(f)
      BY <1>1, <2>1, HashOfIsHash DEF FileOK
    <2>3. Finish(c, WithFiles(work[c], fs))
      BY <1>2 DEF ProposeSelfAdd
    <2>4. QED
      BY <1>1, <2>2, <2>3, MoreFiles, Finishing
  <1>3. ASSUME NEW m \in Current(c).members, ProposeRemove(c, m) PROVE IInv'
    <2> DEFINE e == NewProposal(c, "REMOVE", m)
    <2>1. e \in Proposal
      BY <1>1, NewProposalIsProposal DEF Op, State
    <2>2. \A f \in {e} : FileOK(f)
      BY <2>1 DEF FileOK
    <2>3. Finish(c, WithFiles(work[c], {e}))
      BY <1>3 DEF ProposeRemove
    <2>4. QED
      BY <1>1, <2>2, <2>3, MoreFiles, Finishing
  <1>4. ASSUME NEW e \in Proposals(work[c]), Sign(c, e) PROVE IInv'
    <2> DEFINE fs == {SignatureOf(Identity[c], HashOf(e))}
    <2>1. \A f \in fs : FileOK(f)
      BY <1>1, LoadedIsEntry
    <2>2. Finish(c, WithFiles(work[c], fs))
      BY <1>4 DEF Sign
    <2>3. QED
      BY <1>1, <2>1, <2>2, MoreFiles, Finishing
  <1>5. ASSUME NEW e \in Proposals(work[c]), Commit(c, e) PROVE IInv'
    <2>1. PICK t \in Finalized(c, work[c], e) : Finish(c, t)
      BY <1>5 DEF Commit
    <2>2. CanApply(Replay(work[c].log).state, Loaded(work[c], e))
      BY <1>5 DEF Commit, Current
    <2>3. TreeOK(t) /\ Follows(work[c], t)
      BY <1>1, <2>2, CommittedLine
    <2>4. QED
      BY <1>1, <2>1, <2>3, Finishing
  <1>6. ASSUME NEW e \in Proposals(work[c]), Approve(c, e) PROVE IInv'
    <2> DEFINE fs == {SignatureOf(Identity[c], HashOf(e))}
               t == WithFiles(work[c], fs)
    <2>1. \A f \in fs : FileOK(f)
      BY <1>1, LoadedIsEntry
    <2>2. /\ TreeOK(t) /\ Follows(work[c], t) /\ t.log = work[c].log
          /\ t.files = work[c].files \cup fs
      BY <1>1, <2>1, MoreFiles
    <2>3. e \in Proposals(t)
      BY <2>2 DEF Proposals
    <2> HIDE DEF t
    <2>4. \/ Finish(c, t)
          \/ Leave(c, t)
          \/ CanApply(Replay(t.log).state, Loaded(t, e))
             /\ \E u \in Finalized(c, t, e) : Finish(c, u)
      BY <1>6, <2>2 DEF Approve, Current, t
    <2>5. CASE Finish(c, t) \/ Leave(c, t)
      BY <1>1, <2>2, <2>5, Finishing, Leaving
    <2>6. ASSUME CanApply(Replay(t.log).state, Loaded(t, e)),
                 NEW u \in Finalized(c, t, e), Finish(c, u)
          PROVE  IInv'
      <3>1. TreeOK(u) /\ Follows(t, u)
        BY <2>2, <2>3, <2>6, CommittedLine
      <3>2. Follows(work[c], u)
        BY <1>1, <2>2, <3>1, FollowsTransitive DEF TreeOK
      <3>3. QED
        BY <1>1, <2>6, <3>1, <3>2, Finishing
    <2>7. QED
      BY <2>4, <2>5, <2>6
  <1>7. CASE GiveUp(c)
    BY <1>1, <1>7, FollowsReflexive, Leaving DEF GiveUp, TreeOK
  <1>8. QED
    BY <1>2, <1>3, <1>4, <1>5, <1>6, <1>7 DEF Command

\* The latest published tree comes after every other.
LEMMA TipIsLatest ==
    ASSUME IInv
    PROVE  /\ Len(origin) \in DOMAIN origin /\ Tip = origin[Len(origin)]
           /\ TreeOK(Tip)
           /\ \A c \in Clone : IsPrefix(Base(c).log, Tip.log)
  <1>1. Len(origin) \in DOMAIN origin /\ Tip = origin[Len(origin)]
    <2>1. Len(origin) # 0 /\ Len(origin) \in Nat
      BY DEF IInv, TreesOK
    <2>2. QED
      BY <2>1 DEF IInv, TreesOK, Tip, Last
  <1>2. TreeOK(Tip)
    BY <1>1 DEF IInv, TreesOK
  <1>3. ASSUME NEW c \in Clone PROVE IsPrefix(Base(c).log, Tip.log)
    <2>1. at[c] \in DOMAIN origin /\ at[c] <= Len(origin)
      BY DEF IInv, TreesOK
    <2>2. QED
      BY <1>1, <2>1 DEF IInv, OriginGrows, Base
  <1>4. QED
    BY <1>1, <1>2, <1>3

\* A step that changes no clone's trees, outside a stopped rebase.
LEMMA ProgressOnly ==
    ASSUME IInv, NEW c \in Clone, pc[c] # "conflict", NEW l \in Pc, l # "conflict",
           UNCHANGED <<branch, work>>, pc' = [pc EXCEPT ![c] = l]
    PROVE  /\ pc' \in [Clone -> Pc]
           /\ \A d \in Clone : WorkOK(branch[d], work[d], pc'[d])
  <1>1. pc \in [Clone -> Pc] /\ \A d \in Clone : WorkOK(branch[d], work[d], pc[d])
    BY DEF IInv
  <1>2. ASSUME NEW d \in Clone PROVE WorkOK(branch[d], work[d], pc'[d])
    BY <1>1 DEF WorkOK
  <1>3. QED
    BY <1>1, <1>2

\* A clone may publish when it is based on the latest tree.
LEMMA Publishing ==
    ASSUME IInv, NEW c \in Clone, UpToDate(c), Publish(c), pc[c] # "conflict",
           NEW l \in Pc, l # "conflict",
           UNCHANGED <<branch, work>>, pc' = [pc EXCEPT ![c] = l]
    PROVE  IInv' /\ Follows(Tip, Tip')
  <1>1. /\ origin \in Seq(Tree) /\ origin # << >> /\ at \in [Clone -> DOMAIN origin]
        /\ \A d \in Clone : TreeOK(branch[d]) /\ WorkOK(branch[d], work[d], pc'[d])
        /\ Follows(Tip, branch[c]) /\ pc' \in [Clone -> Pc]
        /\ Tip = origin[Len(origin)] /\ TreeOK(Tip)
    <2>1. Base(c) = Tip
      BY TipIsLatest DEF Base, UpToDate
    <2>2. pc' \in [Clone -> Pc] /\ \A d \in Clone : WorkOK(branch[d], work[d], pc'[d])
      BY ProgressOnly
    <2>3. QED
      BY <2>1, <2>2, TipIsLatest DEF IInv, TreesOK
  <1>2. CASE ~ Ahead(c)
    <2>1. origin' = origin /\ at' = at
      BY <1>1, <1>2 DEF Publish, UpToDate
    <2>2. IInv'
      BY <1>1, <2>1 DEF IInv, TreesOK, OriginGrows, Base
    <2>3. Follows(Tip, Tip')
      BY <1>1, <2>1, FollowsReflexive DEF Tip, TreeOK
    <2>4. QED
      BY <2>2, <2>3
  <1>3. CASE Ahead(c)
    <2> DEFINE n == Len(origin)
    <2>1. origin' = Append(origin, branch[c])
      BY <1>3 DEF Publish
    <2>2. /\ n \in Nat \ {0} /\ branch[c] \in Tree
          /\ DOMAIN origin = 1 .. n
      BY <1>1 DEF TreeOK
    <2>3. /\ origin' \in Seq(Tree) /\ Len(origin') = n + 1
          /\ DOMAIN origin' = 1 .. n + 1
          /\ \A i \in 1 .. n : origin'[i] = origin[i]
          /\ origin'[n + 1] = branch[c]
      BY <1>1, <2>1, <2>2
    <2>4. at' = [at EXCEPT ![c] = n + 1]
      BY <2>3 DEF Publish
    <2>5. TreesOK'
      <3>1. origin' # << >>
        BY <2>2, <2>3
      <3>2. \A i \in 1 .. n + 1 : TreeOK(origin'[i])
        <4>1. \A i \in 1 .. n : TreeOK(origin[i])
          BY <2>2 DEF IInv, TreesOK
        <4>2. \A i \in 1 .. n + 1 : i \in 1 .. n \/ i = n + 1
          BY <2>2
        <4>3. QED
          BY <4>1, <4>2, <1>1, <2>3
      <3>3. QED
        BY <1>1, <2>3, <3>1, <3>2 DEF IInv, TreesOK
    <2>6. OriginGrows'
      <3>1. SUFFICES ASSUME NEW i \in 1 .. n + 1, NEW j \in 1 .. n + 1, i <= j
                     PROVE  IsPrefix(origin'[i].log, origin'[j].log)
        BY <2>3 DEF OriginGrows
      <3>2. CASE j \in 1 .. n
        <4>1. i \in 1 .. n
          BY <2>2, <3>1, <3>2
        <4>2. IsPrefix(origin[i].log, origin[j].log)
          BY <2>2, <3>1, <3>2, <4>1 DEF IInv, OriginGrows
        <4>3. QED
          BY <2>3, <3>2, <4>1, <4>2
      <3>3. CASE j = n + 1 /\ i \in 1 .. n
        <4>1. IsPrefix(origin[i].log, origin[n].log)
          BY <2>2, <3>3 DEF IInv, OriginGrows
        <4>2. IsPrefix(origin[n].log, branch[c].log)
          BY <1>1 DEF Follows
        <4>3. /\ origin[i].log \in Seq(Entry) /\ origin[n].log \in Seq(Entry)
              /\ branch[c].log \in Seq(Entry)
          <5>1. origin[i] \in Tree /\ origin[n] \in Tree
            BY <1>1, <2>2, <3>3
          <5>2. QED
            BY <2>2, <5>1 DEF Tree
        <4>4. QED
          BY <2>3, <3>3, <4>1, <4>2, <4>3, PrefixTransitive
      <3>4. CASE i = n + 1 /\ j = n + 1
        <4>1. branch[c].log \in Seq(Entry)
          BY <2>2 DEF Tree
        <4>2. QED
          BY <2>3, <3>4, <4>1, PrefixReflexive
      <3>5. QED
        BY <2>2, <3>1, <3>2, <3>3, <3>4
    <2>7. at' \in [Clone -> DOMAIN origin']
      BY <1>1, <2>2, <2>3, <2>4
    <2>8. ASSUME NEW d \in Clone
          PROVE  Follows(Base(d)', branch'[d])
      <3>1. CASE d = c
        <4>1. Base(d)' = branch[c]
          BY <1>1, <2>3, <2>4, <3>1 DEF Base
        <4>2. QED
          BY <3>1, <4>1, <2>2, FollowsReflexive DEF IInv
      <3>2. CASE d # c
        <4>1. at'[d] = at[d] /\ at[d] \in 1 .. n
          BY <1>1, <2>2, <2>4, <3>2
        <4>2. Base(d)' = Base(d)
          BY <2>3, <4>1 DEF Base
        <4>3. QED
          BY <4>2 DEF IInv
      <3>3. QED
        BY <3>1, <3>2
    <2>9. Tip' = branch[c]
      BY <2>3 DEF Tip, Last
    <2>10. QED
      BY <1>1, <2>5, <2>6, <2>7, <2>8, <2>9 DEF IInv
  <1>4. QED
    BY <1>2, <1>3

\* A step of one clone keeps the invariant, and what it publishes comes after
\* what was published.
LEMMA StepOK ==
    ASSUME IInv, NEW c \in Clone,
           \/ Pull(c) \/ NoPull(c) \/ Command(c) \/ Push(c) \/ PushFails(c)
           \/ Dies(c) \/ Rebase(c) \/ Retry(c) \/ Abort(c) \/ Reset(c)
    PROVE  IInv' /\ (origin' = origin \/ Follows(Tip, Tip'))
  <1>1. /\ TreeOK(branch[c]) /\ branch[c] \in Tree /\ work[c] \in WorkTree
        /\ Follows(Base(c), branch[c])
        /\ pc[c] # "conflict" => TreeOK(work[c]) /\ Follows(branch[c], work[c])
        /\ TreeOK(Base(c)) /\ at[c] \in DOMAIN origin
        /\ at \in [Clone -> DOMAIN origin] /\ pc \in [Clone -> Pc]
        /\ branch \in [Clone -> Tree] /\ work \in [Clone -> WorkTree]
    BY DEF IInv, TreesOK, Base, WorkOK
  <1>2. /\ Len(origin) \in DOMAIN origin /\ Tip = origin[Len(origin)] /\ TreeOK(Tip)
        /\ IsPrefix(Base(c).log, Tip.log)
    BY TipIsLatest
  <1>3. ASSUME UNCHANGED <<origin, at, branch, work>>, pc[c] # "conflict",
               NEW l \in Pc, l # "conflict", pc' = [pc EXCEPT ![c] = l]
        PROVE  IInv'
    <2>1. pc' \in [Clone -> Pc] /\ \A d \in Clone : WorkOK(branch[d], work[d], pc'[d])
      BY <1>3, ProgressOnly
    <2>2. QED
      BY <1>3, <2>1 DEF IInv, TreesOK, OriginGrows, Base
  <1>4. CASE Pull(c)
    <2>1. CASE UpToDate(c)
      BY <1>1, <1>3, <1>4, <2>1 DEF Pull, Begins, Goto, Pc
    <2>2. CASE ~ UpToDate(c)
      <3> DEFINE w == Merged(branch[c], work[c], Tip)
      <3>1. /\ ~ Ahead(c) /\ ~ Overwrites(c)
            /\ at' = [at EXCEPT ![c] = Len(origin)]
            /\ branch' = [branch EXCEPT ![c] = Tip]
            /\ work' = [work EXCEPT ![c] = w]
            /\ origin' = origin /\ pc[c] # "conflict"
            /\ "work" \in Pc /\ pc' = [pc EXCEPT ![c] = "work"]
        BY <1>1, <1>4, <2>2 DEF Pull, Begins, Goto, Pc
      <3>2. ~ LogConflict(branch[c], work[c], Tip)
        BY <3>1 DEF Overwrites, LogConflict
      <3>3. IsPrefix(branch[c].log, Tip.log)
        BY <1>2, <3>1 DEF Ahead
      <3>4. TreeOK(w) /\ Follows(Tip, w)
        BY <1>1, <1>2, <3>1, <3>2, <3>3, MergeFollows
      <3>5. Follows(origin[Len(origin)], Tip)
        BY <1>2, FollowsReflexive DEF TreeOK
      <3>6. w \in WorkTree /\ WorkOK(Tip, w, "work")
        BY <3>4, WorkingTree
      <3>7. QED
        BY <1>2, <3>1, <3>5, <3>6, CloneStep
    <2>3. QED
      BY <1>4, <2>1, <2>2 DEF Pull
  <1>5. CASE NoPull(c)
    BY <1>1, <1>3, <1>5 DEF NoPull, Begins, Goto, Pc
  <1>6. CASE Command(c)
    <2>1. origin' = origin
      BY <1>6 DEF Command, ProposeSelfAdd, ProposeRemove, Sign, Commit, Approve,
                  GiveUp, Finish, GitCommit, Leave
    <2>2. QED
      BY <1>6, <2>1, CommandStep
  <1>7. CASE Push(c)
    <2>1. CASE UpToDate(c)
      BY <1>1, <1>7, <2>1, Publishing DEF Push, Goto, Pc
    <2>2. CASE ~ UpToDate(c)
      BY <1>1, <1>3, <1>7, <2>2 DEF Push, Rejected, Goto, Pc
    <2>3. QED
      BY <2>1, <2>2
  <1>8. CASE PushFails(c)
    <2>1. PICK l \in Pc : l # "conflict" /\ pc' = [pc EXCEPT ![c] = l]
      BY <1>8 DEF PushFails, Rejected, Goto, Pc
    <2>2. CASE UNCHANGED <<origin, at>>
      BY <1>3, <1>8, <2>1, <2>2 DEF PushFails
    <2>3. CASE UpToDate(c) /\ Publish(c)
      BY <1>8, <2>1, <2>3, Publishing DEF PushFails
    <2>4. QED
      BY <1>8, <2>2, <2>3 DEF PushFails
  <1>9. CASE Dies(c)
    BY <1>1, <1>3, <1>9 DEF Dies, Goto, Pc
  <1>10. CASE Rebase(c)
    <2> DEFINE t == Merged(Base(c), branch[c], Tip)
    <2>1. CASE LogConflict(Base(c), branch[c], Tip)
      <3> DEFINE w == [log |-> Unmerged, files |-> t.files]
      <3>1. /\ at' = [at EXCEPT ![c] = at[c]]
            /\ branch' = [branch EXCEPT ![c] = branch[c]]
            /\ work' = [work EXCEPT ![c] = w]
            /\ origin' = origin
            /\ "conflict" \in Pc /\ pc' = [pc EXCEPT ![c] = "conflict"]
        BY <1>1, <1>10, <2>1 DEF Rebase, Goto, Pc
      <3>2. \A f \in t.files : FileOK(f)
        BY <1>1, <1>2 DEF Merged, TreeOK
      <3>3. w \in WorkTree
        BY <3>2 DEF WorkTree, FileOK, Made
      <3>4. WorkOK(branch[c], w, "conflict")
        BY <3>2 DEF WorkOK
      <3>5. QED
        BY <1>1, <3>1, <3>3, <3>4, CloneStep DEF Base
    <2>2. CASE ~ LogConflict(Base(c), branch[c], Tip)
      <3>1. /\ at' = [at EXCEPT ![c] = Len(origin)]
            /\ branch' = [branch EXCEPT ![c] = t]
            /\ work' = [work EXCEPT ![c] = t]
            /\ origin' = origin
            /\ "again" \in Pc /\ pc' = [pc EXCEPT ![c] = "again"]
        BY <1>1, <1>10, <2>2 DEF Rebase, Goto, Pc
      <3>2. TreeOK(t) /\ Follows(origin[Len(origin)], t)
        BY <1>1, <1>2, <2>2, MergeFollows
      <3>3. Follows(t, t)
        BY <3>2, FollowsReflexive DEF TreeOK
      <3>4. t \in WorkTree /\ WorkOK(t, t, "again")
        BY <3>2, <3>3, WorkingTree
      <3>5. QED
        BY <1>2, <3>1, <3>2, <3>4, CloneStep
    <2>3. QED
      BY <2>1, <2>2
  <1>11. CASE Retry(c)
    BY <1>1, <1>3, <1>11 DEF Retry, Goto, Pc
  <1>12. CASE Reset(c)
    <2>1. Follows(Tip, Tip)
      BY <1>2, FollowsReflexive DEF TreeOK
    <2>2. /\ at' = [at EXCEPT ![c] = Len(origin)]
          /\ branch' = [branch EXCEPT ![c] = Tip]
          /\ work' = [work EXCEPT ![c] = Tip]
          /\ origin' = origin
          /\ "idle" \in Pc /\ pc' = [pc EXCEPT ![c] = "idle"]
      BY <1>1, <1>12 DEF Reset, Goto, Pc
    <2>3. Tip \in WorkTree /\ WorkOK(Tip, Tip, "idle")
      BY <1>2, <2>1, WorkingTree
    <2>4. QED
      BY <1>2, <2>1, <2>2, <2>3, CloneStep
  <1>13. CASE Abort(c)
    <2>1. Follows(branch[c], branch[c])
      BY <1>1, FollowsReflexive
    <2>2. /\ at' = [at EXCEPT ![c] = at[c]]
          /\ branch' = [branch EXCEPT ![c] = branch[c]]
          /\ work' = [work EXCEPT ![c] = branch[c]]
          /\ origin' = origin
          /\ "idle" \in Pc /\ pc' = [pc EXCEPT ![c] = "idle"]
      BY <1>1, <1>13 DEF Abort, Goto, Pc
    <2>3. branch[c] \in WorkTree /\ WorkOK(branch[c], branch[c], "idle")
      BY <1>1, <2>1, WorkingTree
    <2>4. QED
      BY <1>1, <2>2, <2>3, CloneStep DEF Base
  <1>14. QED
    BY <1>4, <1>5, <1>6, <1>7, <1>8, <1>9, <1>10, <1>11, <1>12, <1>13

\* The genesis that all founders have signed applies to the empty state.
LEMMA GenesisApplies ==
    /\ Genesis \in Entry
    /\ CanApply(EmptyState, Genesis)
    /\ EmptyState \in State
  <1> DEFINE xs == {Identity[c] : c \in Founder}
             e == [seq |-> 0, prev |-> ZeroHash, op |-> "GENESIS", subjects |-> xs]
             sigs == {SignatureOf(x, HashOf(e)) : x \in xs}
  <1>1. << >> \in Seq(Payload)
    OBVIOUS
  <1>2. EmptyState \in State
    BY <1>1 DEF EmptyState, State, ZeroHash, Hash
  <1>3. xs \subseteq Subject /\ xs # {}
    BY IdentityAssumption
  <1>4. e \in Proposal
    BY <1>1, <1>3 DEF Proposal, ZeroHash, Hash, Op
  <1>5. sigs \in SUBSET SigFile
    BY <1>3, <1>4, HashOfIsHash, SignatureIsSigFile
  <1>6. Genesis = WithApprovals(e, sigs)
    BY DEF Genesis
  <1>7. /\ Genesis \in Entry /\ Genesis.approvals = sigs /\ HashOf(Genesis) = HashOf(e)
        /\ Genesis.seq = 0 /\ Genesis.prev = ZeroHash /\ Genesis.op = "GENESIS"
        /\ Genesis.subjects = xs
    BY <1>4, <1>5, <1>6, HashIgnoresApprovals DEF WithApprovals
  <1>8. \A x, y \in xs : x.node = y.node => x = y
    BY IdentityAssumption
  <1> HIDE DEF xs, e
  <1>9. RequirementKnown(EmptyState, Genesis) /\ Hashable(Genesis)
    BY <1>3, <1>7, <1>8 DEF RequirementKnown, EmptyState, Hashable
  <1>10. MissingApprovers(EmptyState, Genesis) = {}
    <2>1. RequiredApprovers(EmptyState, Genesis) = {x.node : x \in xs}
      BY <1>7 DEF RequiredApprovers, Targets
    <2>2. \A x \in xs : SignatureOf(x, HashOf(e)).node = x.node
      BY DEF SignatureOf
    <2>3. \A x \in xs : x.node \in Approvers(Genesis)
      BY <1>7, <2>2 DEF Approvers
    <2>4. QED
      BY <2>1, <2>3 DEF MissingApprovers
  <1>11. ApprovalsVerify(EmptyState, Genesis)
    BY <1>7 DEF ApprovalsVerify, Signatories
  <1>12. NoDuplicateMember(EmptyState, Genesis)
    BY DEF NoDuplicateMember, MemberIDs, EmptyState
  <1>13. QED
    BY <1>2, <1>7, <1>9, <1>10, <1>11, <1>12 DEF CanApply, EmptyState

LEMMA InitIsOK == Init => IInv
  <1> SUFFICES ASSUME Init PROVE IInv
    OBVIOUS
  <1> DEFINE t == WithLine(EmptyTree, Genesis)
  <1>1. t.log = <<Genesis>> /\ t.files = {} /\ Replay(t.log).ok /\ t \in Tree
    <2>1. << >> \in Seq(Entry) /\ Append(<< >>, Genesis) = <<Genesis>>
          /\ <<Genesis>> \in Seq(Entry)
      BY GenesisApplies
    <2>2. t = [log |-> <<Genesis>>, files |-> {}]
      <3>1. EmptyTree.log = << >> /\ t = [EmptyTree EXCEPT !.log = Append(<< >>, Genesis)]
        BY DEF WithLine, EmptyTree
      <3>2. t = [EmptyTree EXCEPT !.log = <<Genesis>>]
        BY <2>1, <3>1, Zenon
      <3> HIDE DEF t
      <3>3. QED
        BY <3>2 DEF EmptyTree
    <2>3. Replay(<<Genesis>>) = ReplayEntry(EmptyReplay, Genesis)
      BY <2>1, GenesisApplies, ReplayAppend, ReplayEmpty
    <2>4. ReplayEntry(EmptyReplay, Genesis).ok
      BY GenesisApplies DEF ReplayEntry, EmptyReplay
    <2>5. QED
      BY <2>1, <2>2, <2>3, <2>4 DEF Tree
  <1>2. TreeOK(t) /\ Follows(t, t)
    BY <1>1, FollowsReflexive DEF TreeOK
  <1> HIDE DEF t
  <1>3. origin = <<t>> /\ DOMAIN origin = {1} /\ origin[1] = t /\ origin \in Seq(Tree)
    BY <1>1 DEF Init, t
  <1>4. /\ at = [c \in Clone |-> 1] /\ branch = [c \in Clone |-> t] /\ work = branch
        /\ pc = [c \in Clone |-> "idle"]
    BY DEF Init, t
  <1>5. t \in WorkTree /\ WorkOK(t, t, "idle")
    BY <1>2, WorkingTree
  <1>6. TreesOK
    BY <1>1, <1>2, <1>3, <1>4, <1>5 DEF TreesOK
  <1>7. OriginGrows
    BY <1>2, <1>3 DEF OriginGrows, Follows
  <1>8. QED
    BY <1>2, <1>3, <1>4, <1>5, <1>6, <1>7 DEF IInv, Base, Pc

LEMMA NextIsOK == IInv /\ [Next]_vars => IInv'
  <1> SUFFICES ASSUME IInv, [Next]_vars PROVE IInv'
    OBVIOUS
  <1>1. CASE Next
    BY <1>1, StepOK DEF Next
  <1>2. CASE UNCHANGED vars
    BY <1>2 DEF vars, IInv, TreesOK, OriginGrows, Base
  <1>3. QED
    BY <1>1, <1>2

LEMMA Invariance == Spec => []IInv
  <1>1. QED
    BY InitIsOK, NextIsOK, PTL DEF Spec

-----------------------------------------------------------------------------
(* Theorems *)

\* Without two endpoint hints for one subject the payload names the subjects.
LEMMA SubjectsOfPayload ==
    ASSUME NEW xs \in SUBSET Subject, NEW ys \in SUBSET Subject,
           {CanonicalSubject(x) : x \in xs} \subseteq {CanonicalSubject(y) : y \in ys}
    PROVE  xs \subseteq ys
  <1> SUFFICES ASSUME NEW x \in xs PROVE x \in ys
    OBVIOUS
  <1>1. PICK y \in ys : CanonicalSubject(x) = CanonicalSubject(y)
    OBVIOUS
  <1>2. x = y
    BY <1>1, OneHintAssumption
  <1>3. QED
    BY <1>2

\* Two files of a tree with the same path are the same: no operator's
\* signature takes another's file name (Pending.SigFilePath), and two
\* proposals never share a directory (Pending.DirFor).
LEMMA PathsDiffer ==
    ASSUME NEW f, NEW g, FileOK(f), FileOK(g), Path(f) = Path(g)
    PROVE  f = g
  <1>1. FileOK(f) /\ FileOK(g)
    OBVIOUS
  <1>2. CASE f \in SigFile /\ g \in SigFile
    <2>1. Made(f) /\ Made(g)
      BY <1>1, <1>2 DEF FileOK, Proposal, SigFile
    <2>2. f.hash = g.hash /\ f.node = g.node
      BY <1>2 DEF Path
    <2>3. PICK c \in Clone : f = SignatureOf(Identity[c], f.hash)
      BY <2>1 DEF Made
    <2>4. PICK d \in Clone : g = SignatureOf(Identity[d], g.hash)
      BY <2>1 DEF Made
    <2>5. Identity[c].node = Identity[d].node
      BY <2>2, <2>3, <2>4 DEF SignatureOf
    <2>6. c = d
      BY <2>5, IdentityAssumption
    <2>7. QED
      BY <2>2, <2>3, <2>4, <2>6
  <1>3. CASE f \notin SigFile /\ g \notin SigFile
    <2>1. f \in Proposal /\ g \in Proposal
      BY <1>1, <1>3 DEF FileOK, Made
    <2>2. HashOf(f) = HashOf(g)
      BY <1>3 DEF Path
    <2>3. /\ f.prev \in Seq(Payload) /\ g.prev \in Seq(Payload)
          /\ CanonicalPayload(f) \in Payload /\ CanonicalPayload(g) \in Payload
      BY <2>1 DEF Proposal, Hash, CanonicalPayload, Payload
    <2>4. f.prev = g.prev /\ CanonicalPayload(f) = CanonicalPayload(g)
      BY <2>2, <2>3, AppendInjective DEF HashOf
    <2>5. /\ f.seq = g.seq /\ f.op = g.op
          /\ {CanonicalSubject(x) : x \in f.subjects}
               = {CanonicalSubject(x) : x \in g.subjects}
      BY <2>4 DEF CanonicalPayload
    <2>6. f.subjects \subseteq Subject /\ g.subjects \subseteq Subject
      BY <2>1 DEF Proposal
    <2>7. f.subjects = g.subjects
      <3> DEFINE xs == f.subjects
                 ys == g.subjects
      <3>1. xs \in SUBSET Subject /\ ys \in SUBSET Subject
        BY <2>6
      <3>2. {CanonicalSubject(x) : x \in xs} = {CanonicalSubject(y) : y \in ys}
        BY <2>5
      <3> HIDE DEF xs, ys
      <3>3. xs \subseteq ys /\ ys \subseteq xs
        BY <3>1, <3>2, SubjectsOfPayload
      <3>4. QED
        BY <3>3 DEF xs, ys
    <2>8. QED
      BY <2>1, <2>4, <2>5, <2>7 DEF Proposal
  <1>4. CASE f \in SigFile <=> g \notin SigFile
    <2>1. Len(<<f.hash, f.node>>) = 2 /\ Len(<<g.hash, g.node>>) = 2
          /\ Len(<<HashOf(f)>>) = 1 /\ Len(<<HashOf(g)>>) = 1
      OBVIOUS
    <2>2. Len(Path(f)) # Len(Path(g))
      BY <1>4, <2>1 DEF Path
    <2>3. QED
      BY <2>2
  <1>5. QED
    BY <1>2, <1>3, <1>4

\* Every variable keeps its type, and git sees no two files as one: whatever
\* is signed, committed, merged and given up in whatever clone.
THEOREM TypeCorrect == Spec => []TypeOK
  <1>1. IInv => TypeOK
    <2> SUFFICES ASSUME IInv PROVE TypeOK
      OBVIOUS
    <2>1. \A c \in Clone : \A f, g \in work[c].files : Path(f) = Path(g) => f = g
      BY PathsDiffer DEF IInv, WorkOK, TreeOK
    <2>2. QED
      BY <2>1 DEF IInv, TreesOK, TypeOK
  <1>2. QED
    BY <1>1, Invariance, PTL

\* The trees of the properties are in order.
LEMMA TreesAreOK ==
    ASSUME IInv, NEW t \in Trees
    PROVE  TreeOK(t)
  BY DEF IInv, TreesOK, WorkOK, Trees

\* Every log that is published or committed replays, and every log of a
\* working tree except where a rebase has stopped at a conflict:
\* gitCommitAndPush rebases no entry onto a log it was not made for.
THEOREM LogsReplay == Spec => []EveryLogReplays
  <1>1. IInv => EveryLogReplays
    BY TreesAreOK DEF EveryLogReplays, TreeOK
  <1>2. QED
    BY <1>1, Invariance, PTL

\* N-of-N across clones: by whichever operator's log somebody is a member,
\* that log holds the member's approval of every entry since it joined
\* (State.Apply, and the merges of gitCommitAndPush).
THEOREM MembersConsentEverywhere == Spec => []MembersConsented
  <1>1. IInv => MembersConsented
    <2> SUFFICES ASSUME IInv, NEW t \in Trees PROVE Consented(t.log)
      BY DEF MembersConsented
    <2>1. t \in Tree
      BY TreesAreOK DEF TreeOK
    <2>2. QED
      BY <2>1, ReplayShowsConsent DEF Tree
  <1>2. QED
    BY <1>1, Invariance, PTL

\* One head, one membership: the prev_hash chain that State.Apply checks tells
\* the logs of all clones apart, however their branches have forked.
THEOREM HeadsTellMembershipsApart == Spec => []OneHeadOneMembership
  <1>1. IInv => OneHeadOneMembership
    <2> SUFFICES ASSUME IInv, NEW t \in Trees, NEW u \in Trees,
                        Replay(t.log).state.prevHash = Replay(u.log).state.prevHash
                 PROVE  CanonicalMembers(Replay(t.log).state)
                            = CanonicalMembers(Replay(u.log).state)
      BY DEF OneHeadOneMembership
    <2>1. t \in Tree /\ u \in Tree /\ Replay(t.log).ok /\ Replay(u.log).ok
      BY TreesAreOK DEF TreeOK
    <2>2. QED
      BY <2>1, HeadDeterminesLog DEF Tree
  <1>2. QED
    BY <1>1, Invariance, PTL

\* What is published comes after what was published.
LEMMA NextPublishes ==
    ASSUME IInv, [Next]_vars
    PROVE  Follows(Tip, Tip')
  <1>1. TreeOK(Tip)
    BY TipIsLatest
  <1>2. CASE origin' = origin
    BY <1>1, <1>2, FollowsReflexive DEF Tip, TreeOK
  <1>3. CASE origin' # origin
    BY <1>3, StepOK DEF Next, vars
  <1>4. QED
    BY <1>2, <1>3

\* However many operators commit, push, lose an answer or rebase at once, no
\* line of the published log is taken back (gitCommitAndPush).
THEOREM PublishedLogOnlyGrows == Spec => PublishedLogGrows
  <1>1. IInv /\ [Next]_vars => [IsPrefix(Tip.log, Tip'.log)]_vars
    BY NextPublishes DEF Follows
  <1>2. QED
    BY <1>1, Invariance, PTL DEF Spec, PublishedLogGrows

\* A published proposal or signature stays published until its entry is
\* committed (Pending.Remove, and the merges of gitCommitAndPush).
THEOREM PublishedFilesStay == Spec => PublishedFilesKept
  <1>1. IInv /\ [Next]_vars
          => [\A f \in Tip.files :
                f \in Tip'.files \/ Committed(Tip', ProposalOf(f))]_vars
    BY NextPublishes DEF Follows
  <1>2. QED
    BY <1>1, Invariance, PTL DEF Spec, PublishedFilesKept
=============================================================================
