------------------------------ MODULE SyncProofs ------------------------------
(***************************************************************************)
(* Theorems about Sync, for every number of syncs and approves, whatever   *)
(* is published and whatever fails: types, and the origin of what the      *)
(* overlay runs.  For a checkout that one sync has for itself also that    *)
(* hooks see verified ledgers only, that the overlay never goes back and   *)
(* keeps up with HEAD, and that the diffs given to hooks add up.           *)
(***************************************************************************)
EXTENDS Sync, PrefixLemmas

-----------------------------------------------------------------------------
(* The inductive invariant *)

BranchOK(b) == b \in Seq(Published) /\ b # << >>

\* The members of a published ledger that start accepts.
Configured(o) ==
    /\ o \in Overlay
    /\ \E l \in Published : Usable(l) /\ o.members = l.members

\* What is read of a ledger is published; what tfnet start has read is usable.
IInv ==
    /\ BranchOK(origin) /\ BranchOK(tracking) /\ BranchOK(head)
    /\ edit \in Published \cup {NoEdit}
    /\ conflict \in BOOLEAN
    /\ Configured(applied)
    /\ told \in SUBSET Node
    /\ run \in [Syncer -> Run]
    /\ \A p \in Syncer : run[p].pc = "start" => Configured(run[p].snap)
    /\ approval \in [Approver -> Approval]

\* Any ledger in the working tree that verifies is a published one.
LEMMA WorkTreeIs ==
    ASSUME IInv
    PROVE  /\ WorkTree \in Contents
           /\ WorkTree.verifies => WorkTree \in Published
  <1>1. Last(head) \in Published
    BY DEF IInv, BranchOK, Last
  <1>2. Undecodable \in Contents /\ ~ Undecodable.verifies
    BY DEF Undecodable, Contents
  <1>3. CASE conflict
    BY <1>2, <1>3 DEF WorkTree
  <1>4. CASE ~ conflict
    BY <1>1, <1>4, PublishedAssumption DEF WorkTree, IInv
  <1>5. QED
    BY <1>3, <1>4

-----------------------------------------------------------------------------
(* The steps of a sync *)

\* Nothing but the run of p moves.
OnlyRuns(p) ==
    /\ run' \in [Syncer -> Run]
    /\ \A q \in Syncer \ {p} : run'[q] = run[q]

LEMMA Stepping ==
    ASSUME IInv, NEW p \in Syncer, NEW r \in Run, Step(p, r)
    PROVE  OnlyRuns(p) /\ run'[p] = r
  BY DEF IInv, Step, OnlyRuns

LEMMA EndedIs ==
    ASSUME NEW x \in {"none", "no-change", "updated", "failed"}
    PROVE  /\ Ended(x) \in Run
           /\ Ended(x) = [pc |-> "idle", old |-> << >>, new |-> << >>, before |-> {},
                          after |-> {}, snap |-> Nothing, exit |-> x]
  BY DEF Ended, Run, Branch, Overlay, Nothing

LEMMA Ending ==
    ASSUME IInv, NEW p \in Syncer,
           NEW x \in {"none", "no-change", "updated", "failed"}, End(p, x)
    PROVE  OnlyRuns(p) /\ run'[p].pc = "idle"
  <1>1. OnlyRuns(p) /\ run'[p] = Ended(x)
    BY EndedIs, Stepping DEF End
  <1>2. QED
    BY <1>1, EndedIs

\* A run that goes on, with one more thing remembered.
Working == {"before", "fetch", "merge", "compare", "verify", "diff", "hooks", "start"}

LEMMA GoingOn ==
    ASSUME NEW r \in Run, NEW pc \in Working
    PROVE  [r EXCEPT !.pc = pc] \in Run /\ [r EXCEPT !.pc = pc].pc = pc
  BY DEF Run, Working

LEMMA RememberingHead ==
    ASSUME NEW r \in Run, NEW pc \in Working, NEW b \in Branch
    PROVE  /\ [r EXCEPT !.pc = pc, !.old = b] \in Run
           /\ [r EXCEPT !.pc = pc, !.new = b] \in Run
           /\ [r EXCEPT !.pc = pc, !.old = b].pc = pc
           /\ [r EXCEPT !.pc = pc, !.new = b].pc = pc
  <1> DEFINE d == [r EXCEPT !.pc = pc]
  <1>1. d \in Run /\ d.pc = pc
    BY GoingOn
  <1> HIDE DEF d
  <1>2. /\ [d EXCEPT !.old = b] \in Run /\ [d EXCEPT !.old = b].pc = pc
        /\ [d EXCEPT !.new = b] \in Run /\ [d EXCEPT !.new = b].pc = pc
    BY <1>1 DEF Run
  <1>3. /\ [r EXCEPT !.pc = pc, !.old = b] = [d EXCEPT !.old = b]
        /\ [r EXCEPT !.pc = pc, !.new = b] = [d EXCEPT !.new = b]
    BY DEF d
  <1>4. QED
    BY <1>2, <1>3

LEMMA RememberingMembers ==
    ASSUME NEW r \in Run, NEW pc \in Working, NEW ms \in SUBSET Node
    PROVE  /\ [r EXCEPT !.pc = pc, !.before = ms] \in Run
           /\ [r EXCEPT !.pc = pc, !.after = ms] \in Run
           /\ [r EXCEPT !.pc = pc, !.before = ms].pc = pc
           /\ [r EXCEPT !.pc = pc, !.after = ms].pc = pc
  <1> DEFINE d == [r EXCEPT !.pc = pc]
  <1>1. d \in Run /\ d.pc = pc
    BY GoingOn
  <1> HIDE DEF d
  <1>2. /\ [d EXCEPT !.before = ms] \in Run /\ [d EXCEPT !.before = ms].pc = pc
        /\ [d EXCEPT !.after = ms] \in Run /\ [d EXCEPT !.after = ms].pc = pc
    BY <1>1 DEF Run
  <1>3. /\ [r EXCEPT !.pc = pc, !.before = ms] = [d EXCEPT !.before = ms]
        /\ [r EXCEPT !.pc = pc, !.after = ms] = [d EXCEPT !.after = ms]
    BY DEF d
  <1>4. QED
    BY <1>2, <1>3

LEMMA RememberingSnap ==
    ASSUME NEW r \in Run, NEW pc \in Working, NEW o \in Overlay
    PROVE  /\ [r EXCEPT !.pc = pc, !.snap = o] \in Run
           /\ [r EXCEPT !.pc = pc, !.snap = o].pc = pc
           /\ [r EXCEPT !.pc = pc, !.snap = o].snap = o
  <1> DEFINE d == [r EXCEPT !.pc = pc]
  <1>1. d \in Run /\ d.pc = pc
    BY GoingOn
  <1> HIDE DEF d
  <1>2. /\ [d EXCEPT !.snap = o] \in Run /\ [d EXCEPT !.snap = o].pc = pc
        /\ [d EXCEPT !.snap = o].snap = o
    BY <1>1 DEF Run
  <1>3. [r EXCEPT !.pc = pc, !.snap = o] = [d EXCEPT !.snap = o]
    BY DEF d
  <1>4. QED
    BY <1>2, <1>3

\* A step of the sync p, and what it leaves to show.
LEMMA RunKeeps ==
    ASSUME IInv, NEW p \in Syncer, OnlyRuns(p),
           run'[p].pc = "start" => Configured(run'[p].snap),
           UNCHANGED <<origin, edit, conflict, approval>>,
           BranchOK(tracking'), BranchOK(head'), Configured(applied'),
           told' \in SUBSET Node
    PROVE  IInv'
  BY DEF IInv, OnlyRuns

\* A sync comes to the diff and the hooks with a ledger that verifies.
PassesOn(p) ==
    run'[p].pc \in {"diff", "hooks"} =>
        SkipVerify \/ WorkTree.verifies \/ run[p].pc = "diff"

\* Steps that only read, or that end the sync.
LEMMA ReadingSteps ==
    ASSUME IInv, NEW p \in Syncer,
           \/ ReadHead(p) \/ ReadLedger(p) \/ FetchFails(p) \/ MergeRefused(p)
           \/ CompareHead(p) \/ Verify(p) \/ Diff(p) \/ SyncCrash(p)
    PROVE  IInv' /\ OnlyRuns(p) /\ run'[p].pc # "start" /\ PassesOn(p)
           /\ UNCHANGED <<origin, tracking, head, edit, conflict, applied, told, approval>>
  <1>1. UNCHANGED <<origin, tracking, head, edit, conflict, applied, told, approval>>
    BY DEF ReadHead, ReadLedger, FetchFails, MergeRefused, CompareHead, Verify, Diff,
           SyncCrash, repo
  <1>2. /\ run[p] \in Run /\ head \in Branch /\ WorkTree.members \in SUBSET Node
    <2>1. Seq(Published) \subseteq Seq(Contents)
      BY PublishedAssumption
    <2>2. QED
      BY <2>1, WorkTreeIs DEF IInv, BranchOK, Branch, Contents
  <1>3. OnlyRuns(p) /\ run'[p].pc # "start" /\ PassesOn(p)
    <2>1. CASE ReadHead(p)
      <3> DEFINE r == [Ended("none") EXCEPT !.pc = "before", !.old = head]
      <3>1. Step(p, r)
        BY <2>1 DEF ReadHead
      <3>2. r \in Run /\ r.pc = "before"
        BY <1>2, EndedIs, RememberingHead DEF Working
      <3> HIDE DEF r
      <3>3. QED
        BY <3>1, <3>2, Stepping DEF PassesOn
    <2>2. CASE ReadLedger(p)
      <3> DEFINE r == [run[p] EXCEPT !.pc = "fetch", !.before = WorkTree.members]
      <3>1. Step(p, r)
        BY <2>2 DEF ReadLedger
      <3>2. r \in Run /\ r.pc = "fetch"
        BY <1>2, RememberingMembers DEF Working
      <3> HIDE DEF r
      <3>3. QED
        BY <3>1, <3>2, Stepping DEF PassesOn
    <2>3. CASE FetchFails(p) \/ MergeRefused(p) \/ SyncCrash(p)
      <3>1. End(p, "failed")
        BY <2>3 DEF FetchFails, MergeRefused, SyncCrash
      <3>2. QED
        BY <3>1, Ending DEF PassesOn
    <2>4. CASE CompareHead(p)
      <3> DEFINE r == [run[p] EXCEPT !.pc = "verify", !.new = head]
      <3>1. End(p, "no-change") \/ Step(p, r)
        BY <2>4 DEF CompareHead
      <3>2. r \in Run /\ r.pc = "verify"
        BY <1>2, RememberingHead DEF Working
      <3> HIDE DEF r
      <3>3. CASE End(p, "no-change")
        BY <3>3, Ending DEF PassesOn
      <3>4. CASE Step(p, r)
        BY <3>2, <3>4, Stepping DEF PassesOn
      <3>5. QED
        BY <3>1, <3>3, <3>4
    <2>5. CASE Verify(p)
      <3> DEFINE r == [run[p] EXCEPT !.pc = "diff"]
      <3>1. \/ End(p, "failed")
            \/ Step(p, r) /\ (SkipVerify \/ WorkTree.verifies)
        BY <2>5 DEF Verify
      <3>2. r \in Run /\ r.pc = "diff"
        BY <1>2, GoingOn DEF Working
      <3> HIDE DEF r
      <3>3. CASE End(p, "failed")
        BY <3>3, Ending DEF PassesOn
      <3>4. CASE Step(p, r) /\ (SkipVerify \/ WorkTree.verifies)
        BY <3>2, <3>4, Stepping DEF PassesOn
      <3>5. QED
        BY <3>1, <3>3, <3>4
    <2>6. CASE Diff(p)
      <3> DEFINE r == [run[p] EXCEPT !.pc = "hooks", !.after = WorkTree.members]
      <3>1. Step(p, r) /\ run[p].pc = "diff"
        BY <2>6 DEF Diff
      <3>2. r \in Run /\ r.pc = "hooks"
        BY <1>2, RememberingMembers DEF Working
      <3> HIDE DEF r
      <3>3. QED
        BY <3>1, <3>2, Stepping DEF PassesOn
    <2>7. QED
      BY <2>1, <2>2, <2>3, <2>4, <2>5, <2>6
  <1>4. QED
    BY <1>1, <1>3, RunKeeps DEF IInv

LEMMA FetchStep ==
    ASSUME IInv, NEW p \in Syncer, Fetch(p)
    PROVE  IInv' /\ OnlyRuns(p) /\ run'[p].pc = "merge"
           /\ UNCHANGED <<origin, head, edit, conflict, applied, told, approval>>
  <1>1. /\ tracking' = origin /\ Step(p, [run[p] EXCEPT !.pc = "merge"])
        /\ UNCHANGED <<origin, head, edit, conflict, applied, told, approval>>
    BY DEF Fetch
  <1>2. run[p] \in Run
    BY DEF IInv
  <1>3. OnlyRuns(p) /\ run'[p].pc = "merge"
    <2> DEFINE r == [run[p] EXCEPT !.pc = "merge"]
    <2>1. r \in Run /\ r.pc = "merge"
      BY <1>2, GoingOn DEF Working
    <2>2. Step(p, r)
      BY <1>1
    <2> HIDE DEF r
    <2>3. QED
      BY <2>1, <2>2, Stepping
  <1>4. QED
    BY <1>1, <1>3, RunKeeps DEF IInv

LEMMA MergeStep ==
    ASSUME IInv, NEW p \in Syncer, Merge(p)
    PROVE  IInv' /\ OnlyRuns(p) /\ run'[p].pc = "compare"
           /\ UNCHANGED <<origin, tracking, edit, conflict, applied, told, approval>>
  <1>1. /\ FastForward /\ Step(p, [run[p] EXCEPT !.pc = "compare"])
        /\ UNCHANGED <<origin, tracking, edit, conflict, applied, told, approval>>
    BY DEF Merge
  <1>2. run[p] \in Run
    BY DEF IInv
  <1>3. OnlyRuns(p) /\ run'[p].pc = "compare"
    <2> DEFINE r == [run[p] EXCEPT !.pc = "compare"]
    <2>1. r \in Run /\ r.pc = "compare"
      BY <1>2, GoingOn DEF Working
    <2>2. Step(p, r)
      BY <1>1
    <2> HIDE DEF r
    <2>3. QED
      BY <2>1, <2>2, Stepping
  <1>4. BranchOK(head')
    BY <1>1 DEF IInv, FastForward
  <1>5. QED
    BY <1>1, <1>3, <1>4, RunKeeps DEF IInv

\* tfnet start goes on with a usable ledger only.
LEMMA RunHooksStep ==
    ASSUME IInv, NEW p \in Syncer, RunHooks(p)
    PROVE  /\ IInv' /\ OnlyRuns(p)
           /\ run'[p].pc = "start" => WorkTree.verifies /\ run'[p].snap.at = head
           /\ run'[p].pc = "start" =>
                  run'[p].snap = [members |-> WorkTree.members, at |-> head]
           /\ run'[p].pc = "idle" => ~ Startable(WorkTree)
           /\ run'[p].pc \in {"idle", "start"}
           /\ UNCHANGED <<origin, tracking, head, edit, conflict, applied, approval>>
  <1> DEFINE o == [members |-> WorkTree.members, at |-> head]
  <1>1. UNCHANGED <<origin, tracking, head, edit, conflict, applied, approval>>
    BY DEF RunHooks, repo
  <1>2. run[p] \in Run /\ << >> \in Branch
    BY DEF IInv, Branch
  <1>3. told' \in SUBSET Node
    <2>1. run[p].after \in SUBSET Node /\ run[p].before \in SUBSET Node
      BY <1>2 DEF Run
    <2>2. told' = (told \cup Added(run[p])) \ Removed(run[p])
      BY DEF RunHooks
    <2>3. QED
      BY <2>1, <2>2 DEF IInv, Added, Removed
  <1>4. o \in Overlay
    <2>1. Seq(Published) \subseteq Seq(Contents)
      BY PublishedAssumption
    <2>2. QED
      BY <2>1, WorkTreeIs DEF IInv, BranchOK, Branch, Overlay, Contents
  <1>5. CASE Startable(WorkTree)
    <2>1. Usable(WorkTree) /\ WorkTree.verifies /\ WorkTree \in Published
      BY <1>5, WorkTreeIs DEF Startable, Usable
    <2>2. o.members = WorkTree.members
      OBVIOUS
    <2>3. Configured(o)
      BY <1>4, <2>1, <2>2 DEF Configured
    <2>4. Step(p, [run[p] EXCEPT !.pc = "start", !.snap = o])
      BY <1>5 DEF RunHooks
    <2> HIDE DEF o
    <2>5. OnlyRuns(p) /\ run'[p].pc = "start" /\ run'[p].snap = o
      <3> DEFINE r == [run[p] EXCEPT !.pc = "start", !.snap = o]
      <3>1. r \in Run /\ r.pc = "start" /\ r.snap = o
        BY <1>2, <1>4, RememberingSnap DEF Working
      <3> HIDE DEF r
      <3>2. Step(p, r)
        BY <2>4 DEF r
      <3>3. QED
        BY <3>1, <3>2, Stepping
    <2>6. IInv'
      BY <1>1, <1>3, <2>3, <2>5, RunKeeps DEF IInv
    <2>7. QED
      BY <1>1, <2>1, <2>5, <2>6 DEF o
  <1>6. CASE ~ Startable(WorkTree)
    <2>1. OnlyRuns(p) /\ run'[p].pc = "idle"
      BY <1>6, Ending DEF RunHooks
    <2>2. IInv'
      BY <1>1, <1>3, <2>1, RunKeeps DEF IInv
    <2>3. QED
      BY <1>1, <1>6, <2>1, <2>2
  <1>7. QED
    BY <1>5, <1>6

LEMMA StartSteps ==
    ASSUME IInv, NEW p \in Syncer, StartApplies(p) \/ StartFails(p)
    PROVE  /\ IInv' /\ OnlyRuns(p) /\ run'[p].pc = "idle" /\ run[p].pc = "start"
           /\ applied' \in {applied, run[p].snap}
           /\ UNCHANGED <<origin, tracking, head, edit, conflict, told, approval>>
  <1>1. /\ run[p].pc = "start" /\ applied' \in {applied, run[p].snap} /\ End(p, "updated")
        /\ UNCHANGED <<origin, tracking, head, edit, conflict, told, approval>>
    BY DEF StartApplies, StartFails, repo
  <1>2. OnlyRuns(p) /\ run'[p].pc = "idle"
    BY <1>1, Ending
  <1>3. Configured(applied')
    BY <1>1 DEF IInv
  <1>4. QED
    BY <1>1, <1>2, <1>3, RunKeeps DEF IInv

-----------------------------------------------------------------------------
(* The steps of an approve, and of the other hosts *)

LEMMA ThenKeeps ==
    ASSUME IInv, NEW q \in Approver, NEW pc \in Approval, Then(q, pc)
    PROVE  approval' \in [Approver -> Approval]
  BY DEF IInv, Then

\* A step of an approve, and what it leaves to show.
LEMMA ApproveKeeps ==
    ASSUME IInv, approval' \in [Approver -> Approval],
           UNCHANGED <<applied, told, run>>,
           BranchOK(origin'), BranchOK(tracking'), BranchOK(head'),
           edit' \in Published \cup {NoEdit}, conflict' \in BOOLEAN
    PROVE  IInv'
  BY DEF IInv

LEMMA RebaseStep ==
    ASSUME IInv, NEW q \in Approver, ApproveRebases(q)
    PROVE  IInv' /\ UNCHANGED origin
  <1>1. UNCHANGED <<origin, applied, told, run>>
    BY DEF ApproveRebases
  <1>2. CASE edit # NoEdit
    <2>1. Then(q, "idle") /\ UNCHANGED <<tracking, head, edit, conflict>>
      BY <1>2 DEF ApproveRebases, repo
    <2>2. approval' \in [Approver -> Approval]
      BY <2>1, ThenKeeps DEF Approval
    <2>3. QED
      BY <1>1, <2>1, <2>2, ApproveKeeps DEF IInv
  <1>3. CASE edit = NoEdit
    <2>1. PICK n \in DOMAIN head :
              \/ head' = Rebased(n, origin) /\ UNCHANGED conflict /\ Then(q, "again")
              \/ head' = origin /\ conflict' = TRUE /\ Then(q, "idle")
      BY <1>3 DEF ApproveRebases
    <2>2. tracking' = origin /\ UNCHANGED edit
      BY <1>3 DEF ApproveRebases
    <2>3. approval' \in [Approver -> Approval]
      BY <2>1, ThenKeeps DEF Approval
    <2>4. BranchOK(Rebased(n, origin))
      <3> DEFINE own == SubSeq(head, n + 1, Len(head))
                 new == [i \in DOMAIN own |->
                            IF Last(head) = head[n] THEN Last(origin) ELSE own[i]]
      <3>1. own \in Seq(Published)
        BY DEF IInv, BranchOK
      <3>2. Last(origin) \in Published
        BY DEF IInv, BranchOK, Last
      <3> HIDE DEF own
      <3>3. new \in Seq(Published)
        <4>1. DOMAIN own = 1 .. Len(own) /\ Len(own) \in Nat
          BY <3>1
        <4>2. new \in [1 .. Len(own) -> Published]
          BY <3>1, <3>2, <4>1
        <4>3. QED
          BY <4>1, <4>2
      <3> HIDE DEF new
      <3>4. Rebased(n, origin) = origin \o new
        BY DEF Rebased, own, new
      <3>5. QED
        BY <3>3, <3>4 DEF IInv, BranchOK
    <2>5. conflict' \in BOOLEAN /\ BranchOK(head')
      BY <2>1, <2>4 DEF IInv
    <2>6. QED
      BY <1>1, <2>2, <2>3, <2>5, ApproveKeeps DEF IInv
  <1>4. QED
    BY <1>2, <1>3

LEMMA PushStep ==
    ASSUME IInv, NEW q \in Approver, ApprovePush(q)
    PROVE  IInv'
  <1>1. UNCHANGED <<head, edit, conflict, applied, told, run>>
    BY DEF ApprovePush
  <1>2. /\ approval' \in [Approver -> Approval]
        /\ BranchOK(origin') /\ BranchOK(tracking')
    <2>1. CASE IsPrefix(origin, head)
      <3>1. origin' = head /\ tracking' = head /\ Then(q, "idle")
        BY <2>1 DEF ApprovePush
      <3>2. QED
        BY <2>1, <3>1, ThenKeeps DEF IInv, Approval
    <2>2. CASE ~ IsPrefix(origin, head)
      <3>1. UNCHANGED <<origin, tracking>> /\ \E pc \in {"rebase", "idle"} : Then(q, pc)
        BY <2>2 DEF ApprovePush
      <3>2. QED
        BY <3>1, ThenKeeps DEF IInv, BranchOK, Approval
    <2>3. QED
      BY <2>1, <2>2
  <1>3. QED
    BY <1>1, <1>2, ApproveKeeps DEF IInv

LEMMA ApproveSteps ==
    ASSUME IInv, NEW q \in Approver, ApproveStep(q)
    PROVE  IInv'
  <1>1. CASE ApproveFetch(q)
    <2>1. tracking' = origin /\ Then(q, "merge")
          /\ UNCHANGED <<origin, head, edit, conflict, applied, told, run>>
      BY <1>1 DEF ApproveFetch
    <2>2. approval' \in [Approver -> Approval]
      BY <2>1, ThenKeeps DEF Approval
    <2>3. QED
      BY <2>1, <2>2, ApproveKeeps DEF IInv
  <1>2. CASE ApproveMerge(q)
    <2>1. /\ UNCHANGED <<origin, tracking, edit, conflict, applied, told, run>>
          /\ head' \in {head, tracking}
          /\ \E pc \in {"replay", "idle"} : Then(q, pc)
      BY <1>2 DEF ApproveMerge, FastForward
    <2>2. approval' \in [Approver -> Approval]
      BY <2>1, ThenKeeps DEF Approval
    <2>3. QED
      BY <2>1, <2>2, ApproveKeeps DEF IInv
  <1>3. CASE ApproveNoPull(q) \/ ApproveGivesUp(q) \/ ApproveSigns(q) \/ ApproveNoPush(q)
    <2>1. /\ UNCHANGED <<origin, tracking, head, edit, conflict, applied, told, run>>
          /\ \E pc \in {"replay", "commit", "idle"} : Then(q, pc)
      BY <1>3 DEF ApproveNoPull, ApproveGivesUp, ApproveSigns, ApproveNoPush, repo
    <2>2. approval' \in [Approver -> Approval]
      BY <2>1, ThenKeeps DEF Approval
    <2>3. QED
      BY <2>1, <2>2, ApproveKeeps DEF IInv
  <1>4. ASSUME NEW l \in Published, ApproveFinalizes(q, l)
        PROVE  IInv'
    <2>1. /\ UNCHANGED <<origin, tracking, head, conflict, applied, told, run>>
          /\ edit' = l /\ Then(q, "commit")
      BY <1>4 DEF ApproveFinalizes
    <2>2. approval' \in [Approver -> Approval]
      BY <2>1, ThenKeeps DEF Approval
    <2>3. QED
      BY <2>1, <2>2, ApproveKeeps DEF IInv
  <1>5. CASE ApproveCommits(q)
    <2>1. /\ UNCHANGED <<origin, tracking, conflict, applied, told, run>>
          /\ ~ conflict /\ head' = Append(head, WorkTree) /\ edit' = NoEdit
          /\ Then(q, "push")
      BY <1>5 DEF ApproveCommits
    <2>2. approval' \in [Approver -> Approval]
      BY <2>1, ThenKeeps DEF Approval
    <2>3. WorkTree \in Published
      BY <2>1 DEF WorkTree, IInv, BranchOK, Last
    <2>4. BranchOK(head')
      BY <2>1, <2>3 DEF IInv, BranchOK
    <2>5. QED
      BY <2>1, <2>2, <2>4, ApproveKeeps DEF IInv
  <1>6. CASE ApprovePush(q)
    BY <1>6, PushStep
  <1>7. CASE ApproveRebases(q)
    BY <1>7, RebaseStep
  <1>8. QED
    BY <1>1, <1>2, <1>3, <1>4, <1>5, <1>6, <1>7 DEF ApproveStep

LEMMA OtherHosts ==
    ASSUME IInv, (\E l \in Published : Publish(l)) \/ Rewind
    PROVE  /\ IInv'
           /\ UNCHANGED <<tracking, head, edit, conflict, applied, told, run, approval>>
  <1>1. UNCHANGED <<tracking, head, edit, conflict, applied, told, run, approval>>
    BY DEF Publish, Rewind, repo
  <1>2. BranchOK(origin')
    <2>1. ASSUME NEW l \in Published, Publish(l)
          PROVE  BranchOK(origin')
      <3>1. origin' = Append(origin, l)
        BY <2>1 DEF Publish
      <3>2. QED
        BY <3>1, PrefixAppend DEF IInv, BranchOK
    <2>2. CASE Rewind
      <3>1. origin \in Seq(Published) /\ Len(origin) > 1
            /\ origin' = SubSeq(origin, 1, Len(origin) - 1)
        BY <2>2 DEF Rewind, Front, IInv, BranchOK
      <3>2. origin' \in Seq(Published) /\ Len(origin') = Len(origin) - 1
        BY <3>1
      <3>3. Len(origin') # 0
        BY <3>1, <3>2
      <3>4. origin' # << >>
        BY <3>2, <3>3, EmptySeq
      <3>5. QED
        BY <3>1, <3>2, <3>4 DEF BranchOK
    <2>3. QED
      BY <2>1, <2>2
  <1>3. QED
    BY <1>1, <1>2 DEF IInv

-----------------------------------------------------------------------------
(* The invariant *)

LEMMA InitHolds == Init => IInv
  <1> SUFFICES ASSUME Init PROVE IInv
    OBVIOUS
  <1>1. BranchOK(origin) /\ BranchOK(tracking) /\ BranchOK(head)
    BY PublishedAssumption DEF Init, BranchOK
  <1>2. FirstLedger \in Contents /\ head \in Branch
    BY PublishedAssumption DEF Init, Branch
  <1>3. Configured(applied)
    BY <1>2, PublishedAssumption DEF Init, Configured, Overlay, Usable, Contents
  <1>4. told \in SUBSET Node
    BY <1>2 DEF Init, Contents
  <1>5. /\ run \in [Syncer -> Run]
        /\ \A p \in Syncer : run[p].pc = "start" => Configured(run[p].snap)
    <2>1. Ended("none") \in Run /\ Ended("none").pc = "idle"
      BY EndedIs
    <2>2. QED
      BY <2>1 DEF Init
  <1>6. edit \in Published \cup {NoEdit} /\ conflict \in BOOLEAN
        /\ approval \in [Approver -> Approval]
    BY DEF Init, Approval
  <1>7. QED
    BY <1>1, <1>3, <1>4, <1>5, <1>6 DEF IInv

LEMMA NextKeeps ==
    ASSUME IInv, [Next]_vars
    PROVE  IInv'
  <1>1. ASSUME NEW p \in Syncer, SyncStep(p) \/ SyncFault(p)
        PROVE  IInv'
    <2>1. CASE \/ ReadHead(p) \/ ReadLedger(p) \/ FetchFails(p) \/ MergeRefused(p)
               \/ CompareHead(p) \/ Verify(p) \/ Diff(p) \/ SyncCrash(p)
      BY <2>1, ReadingSteps
    <2>2. CASE Fetch(p)
      BY <2>2, FetchStep
    <2>3. CASE Merge(p)
      BY <2>3, MergeStep
    <2>4. CASE RunHooks(p)
      BY <2>4, RunHooksStep
    <2>5. CASE StartApplies(p) \/ StartFails(p)
      BY <2>5, StartSteps
    <2>6. QED
      BY <1>1, <2>1, <2>2, <2>3, <2>4, <2>5 DEF SyncStep, SyncFault
  <1>2. CASE UNCHANGED vars
    BY <1>2 DEF IInv, vars, repo
  <1>3. QED
    BY <1>1, <1>2, ApproveSteps, OtherHosts DEF Next

LEMMA Invariance == Spec => []IInv
  BY InitHolds, NextKeeps, PTL DEF Spec

\* The invariant says more than the type invariant that the runs check.
LEMMA TypesHold == IInv => TypeOK
  <1>1. Seq(Published) \subseteq Seq(Contents) /\ Published \subseteq Contents
    BY PublishedAssumption
  <1>2. QED
    BY <1>1 DEF IInv, TypeOK, BranchOK, Branch, Configured, Usable

\* Types of the host's state, whatever runs in the checkout and whatever fails;
\* and the host never configures its overlay from a ledger that misses itself.
THEOREM TypeCorrect == Spec => []TypeOK
  BY Invariance, TypesHold, PTL

\* The overlay runs the members of one ledger that replays, holds this host
\* and fits it: tfnet start looks at what it reads itself, so neither
\* -no-verify, nor an approve in the same checkout, nor a conflicting rebase
\* gets past it.
THEOREM OverlayFromVerified == Spec => []OverlayFromVerifiedLedger
  <1>1. IInv => OverlayFromVerifiedLedger
    BY DEF IInv, Configured, OverlayFromVerifiedLedger
  <1>2. QED
    BY <1>1, Invariance, PTL

-----------------------------------------------------------------------------
(* One sync that has its checkout for itself *)

\* No edit, no conflict; the overlay comes from a commit that HEAD contains,
\* and so does what tfnet start is about to apply; past Verify the ledger of
\* the working tree verifies.
Alone ==
    /\ edit = NoEdit /\ ~ conflict
    /\ IsPrefix(applied.at, head)
    /\ \A p \in Syncer : run[p].pc = "start" =>
           IsPrefix(applied.at, run[p].snap.at) /\ IsPrefix(run[p].snap.at, head)
    /\ \A p \in Syncer : run[p].pc \in {"diff", "hooks", "start"} =>
           SkipVerify \/ WorkTree.verifies

LEMMA Branches ==
    ASSUME IInv
    PROVE  /\ head \in Branch /\ tracking \in Branch /\ applied.at \in Branch
           /\ \A p \in Syncer : run[p].snap.at \in Branch
  <1>1. Seq(Published) \subseteq Seq(Contents)
    BY PublishedAssumption
  <1>2. \A o \in Overlay : o.at \in Branch
    BY DEF Overlay
  <1>3. \A r \in Run : r.snap \in Overlay
    BY DEF Run
  <1>4. QED
    BY <1>1, <1>2, <1>3 DEF IInv, BranchOK, Branch, Configured

LEMMA AloneInit == Init => Alone
  <1> SUFFICES ASSUME Init PROVE Alone
    OBVIOUS
  <1>1. applied.at = head /\ head \in Seq({FirstLedger})
    BY DEF Init
  <1>2. \A p \in Syncer : run[p].pc = "idle"
    BY EndedIs DEF Init
  <1>3. QED
    BY <1>1, <1>2, PrefixReflexive DEF Init, Alone

LEMMA AloneMerge ==
    ASSUME IInv, Alone, NEW p \in Syncer, Syncer = {p}, Merge(p)
    PROVE  Alone' /\ UNCHANGED applied
  <1>1. /\ UNCHANGED <<edit, conflict, applied>> /\ run'[p].pc = "compare"
    BY MergeStep
  <1>2. IsPrefix(head, head')
    BY Branches, PrefixReflexive DEF Merge, Mergeable, FastForward, Branch
  <1>3. head' \in Branch
    BY Branches DEF Merge, FastForward
  <1>4. IsPrefix(applied.at, head')
    BY <1>2, <1>3, Branches, PrefixTransitive DEF Alone, Branch
  <1>5. QED
    BY <1>1, <1>4 DEF Alone

\* Every other step of the sync leaves HEAD alone; the overlay stays, or it
\* takes over what tfnet start has read.
LEMMA AloneOther ==
    ASSUME IInv, Alone, NEW p \in Syncer, Syncer = {p}, SyncStep(p) \/ SyncFault(p),
           ~ Merge(p)
    PROVE  Alone' /\ IsPrefix(applied.at, applied'.at)
  <1>1. IsPrefix(applied.at, applied.at) /\ IsPrefix(head, head)
    BY Branches, PrefixReflexive DEF Branch
  <1>2. CASE \/ ReadHead(p) \/ ReadLedger(p) \/ FetchFails(p) \/ MergeRefused(p)
             \/ CompareHead(p) \/ Verify(p) \/ Diff(p) \/ SyncCrash(p)
    <2>1. UNCHANGED <<head, edit, conflict, applied>> /\ run'[p].pc # "start"
          /\ PassesOn(p)
      BY <1>2, ReadingSteps
    <2>2. UNCHANGED WorkTree
      BY <2>1 DEF WorkTree
    <2>3. run'[p].pc \in {"diff", "hooks"} => SkipVerify \/ WorkTree'.verifies
      BY <2>1, <2>2 DEF PassesOn, Alone
    <2>4. QED
      BY <1>1, <2>1, <2>3 DEF Alone
  <1>3. CASE Fetch(p)
    <2>1. UNCHANGED <<head, edit, conflict, applied>> /\ run'[p].pc = "merge"
      BY <1>3, FetchStep
    <2>2. QED
      BY <1>1, <2>1 DEF Alone
  <1>4. CASE RunHooks(p)
    <2>1. /\ UNCHANGED <<head, edit, conflict, applied>>
          /\ run'[p].pc = "start" => WorkTree.verifies /\ run'[p].snap.at = head
          /\ run'[p].pc \in {"idle", "start"}
      BY <1>4, RunHooksStep
    <2>2. UNCHANGED WorkTree
      BY <2>1 DEF WorkTree
    <2>3. QED
      BY <1>1, <2>1, <2>2 DEF Alone
  <1>5. CASE StartApplies(p) \/ StartFails(p)
    <2>1. /\ UNCHANGED <<head, edit, conflict>> /\ run'[p].pc = "idle"
          /\ run[p].pc = "start" /\ applied' \in {applied, run[p].snap}
      BY <1>5, StartSteps
    <2>2. /\ IsPrefix(applied.at, run[p].snap.at) /\ IsPrefix(run[p].snap.at, head)
          /\ IsPrefix(applied.at, head)
      BY <2>1 DEF Alone
    <2>3. IsPrefix(applied.at, applied'.at) /\ IsPrefix(applied'.at, head)
      BY <1>1, <2>1, <2>2
    <2>4. QED
      BY <2>1, <2>3 DEF Alone
  <1>6. QED
    BY <1>2, <1>3, <1>4, <1>5 DEF SyncStep, SyncFault

LEMMA AloneNext ==
    ASSUME NEW p, Syncer = {p}, Approver = {}, IInv, Alone, [Next]_vars
    PROVE  Alone' /\ IsPrefix(applied.at, applied'.at)
  <1>1. IsPrefix(applied.at, applied.at)
    BY Branches, PrefixReflexive DEF Branch
  <1>2. CASE SyncStep(p) \/ SyncFault(p)
    BY <1>1, <1>2, AloneMerge, AloneOther
  <1>3. CASE (\E l \in Published : Publish(l)) \/ Rewind
    <2>1. UNCHANGED <<head, edit, conflict, applied, run>>
      BY <1>3, OtherHosts
    <2>2. UNCHANGED WorkTree
      BY <2>1 DEF WorkTree
    <2>3. QED
      BY <1>1, <2>1, <2>2 DEF Alone
  <1>4. CASE UNCHANGED vars
    <2>1. UNCHANGED <<head, edit, conflict, applied, run>>
      BY <1>4 DEF vars, repo
    <2>2. UNCHANGED WorkTree
      BY <2>1 DEF WorkTree
    <2>3. QED
      BY <1>1, <2>1, <2>2 DEF Alone
  <1>5. QED
    BY <1>2, <1>3, <1>4 DEF Next

LEMMA AloneAlways ==
    ASSUME NEW p, Syncer = {p}, Approver = {}
    PROVE  Spec => []Alone
  <1>1. IInv /\ Alone /\ [Next]_vars => Alone'
    BY AloneNext
  <1>2. QED
    BY <1>1, AloneInit, Invariance, PTL DEF Spec

\* With verification on, the post-update hooks of a sync that has its checkout
\* for itself see a verified ledger: nothing moves the working tree between
\* the check and the hooks, however often the remote is rewound.
THEOREM HooksSeeVerified ==
    ASSUME NEW p, Syncer = {p}, Approver = {}, ~ SkipVerify
    PROVE  Spec => []HooksSeeVerifiedLedger
  <1>1. Alone => HooksSeeVerifiedLedger
    BY DEF Alone, HooksSeeVerifiedLedger
  <1>2. QED
    BY <1>1, AloneAlways, PTL

\* Alone in its checkout, a sync takes the overlay forward only: fetches and
\* starts may fail, the sync may be killed, the remote may be rewound.
THEOREM OverlayOnlyMovesForward ==
    ASSUME NEW p, Syncer = {p}, Approver = {}
    PROVE  Spec => OverlayNeverGoesBack
  <1>1. IInv /\ Alone /\ [Next]_vars => [IsPrefix(applied.at, applied'.at)]_vars
    BY AloneNext
  <1>2. QED
    BY <1>1, AloneAlways, Invariance, PTL DEF Spec, OverlayNeverGoesBack

-----------------------------------------------------------------------------
(* What listeners know *)

Good == \A i \in DOMAIN head : head[i].verifies

\* What a sync remembers, against what listeners know: outside of a sync that
\* is HEAD, and within one it is the ledger before the merge, until the hooks.
InformedAt(r) ==
    /\ r.pc \in {"idle", "before", "fetch", "merge", "start"} =>
           told = Last(head).members
    /\ r.pc \in {"before", "fetch", "merge"} => r.old = head
    /\ r.pc \in {"fetch", "merge", "compare", "verify", "diff", "hooks"} =>
           r.before = told
    /\ r.pc = "compare" => told = Last(r.old).members
    /\ r.pc = "hooks" => r.after = Last(head).members

Informed == Good => \A p \in Syncer : InformedAt(run[p])

\* What a step leaves in the record of a run.
LEMMA KeptGoingOn ==
    ASSUME NEW r \in Run, NEW pc \in Working
    PROVE  /\ [r EXCEPT !.pc = pc].old = r.old
           /\ [r EXCEPT !.pc = pc].before = r.before
  BY DEF Run

LEMMA KeptWithHead ==
    ASSUME NEW r \in Run, NEW pc \in Working, NEW b \in Branch
    PROVE  /\ [r EXCEPT !.pc = pc, !.old = b].old = b
           /\ [r EXCEPT !.pc = pc, !.new = b].before = r.before
  BY DEF Run

LEMMA KeptWithMembers ==
    ASSUME NEW r \in Run, NEW pc \in Working, NEW ms \in SUBSET Node
    PROVE  /\ [r EXCEPT !.pc = pc, !.before = ms].old = r.old
           /\ [r EXCEPT !.pc = pc, !.before = ms].before = ms
           /\ [r EXCEPT !.pc = pc, !.after = ms].before = r.before
           /\ [r EXCEPT !.pc = pc, !.after = ms].after = ms
  BY DEF Run

\* The working tree of a checkout that only the sync works in.
LEMMA AloneReads ==
    ASSUME Alone
    PROVE  WorkTree = Last(head)
  BY DEF Alone, WorkTree

\* A step that leaves HEAD and what listeners know alone.
LEMMA InformedKeeps ==
    ASSUME IInv, Informed, NEW p \in Syncer, Syncer = {p}, UNCHANGED <<head, told>>,
           Good /\ InformedAt(run[p]) => InformedAt(run'[p])
    PROVE  Informed'
  BY DEF Informed, InformedAt, Good

LEMMA InformedReading ==
    ASSUME IInv, Alone, Informed, NEW p \in Syncer, Syncer = {p},
           ReadHead(p) \/ ReadLedger(p) \/ Fetch(p) \/ Diff(p)
    PROVE  Informed'
  <1>1. UNCHANGED <<head, told>>
    BY DEF ReadHead, ReadLedger, Fetch, Diff, repo
  <1>2. /\ run[p] \in Run /\ head \in Branch /\ WorkTree.members \in SUBSET Node
        /\ WorkTree = Last(head)
    BY Branches, WorkTreeIs, AloneReads DEF IInv, Contents
  <1>3. ASSUME Good, InformedAt(run[p]) PROVE InformedAt(run'[p])
    <2>1. CASE ReadHead(p)
      <3> DEFINE r == [Ended("none") EXCEPT !.pc = "before", !.old = head]
      <3>1. Step(p, r) /\ run[p].pc = "idle"
        BY <2>1 DEF ReadHead
      <3>2. r \in Run /\ r.pc = "before" /\ r.old = head
        <4>1. r \in Run /\ r.pc = "before"
          BY <1>2, EndedIs, RememberingHead DEF Working
        <4>2. r.old = head
          BY <1>2, EndedIs, KeptWithHead DEF Working
        <4>3. QED
          BY <4>1, <4>2
      <3> HIDE DEF r
      <3>3. run'[p] = r
        BY <3>1, <3>2, Stepping
      <3>4. QED
        BY <1>1, <1>3, <3>1, <3>2, <3>3 DEF InformedAt
    <2>2. CASE ReadLedger(p)
      <3> DEFINE r == [run[p] EXCEPT !.pc = "fetch", !.before = WorkTree.members]
      <3>1. Step(p, r) /\ run[p].pc = "before"
        BY <2>2 DEF ReadLedger
      <3>2. r \in Run /\ r.pc = "fetch" /\ r.old = run[p].old
            /\ r.before = WorkTree.members
        <4>1. r \in Run /\ r.pc = "fetch"
          BY <1>2, RememberingMembers DEF Working
        <4>2. r.old = run[p].old
            /\ r.before = WorkTree.members
          BY <1>2, KeptWithMembers DEF Working
        <4>3. QED
          BY <4>1, <4>2
      <3> HIDE DEF r
      <3>3. run'[p] = r
        BY <3>1, <3>2, Stepping
      <3>4. QED
        BY <1>1, <1>2, <1>3, <3>1, <3>2, <3>3 DEF InformedAt
    <2>3. CASE Fetch(p)
      <3> DEFINE r == [run[p] EXCEPT !.pc = "merge"]
      <3>1. Step(p, r) /\ run[p].pc = "fetch"
        BY <2>3 DEF Fetch
      <3>2. r \in Run /\ r.pc = "merge" /\ r.old = run[p].old /\ r.before = run[p].before
        <4>1. r \in Run /\ r.pc = "merge"
          BY <1>2, GoingOn DEF Working
        <4>2. r.old = run[p].old /\ r.before = run[p].before
          BY <1>2, KeptGoingOn DEF Working
        <4>3. QED
          BY <4>1, <4>2
      <3> HIDE DEF r
      <3>3. run'[p] = r
        BY <3>1, <3>2, Stepping
      <3>4. QED
        BY <1>1, <1>3, <3>1, <3>2, <3>3 DEF InformedAt
    <2>4. CASE Diff(p)
      <3> DEFINE r == [run[p] EXCEPT !.pc = "hooks", !.after = WorkTree.members]
      <3>1. Step(p, r) /\ run[p].pc = "diff"
        BY <2>4 DEF Diff
      <3>2. r \in Run /\ r.pc = "hooks" /\ r.before = run[p].before
            /\ r.after = WorkTree.members
        <4>1. r \in Run /\ r.pc = "hooks"
          BY <1>2, RememberingMembers DEF Working
        <4>2. r.before = run[p].before
            /\ r.after = WorkTree.members
          BY <1>2, KeptWithMembers DEF Working
        <4>3. QED
          BY <4>1, <4>2
      <3> HIDE DEF r
      <3>3. run'[p] = r
        BY <3>1, <3>2, Stepping
      <3>4. QED
        BY <1>1, <1>2, <1>3, <3>1, <3>2, <3>3 DEF InformedAt
    <2>5. QED
      BY <2>1, <2>2, <2>3, <2>4
  <1>4. QED
    BY <1>1, <1>3, InformedKeeps

\* Whatever ends a sync, listeners know HEAD by then: a ledger that does not
\* verify is the excuse of the property, and a sync without change has none.
LEMMA InformedDeciding ==
    ASSUME IInv, Alone, Informed, NEW p \in Syncer, Syncer = {p},
           \/ CompareHead(p) \/ Verify(p) \/ FetchFails(p) \/ MergeRefused(p)
           \/ StartApplies(p) \/ StartFails(p)
    PROVE  Informed'
  <1>1. UNCHANGED <<head, told>>
    BY DEF CompareHead, Verify, FetchFails, MergeRefused, StartApplies, StartFails, repo
  <1>2. run[p] \in Run /\ head \in Branch
    BY Branches DEF IInv
  <1>3. ASSUME Good, InformedAt(run[p]) PROVE InformedAt(run'[p])
    <2>1. ASSUME NEW x \in {"no-change", "updated", "failed"}, End(p, x),
                 told = Last(head).members
          PROVE  InformedAt(run'[p])
      <3>1. run'[p].pc = "idle"
        BY <2>1, Ending
      <3>2. QED
        BY <1>1, <2>1, <3>1 DEF InformedAt
    <2>2. CASE FetchFails(p) \/ MergeRefused(p) \/ StartApplies(p) \/ StartFails(p)
      <3>1. run[p].pc \in {"fetch", "merge", "start"}
            /\ (End(p, "failed") \/ End(p, "updated"))
        BY <2>2 DEF FetchFails, MergeRefused, StartApplies, StartFails
      <3>2. QED
        BY <1>3, <2>1, <3>1 DEF InformedAt
    <2>3. CASE CompareHead(p)
      <3> DEFINE r == [run[p] EXCEPT !.pc = "verify", !.new = head]
      <3>1. /\ run[p].pc = "compare"
            /\ \/ head = run[p].old /\ End(p, "no-change")
               \/ Step(p, r)
        BY <2>3 DEF CompareHead
      <3>2. r \in Run /\ r.pc = "verify" /\ r.before = run[p].before
        <4>1. r \in Run /\ r.pc = "verify"
          BY <1>2, RememberingHead DEF Working
        <4>2. r.before = run[p].before
          BY <1>2, KeptWithHead DEF Working
        <4>3. QED
          BY <4>1, <4>2
      <3> HIDE DEF r
      <3>3. CASE head = run[p].old /\ End(p, "no-change")
        BY <1>3, <2>1, <3>1, <3>3 DEF InformedAt
      <3>4. CASE Step(p, r)
        <4>1. run'[p] = r
          BY <3>2, <3>4, Stepping
        <4>2. QED
          BY <1>1, <1>3, <3>1, <3>2, <4>1 DEF InformedAt
      <3>5. QED
        BY <3>1, <3>3, <3>4
    <2>4. CASE Verify(p)
      <3> DEFINE r == [run[p] EXCEPT !.pc = "diff"]
      <3>1. Last(head).verifies
        BY <1>2, <1>3, Branches DEF Good, Last, Branch, IInv, BranchOK
      <3>2. Step(p, r) /\ run[p].pc = "verify"
        BY <2>4, <3>1, AloneReads DEF Verify
      <3>3. r \in Run /\ r.pc = "diff" /\ r.before = run[p].before
        BY <1>2, GoingOn, KeptGoingOn DEF Working
      <3> HIDE DEF r
      <3>4. run'[p] = r
        BY <3>2, <3>3, Stepping
      <3>5. QED
        BY <1>1, <1>3, <3>2, <3>3, <3>4 DEF InformedAt
    <2>5. QED
      BY <2>2, <2>3, <2>4
  <1>4. QED
    BY <1>1, <1>3, InformedKeeps

\* The merge moves HEAD on; what was known of the old one stays remembered.
LEMMA InformedMerge ==
    ASSUME IInv, Informed, NEW p \in Syncer, Syncer = {p}, Merge(p)
    PROVE  Informed'
  <1> DEFINE r == [run[p] EXCEPT !.pc = "compare"]
  <1>1. UNCHANGED told /\ Step(p, r) /\ run[p].pc = "merge"
    BY DEF Merge
  <1>2. r \in Run /\ r.pc = "compare" /\ r.old = run[p].old /\ r.before = run[p].before
    <2>1. run[p] \in Run /\ << >> \in Branch
      BY DEF IInv, Branch
    <2>2. QED
      BY <2>1, GoingOn, KeptGoingOn DEF Working
  <1> HIDE DEF r
  <1>3. run'[p] = r
    BY <1>1, <1>2, Stepping
  <1>4. Good' => Good
    <2>1. head \in Branch /\ head' \in Branch
      BY Branches DEF Merge, FastForward
    <2>2. IsPrefix(head, head')
      BY Branches, PrefixReflexive DEF Merge, Mergeable, FastForward, Branch
    <2>3. /\ DOMAIN head \subseteq DOMAIN head'
          /\ \A i \in DOMAIN head : head'[i] = head[i]
      BY <2>1, <2>2, PrefixIs DEF Branch
    <2>4. QED
      BY <2>3 DEF Good
  <1>5. QED
    BY <1>1, <1>2, <1>3, <1>4 DEF Informed, InformedAt

\* The hooks are given the difference between what listeners know and HEAD.
LEMMA InformedHooks ==
    ASSUME IInv, Alone, Informed, NEW p \in Syncer, Syncer = {p}, RunHooks(p)
    PROVE  Informed'
  <1>1. UNCHANGED head /\ run'[p].pc \in {"idle", "start"}
    BY RunHooksStep
  <1>2. run[p].pc = "hooks" /\ told' = (told \cup Added(run[p])) \ Removed(run[p])
    BY DEF RunHooks
  <1>3. ASSUME Good PROVE told' = Last(head).members
    <2>1. run[p].before = told /\ run[p].after = Last(head).members
      BY <1>2, <1>3 DEF Informed, InformedAt
    <2>2. QED
      BY <1>2, <2>1 DEF Added, Removed
  <1>4. QED
    BY <1>1, <1>3 DEF Informed, InformedAt, Good

LEMMA InformedNext ==
    ASSUME NEW p, Syncer = {p}, Approver = {}, "crash" \notin Faults,
           IInv, Alone, Informed, [Next]_vars
    PROVE  Informed'
  <1>1. CASE SyncStep(p) \/ SyncFault(p)
    <2>1. ~ SyncCrash(p)
      BY DEF SyncCrash
    <2>2. QED
      BY <1>1, <2>1, InformedReading, InformedDeciding, InformedMerge, InformedHooks
         DEF SyncStep, SyncFault
  <1>2. CASE (\E l \in Published : Publish(l)) \/ Rewind
    <2>1. UNCHANGED <<head, told, run>>
      BY <1>2, OtherHosts
    <2>2. QED
      BY <2>1 DEF Informed, InformedAt, Good
  <1>3. CASE UNCHANGED vars
    BY <1>3 DEF vars, repo, Informed, InformedAt, Good
  <1>4. QED
    BY <1>1, <1>2, <1>3 DEF Next

LEMMA InformedInit == Init => Informed
  <1> SUFFICES ASSUME Init PROVE Informed
    OBVIOUS
  <1>1. told = Last(head).members
    BY DEF Init, Last
  <1>2. \A p \in Syncer : run[p].pc = "idle"
    BY EndedIs DEF Init
  <1>3. QED
    BY <1>1, <1>2 DEF Informed, InformedAt

\* Whoever adds up the diffs given to hooks knows the members at HEAD after
\* each sync, as long as no ledger on the way fails to verify and no sync dies;
\* fetches and starts may fail, and the remote may be rewound.
THEOREM ListenersKnowMembers ==
    ASSUME NEW p, Syncer = {p}, Approver = {}, "crash" \notin Faults
    PROVE  Spec => []ListenersInformed
  <1>1. IInv /\ Alone /\ Informed /\ [Next]_vars => Informed'
    BY InformedNext
  <1>2. Informed => ListenersInformed
    BY DEF Informed, InformedAt, Good, ListenersInformed
  <1>3. QED
    BY <1>1, <1>2, InformedInit, AloneAlways, Invariance, PTL DEF Spec

-----------------------------------------------------------------------------
(* What the overlay keeps up with *)

\* HEAD, and the members of its ledger.
Latest == [members |-> Last(head).members, at |-> head]

UpToHead == Usable(Last(head)) => applied = Latest

\* Outside of a sync, and in one before it merges, the overlay is up to HEAD;
\* so it is when the merge has not moved HEAD; and what tfnet start is about
\* to apply is HEAD.
UpAt(r) ==
    /\ r.pc \in {"idle", "before", "fetch", "merge"} => UpToHead
    /\ r.pc \in {"before", "fetch", "merge"} => r.old = head
    /\ r.pc = "compare" => (r.old = head => UpToHead)
    /\ r.pc = "start" => r.snap = Latest

\* What a sync remembers of HEAD while it reads.
LEMMA HeadRead ==
    ASSUME IInv, NEW p \in Syncer, ReadHead(p)
    PROVE  run'[p].pc = "before" /\ run'[p].old = head
  <1> DEFINE r == [Ended("none") EXCEPT !.pc = "before", !.old = head]
  <1>1. head \in Branch
    BY Branches
  <1>2. r \in Run /\ r.pc = "before"
    BY <1>1, EndedIs, RememberingHead DEF Working
  <1>3. r.old = head
    BY <1>1, EndedIs, KeptWithHead DEF Working
  <1>4. Step(p, r)
    BY DEF ReadHead
  <1> HIDE DEF r
  <1>5. QED
    BY <1>2, <1>3, <1>4, Stepping

LEMMA HeadKept ==
    ASSUME IInv, NEW p \in Syncer, ReadLedger(p)
    PROVE  run'[p].pc = "fetch" /\ run'[p].old = run[p].old
  <1> DEFINE r == [run[p] EXCEPT !.pc = "fetch", !.before = WorkTree.members]
  <1>1. run[p] \in Run /\ WorkTree.members \in SUBSET Node
    BY WorkTreeIs DEF IInv, Contents
  <1>2. r \in Run /\ r.pc = "fetch"
    BY <1>1, RememberingMembers DEF Working
  <1>3. r.old = run[p].old
    BY <1>1, KeptWithMembers DEF Working
  <1>4. Step(p, r)
    BY DEF ReadLedger
  <1> HIDE DEF r
  <1>5. QED
    BY <1>2, <1>3, <1>4, Stepping

\* Steps that leave HEAD and the overlay alone.
LEMMA UpReading ==
    ASSUME IInv, Alone, NEW p \in Syncer, UpAt(run[p]),
           \/ ReadHead(p) \/ ReadLedger(p) \/ Fetch(p) \/ FetchFails(p)
           \/ MergeRefused(p) \/ CompareHead(p) \/ Verify(p) \/ Diff(p)
    PROVE  UpAt(run[p])' /\ UNCHANGED <<head, applied>>
  <1>1. UNCHANGED <<head, applied>>
    BY DEF ReadHead, ReadLedger, Fetch, FetchFails, MergeRefused, CompareHead, Verify,
           Diff, repo
  <1>2. /\ run[p] \in Run /\ head \in Branch /\ WorkTree.members \in SUBSET Node
        /\ WorkTree = Last(head)
    BY Branches, WorkTreeIs, AloneReads DEF IInv, Contents
  <1>3. ASSUME NEW x \in {"no-change", "failed"}, End(p, x), UpToHead
        PROVE  UpAt(run[p])'
    BY <1>1, <1>3, Ending DEF UpAt, UpToHead, Latest
  <1>4. CASE ReadHead(p)
    BY <1>1, <1>4, HeadRead DEF ReadHead, UpAt, UpToHead, Latest
  <1>5. CASE ReadLedger(p)
    BY <1>1, <1>5, HeadKept DEF ReadLedger, UpAt, UpToHead, Latest
  <1>6. CASE Fetch(p)
    <2> DEFINE r == [run[p] EXCEPT !.pc = "merge"]
    <2>1. r \in Run /\ r.pc = "merge" /\ r.old = run[p].old
      BY <1>2, GoingOn, KeptGoingOn DEF Working
    <2>2. Step(p, r) /\ run[p].pc = "fetch"
      BY <1>6 DEF Fetch
    <2> HIDE DEF r
    <2>3. run'[p] = r
      BY <2>1, <2>2, Stepping
    <2>4. QED
      BY <1>1, <2>1, <2>2, <2>3 DEF UpAt, UpToHead, Latest
  <1>7. CASE FetchFails(p) \/ MergeRefused(p)
    BY <1>1, <1>3, <1>7 DEF FetchFails, MergeRefused, UpAt
  <1>8. CASE CompareHead(p)
    <2> DEFINE r == [run[p] EXCEPT !.pc = "verify", !.new = head]
    <2>1. r \in Run /\ r.pc = "verify"
      BY <1>2, RememberingHead DEF Working
    <2>2. /\ run[p].pc = "compare"
          /\ \/ head = run[p].old /\ End(p, "no-change")
             \/ Step(p, r)
      BY <1>8 DEF CompareHead
    <2> HIDE DEF r
    <2>3. CASE head = run[p].old /\ End(p, "no-change")
      BY <1>1, <1>3, <2>2, <2>3 DEF UpAt
    <2>4. CASE Step(p, r)
      <3>1. run'[p] = r
        BY <2>1, <2>4, Stepping
      <3>2. QED
        BY <1>1, <2>1, <3>1 DEF UpAt
    <2>5. QED
      BY <2>2, <2>3, <2>4
  <1>9. CASE Verify(p)
    <2> DEFINE r == [run[p] EXCEPT !.pc = "diff"]
    <2>1. r \in Run /\ r.pc = "diff"
      BY <1>2, GoingOn DEF Working
    <2>2. Step(p, r) \/ (End(p, "failed") /\ ~ WorkTree.verifies)
      BY <1>9 DEF Verify
    <2> HIDE DEF r
    <2>3. CASE Step(p, r)
      <3>1. run'[p] = r
        BY <2>1, <2>3, Stepping
      <3>2. QED
        BY <1>1, <2>1, <3>1 DEF UpAt
    <2>4. CASE End(p, "failed") /\ ~ WorkTree.verifies
      BY <1>1, <1>2, <1>3, <2>4 DEF UpToHead, Usable
    <2>5. QED
      BY <2>2, <2>3, <2>4
  <1>10. CASE Diff(p)
    <2> DEFINE r == [run[p] EXCEPT !.pc = "hooks", !.after = WorkTree.members]
    <2>1. r \in Run /\ r.pc = "hooks"
      BY <1>2, RememberingMembers DEF Working
    <2>2. Step(p, r)
      BY <1>10 DEF Diff
    <2> HIDE DEF r
    <2>3. run'[p] = r
      BY <2>1, <2>2, Stepping
    <2>4. QED
      BY <1>1, <2>1, <2>3 DEF UpAt
  <1>11. QED
    BY <1>1, <1>4, <1>5, <1>6, <1>7, <1>8, <1>9, <1>10

\* A merge that leaves HEAD where it was leaves the overlay up to it.
LEMMA UpMerge ==
    ASSUME IInv, NEW p \in Syncer, UpAt(run[p]), Merge(p)
    PROVE  UpAt(run[p])'
  <1> DEFINE r == [run[p] EXCEPT !.pc = "compare"]
  <1>1. UNCHANGED applied /\ Step(p, r) /\ run[p].pc = "merge"
    BY DEF Merge
  <1>2. r \in Run /\ r.pc = "compare" /\ r.old = run[p].old
    <2>1. run[p] \in Run
      BY DEF IInv
    <2>2. QED
      BY <2>1, GoingOn, KeptGoingOn DEF Working
  <1> HIDE DEF r
  <1>3. run'[p] = r
    BY <1>1, <1>2, Stepping
  <1>4. QED
    BY <1>1, <1>2, <1>3 DEF UpAt, UpToHead, Latest

\* A start is refused only with a ledger that is not usable, and otherwise
\* takes the overlay to HEAD.
LEMMA UpStart ==
    ASSUME IInv, Alone, NEW p \in Syncer, UpAt(run[p]), RunHooks(p) \/ StartApplies(p)
    PROVE  UpAt(run[p])'
  <1>1. CASE RunHooks(p)
    <2>1. /\ UNCHANGED <<head, applied>> /\ run'[p].pc \in {"idle", "start"}
          /\ run'[p].pc = "start" =>
                 run'[p].snap = [members |-> WorkTree.members, at |-> head]
          /\ run'[p].pc = "idle" => ~ Startable(WorkTree)
      BY <1>1, RunHooksStep
    <2>2. WorkTree = Last(head)
      BY AloneReads
    <2>3. QED
      BY <2>1, <2>2 DEF UpAt, UpToHead, Latest, Startable, Usable
  <1>2. CASE StartApplies(p)
    <2>1. UNCHANGED head /\ run'[p].pc = "idle" /\ run[p].pc = "start"
      BY <1>2, StartSteps
    <2>2. applied' = run[p].snap
      BY <1>2 DEF StartApplies
    <2>3. QED
      BY <2>1, <2>2 DEF UpAt, UpToHead, Latest
  <1>3. QED
    BY <1>1, <1>2

\* A host whose syncs are alone in the checkout, are never killed and whose
\* starts do not fail runs the overlay of its HEAD, if that can be started at
\* all: whatever broken or misfit ledgers came before it, and whether or not
\* the member diff is empty (Run of syncer.go compares heads, and the hook
\* calls tfnet start on each change).
THEOREM OverlayIsUpToHead ==
    ASSUME NEW p, Syncer = {p}, Approver = {}, "crash" \notin Faults, "start" \notin Faults
    PROVE  Spec => []OverlayKeepsUp
  <1> DEFINE Up == UpAt(run[p])
  <1>1. Init => Up
    <2> SUFFICES ASSUME Init PROVE Up
      OBVIOUS
    <2>1. run[p].pc = "idle"
      BY EndedIs DEF Init
    <2>2. applied = Latest
      BY DEF Init, Latest, Last
    <2>3. QED
      BY <2>1, <2>2 DEF UpAt, UpToHead
  <1>2. IInv /\ Alone /\ Up /\ [Next]_vars => Up'
    <2> SUFFICES ASSUME IInv, Alone, Up, [Next]_vars PROVE Up'
      OBVIOUS
    <2>1. CASE SyncStep(p) \/ SyncFault(p)
      <3>1. ~ SyncCrash(p) /\ ~ StartFails(p)
        BY DEF SyncCrash, StartFails
      <3>2. QED
        BY <2>1, <3>1, UpReading, UpMerge, UpStart DEF SyncStep, SyncFault
    <2>2. CASE (\E l \in Published : Publish(l)) \/ Rewind
      <3>1. UNCHANGED <<head, applied, run>>
        BY <2>2, OtherHosts
      <3>2. QED
        BY <3>1 DEF UpAt, UpToHead, Latest
    <2>3. CASE UNCHANGED vars
      BY <2>3 DEF vars, repo, UpAt, UpToHead, Latest
    <2>4. QED
      BY <2>1, <2>2, <2>3 DEF Next
  <1>3. Up => OverlayKeepsUp
    BY DEF UpAt, UpToHead, Latest, OverlayKeepsUp
  <1>4. QED
    BY <1>1, <1>2, <1>3, AloneAlways, Invariance, PTL DEF Spec
=============================================================================
