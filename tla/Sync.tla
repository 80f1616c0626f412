-------------------------------- MODULE Sync --------------------------------
(***************************************************************************)
(* One host that follows the ledger in a git repository: the tfnet sync    *)
(* runs that its timer or its operator starts (internal/syncer), the       *)
(* post-update hook that restarts the overlay (contrib/hooks.d.example),   *)
(* the tfnet start behind it as far as it reads the ledger                 *)
(* (internal/runtime), and the git side of a tfnet ledger approve that     *)
(* works in the same checkout (cmd/tfnet/cmd_ledger_simple.go).            *)
(*                                                                         *)
(* A branch is the sequence of the ledgers that its commits hold.  Of a    *)
(* ledger only the member set that its replay reaches is kept, whether the *)
(* replay succeeds, and whether the members fit together on this host; a   *)
(* commit that changes nothing but proposals and signatures repeats the    *)
(* ledger before it.  Every command that runs git or reads the ledger is   *)
(* one step; git itself is atomic.                                         *)
(***************************************************************************)
EXTENDS Naturals, SequencesExt

CONSTANTS
    Node,
    Self,        \* this host's node_id
    Published,   \* the ledgers that commits of others, and approve, may hold
    FirstLedger, \* the ledger this host started its overlay with
    Syncer,      \* tfnet sync processes
    Approver,    \* tfnet ledger approve processes in the same checkout
    SkipVerify,  \* tfnet sync -no-verify
    Faults,      \* of "fetch", "start", "crash", "rewind"
    NoEdit,      \* the working tree holds what HEAD holds
    MaxHistory   \* bound: no new commit on a branch of this length

\* fits: no two of the members have one overlay address, and the WireGuard key
\* of this host, if it is one of them, is the one in its key file.
Contents == [members : SUBSET Node, verifies : BOOLEAN, fits : BOOLEAN]

ASSUME PublishedAssumption ==
    /\ Published \subseteq Contents
    /\ FirstLedger \in Published
    /\ FirstLedger.verifies /\ FirstLedger.fits
    /\ Self \in FirstLedger.members
    /\ NoEdit \notin Contents
    /\ SkipVerify \in BOOLEAN
    /\ MaxHistory \in Nat

VARIABLES
    origin,    \* the branch at the remote
    tracking,  \* origin/main, as last fetched
    head,      \* HEAD of the checkout
    edit,      \* the uncommitted ledger in the working tree, or NoEdit
    conflict,  \* a rebase stopped in the middle, log.jsonl holds both sides
    applied,   \* what the last tfnet start configured, from which HEAD
    told,      \* the members according to all TFNET_ADDED, TFNET_REMOVED so far
    run,       \* Syncer |-> its sync
    approval   \* Approver |-> what its approve does next

repo == <<tracking, head, edit, conflict>>
vars == <<origin, repo, applied, told, run, approval>>

-----------------------------------------------------------------------------
(* The checkout *)

\* A log with conflict markers does not decode: replay returns no state.
Undecodable == [members |-> {}, verifies |-> FALSE, fits |-> TRUE]

WorkTree ==
    IF conflict THEN Undecodable
    ELSE IF edit = NoEdit THEN Last(head) ELSE edit

\* git merge --ff-only origin/main goes through: HEAD is ahead already, or it
\* is behind and the commits in between leave an edited log.jsonl alone.
Mergeable ==
    /\ ~ conflict
    /\ \/ IsPrefix(tracking, head)
       \/ /\ IsPrefix(head, tracking)
          /\ edit = NoEdit \/ Last(tracking) = Last(head)

\* Fault: the merge resets to origin/main.
FastForward_Reset == head' = tracking

FastForward == head' = IF IsPrefix(tracking, head) THEN head ELSE tracking

-----------------------------------------------------------------------------
(* tfnet sync.  pc names the access that comes next. *)

Branch == Seq(Contents)

\* A configuration of the overlay: its members and the HEAD they come from.
Overlay == [members : SUBSET Node, at : Branch]

Nothing == [members |-> {}, at |-> << >>]

\* old, new: HEAD before and after the merge; before, after: the members
\* then; snap: what tfnet start read; exit: how the previous sync ended.
Run == [pc : {"idle", "before", "fetch", "merge", "compare", "verify", "diff",
              "hooks", "start"},
        old : Branch, new : Branch, before : SUBSET Node, after : SUBSET Node,
        snap : Overlay, exit : {"none", "no-change", "updated", "failed"}]

Ended(x) == [pc |-> "idle", old |-> << >>, new |-> << >>, before |-> {},
             after |-> {}, snap |-> Nothing, exit |-> x]

Step(p, r) == run' = [run EXCEPT ![p] = r]

End(p, x) == Step(p, Ended(x))

\* The pre-sync hooks have run; rev-parse HEAD.
ReadHead(p) ==
    /\ run[p].pc = "idle"
    /\ Step(p, [Ended("none") EXCEPT !.pc = "before", !.old = head])
    /\ UNCHANGED <<origin, repo, applied, told, approval>>

\* The members before the pull; errors of this replay are ignored.
ReadLedger(p) ==
    /\ run[p].pc = "before"
    /\ Step(p, [run[p] EXCEPT !.pc = "fetch", !.before = WorkTree.members])
    /\ UNCHANGED <<origin, repo, applied, told, approval>>

Fetch(p) ==
    /\ run[p].pc = "fetch"
    /\ tracking' = origin
    /\ Step(p, [run[p] EXCEPT !.pc = "merge"])
    /\ UNCHANGED <<origin, head, edit, conflict, applied, told, approval>>

FetchFails(p) ==
    /\ "fetch" \in Faults
    /\ run[p].pc = "fetch"
    /\ End(p, "failed")
    /\ UNCHANGED <<origin, repo, applied, told, approval>>

Merge(p) ==
    /\ run[p].pc = "merge"
    /\ Mergeable
    /\ FastForward
    /\ Step(p, [run[p] EXCEPT !.pc = "compare"])
    /\ UNCHANGED <<origin, tracking, edit, conflict, applied, told, approval>>

MergeRefused(p) ==
    /\ run[p].pc = "merge"
    /\ ~ Mergeable
    /\ End(p, "failed")
    /\ UNCHANGED <<origin, repo, applied, told, approval>>

\* Fault: the members decide, not HEAD, whether anything changed.
CompareHead_ByMembers(p) ==
    /\ run[p].pc = "compare"
    /\ IF WorkTree.members = run[p].before
       THEN End(p, "no-change")
       ELSE Step(p, [run[p] EXCEPT !.pc = "verify", !.new = head])
    /\ UNCHANGED <<origin, repo, applied, told, approval>>

\* HEAD has not moved: the no-change hooks run and nothing else happens.
CompareHead(p) ==
    /\ run[p].pc = "compare"
    /\ IF head = run[p].old
       THEN End(p, "no-change")
       ELSE Step(p, [run[p] EXCEPT !.pc = "verify", !.new = head])
    /\ UNCHANGED <<origin, repo, applied, told, approval>>

\* Fault: verification reports its error and goes on.
Verify_Ignored(p) ==
    /\ run[p].pc = "verify"
    /\ Step(p, [run[p] EXCEPT !.pc = "diff"])
    /\ UNCHANGED <<origin, repo, applied, told, approval>>

\* On an error the error hooks run; the merge is not undone.
Verify(p) ==
    /\ run[p].pc = "verify"
    /\ IF SkipVerify \/ WorkTree.verifies
       THEN Step(p, [run[p] EXCEPT !.pc = "diff"])
       ELSE End(p, "failed")
    /\ UNCHANGED <<origin, repo, applied, told, approval>>

\* Fault: departures are not reported.
Diff_AddedOnly(p) ==
    /\ run[p].pc = "diff"
    /\ Step(p, [run[p] EXCEPT !.pc = "hooks",
                              !.after = WorkTree.members \cup run[p].before])
    /\ UNCHANGED <<origin, repo, applied, told, approval>>

\* The ledger is read again for the diff.
Diff(p) ==
    /\ run[p].pc = "diff"
    /\ Step(p, [run[p] EXCEPT !.pc = "hooks", !.after = WorkTree.members])
    /\ UNCHANGED <<origin, repo, applied, told, approval>>

Added(r) == r.after \ r.before
Removed(r) == r.before \ r.after

\* Fault: tfnet start does not look for this host among the members.
Startable_Anyone(l) == l.verifies /\ l.fits

\* Fault: tfnet start takes the state that a failed replay got to.
Startable_Partial(l) == Self \in l.members /\ l.fits

\* tfnet start goes on with the ledger l: it replays, holds this host, gives
\* out no address twice and names the key that this host has.
Startable(l) == l.verifies /\ Self \in l.members /\ l.fits

\* Fault: the restart hook looks at the diff and skips a start without one.
RunHooks_OnDiff(p) ==
    /\ run[p].pc = "hooks"
    /\ told' = (told \cup Added(run[p])) \ Removed(run[p])
    /\ IF Startable(WorkTree) /\ run[p].after # run[p].before
       THEN Step(p, [run[p] EXCEPT
                        !.pc = "start",
                        !.snap = [members |-> WorkTree.members, at |-> head]])
       ELSE End(p, "updated")
    /\ UNCHANGED <<origin, repo, applied, approval>>

\* The post-update hooks run with the diff, and one of them calls tfnet
\* start, which reads the ledger once more.  A hook that fails is only logged.
RunHooks(p) ==
    /\ run[p].pc = "hooks"
    /\ told' = (told \cup Added(run[p])) \ Removed(run[p])
    /\ IF Startable(WorkTree)
       THEN Step(p, [run[p] EXCEPT
                        !.pc = "start",
                        !.snap = [members |-> WorkTree.members, at |-> head]])
       ELSE End(p, "updated")
    /\ UNCHANGED <<origin, repo, applied, approval>>

\* The peers reach the kernel and FRR; the sync ends.
StartApplies(p) ==
    /\ run[p].pc = "start"
    /\ applied' = run[p].snap
    /\ End(p, "updated")
    /\ UNCHANGED <<origin, repo, told, approval>>

\* A command of tfnet start fails, before or after the peers are configured.
StartFails(p) ==
    /\ "start" \in Faults
    /\ run[p].pc = "start"
    /\ applied' \in {applied, run[p].snap}
    /\ End(p, "updated")
    /\ UNCHANGED <<origin, repo, told, approval>>

\* The sync is killed, or the host goes down, between two of its accesses.
SyncCrash(p) ==
    /\ "crash" \in Faults
    /\ run[p].pc # "idle"
    /\ End(p, "failed")
    /\ UNCHANGED <<origin, repo, applied, told, approval>>

-----------------------------------------------------------------------------
(* tfnet ledger approve in the same checkout *)

Approval == {"idle", "merge", "replay", "commit", "push", "rebase", "again"}

Then(q, pc) == approval' = [approval EXCEPT ![q] = pc]

ApproveFetch(q) ==
    /\ approval[q] = "idle"
    /\ tracking' = origin
    /\ Then(q, "merge")
    /\ UNCHANGED <<origin, head, edit, conflict, applied, told, run>>

\* approve -no-pull.
ApproveNoPull(q) ==
    /\ approval[q] = "idle"
    /\ Then(q, "replay")
    /\ UNCHANGED <<origin, repo, applied, told, run>>

ApproveMerge(q) ==
    /\ approval[q] = "merge"
    /\ IF Mergeable
       THEN FastForward /\ Then(q, "replay")
       ELSE UNCHANGED head /\ Then(q, "idle")
    /\ UNCHANGED <<origin, tracking, edit, conflict, applied, told, run>>

\* Nothing to approve, or the ledger does not replay.
ApproveGivesUp(q) ==
    /\ approval[q] = "replay"
    /\ Then(q, "idle")
    /\ UNCHANGED <<origin, repo, applied, told, run>>

\* A signature is added; approvals are still missing.
ApproveSigns(q) ==
    /\ approval[q] = "replay"
    /\ WorkTree.verifies
    /\ Then(q, "commit")
    /\ UNCHANGED <<origin, repo, applied, told, run>>

\* The last signature: the log of the working tree becomes l.
ApproveFinalizes(q, l) ==
    /\ approval[q] = "replay"
    /\ WorkTree.verifies
    /\ l.verifies /\ l # WorkTree
    /\ edit' = l
    /\ Then(q, "commit")
    /\ UNCHANGED <<origin, tracking, head, conflict, applied, told, run>>

\* approve -no-push.
ApproveNoPush(q) ==
    /\ approval[q] = "commit"
    /\ Then(q, "idle")
    /\ UNCHANGED <<origin, repo, applied, told, run>>

\* git add, git commit.
ApproveCommits(q) ==
    /\ approval[q] = "commit"
    /\ ~ conflict
    /\ Len(head) < MaxHistory
    /\ head' = Append(head, WorkTree)
    /\ edit' = NoEdit
    /\ Then(q, "push")
    /\ UNCHANGED <<origin, tracking, conflict, applied, told, run>>

\* The remote takes a fast-forward only.  The first rejection leads to a
\* rebase, the second ends the command with the commit still unpushed.
ApprovePush(q) ==
    /\ approval[q] \in {"push", "again"}
    /\ ~ conflict
    /\ IF IsPrefix(origin, head)
       THEN origin' = head /\ tracking' = head /\ Then(q, "idle")
       ELSE /\ UNCHANGED <<origin, tracking>>
            /\ Then(q, IF approval[q] = "push" THEN "rebase" ELSE "idle")
    /\ UNCHANGED <<head, edit, conflict, applied, told, run>>

\* HEAD and the remote have their first n commits in common, and no more.
Fork(n) ==
    /\ IsPrefix(SubSeq(head, 1, n), origin)
    /\ n < Len(head) => ~ IsPrefix(SubSeq(head, 1, n + 1), origin)

\* Local commits behind the n-th on top of the branch b: where they leave the
\* log alone they take over what b holds.
Rebased(n, b) ==
    LET own == SubSeq(head, n + 1, Len(head)) IN
    b \o [i \in DOMAIN own |-> IF Last(head) = head[n] THEN Last(b) ELSE own[i]]

\* git pull --rebase.  It refuses a dirty tree, and stops with a conflict when
\* both sides have changed the log.
ApproveRebases(q) ==
    /\ approval[q] = "rebase"
    /\ ~ conflict
    /\ IF edit # NoEdit
       THEN UNCHANGED repo /\ Then(q, "idle")
       ELSE /\ tracking' = origin
            /\ UNCHANGED edit
            /\ \E n \in DOMAIN head :
                 /\ Fork(n)
                 /\ IF head[n] \in {Last(head), Last(origin)}
                    THEN /\ head' = Rebased(n, origin)
                         /\ UNCHANGED conflict
                         /\ Then(q, "again")
                    ELSE /\ head' = origin
                         /\ conflict' = TRUE
                         /\ Then(q, "idle")
    /\ UNCHANGED <<origin, applied, told, run>>

-----------------------------------------------------------------------------
(* The other hosts *)

\* Somebody pushes a commit.
Publish(l) ==
    /\ Len(origin) < MaxHistory
    /\ origin' = Append(origin, l)
    /\ UNCHANGED <<repo, applied, told, run, approval>>

\* Somebody rewinds the branch with a forced push.
Rewind ==
    /\ "rewind" \in Faults
    /\ Len(origin) > 1
    /\ origin' = Front(origin)
    /\ UNCHANGED <<repo, applied, told, run, approval>>

-----------------------------------------------------------------------------

Init ==
    /\ origin = <<FirstLedger>>
    /\ tracking = origin
    /\ head = origin
    /\ edit = NoEdit
    /\ conflict = FALSE
    /\ applied = [members |-> FirstLedger.members, at |-> head]
    /\ told = FirstLedger.members
    /\ run = [p \in Syncer |-> Ended("none")]
    /\ approval = [q \in Approver |-> "idle"]

\* What a sync does when nothing fails.
SyncStep(p) ==
    \/ ReadHead(p)
    \/ ReadLedger(p)
    \/ Fetch(p)
    \/ Merge(p)
    \/ MergeRefused(p)
    \/ CompareHead(p)
    \/ Verify(p)
    \/ Diff(p)
    \/ RunHooks(p)
    \/ StartApplies(p)

SyncFault(p) == FetchFails(p) \/ StartFails(p) \/ SyncCrash(p)

ApproveStep(q) ==
    \/ ApproveFetch(q)
    \/ ApproveNoPull(q)
    \/ ApproveMerge(q)
    \/ ApproveGivesUp(q)
    \/ ApproveSigns(q)
    \/ \E l \in Published : ApproveFinalizes(q, l)
    \/ ApproveNoPush(q)
    \/ ApproveCommits(q)
    \/ ApprovePush(q)
    \/ ApproveRebases(q)

Next ==
    \/ \E p \in Syncer : SyncStep(p) \/ SyncFault(p)
    \/ \E q \in Approver : ApproveStep(q)
    \/ \E l \in Published : Publish(l)
    \/ Rewind

Spec == Init /\ [][Next]_vars

\* The timer starts a sync again and again, every command of it ends, and the
\* remote answers a fetch now and then.
FairSpec ==
    /\ Spec
    /\ \A p \in Syncer : WF_vars(SyncStep(p)) /\ SF_vars(Fetch(p))

-----------------------------------------------------------------------------
(* Properties *)

\* The type invariant of the host's variables; the overlay is configured from
\* a ledger that holds this host.
TypeOK ==
    /\ origin \in Branch /\ tracking \in Branch /\ head \in Branch
    /\ edit \in Contents \cup {NoEdit}
    /\ conflict \in BOOLEAN
    /\ applied \in Overlay /\ Self \in applied.members
    /\ told \in SUBSET Node
    /\ run \in [Syncer -> Run]
    /\ approval \in [Approver -> Approval]

\* The post-update hooks never see a ledger that does not verify: with no
\* other git command in the checkout, what Verify has read is still there.
HooksSeeVerifiedLedger ==
    \A p \in Syncer : run[p].pc \in {"hooks", "start"} => WorkTree.verifies

\* Whatever is published, rewound, interrupted or only half done, the overlay
\* goes from one HEAD to a later one and never back.
OverlayNeverGoesBack == [][IsPrefix(applied.at, applied'.at)]_vars

\* Whoever adds up TFNET_ADDED and TFNET_REMOVED knows the members: each sync
\* without pending hooks leaves told equal to the ledger at HEAD, as long as
\* every ledger on the way there verifies.
ListenersInformed ==
    (\A p \in Syncer : run[p].pc \in {"idle", "before", "fetch", "merge"}) =>
        \/ told = Last(head).members
        \/ \E i \in DOMAIN head : ~ head[i].verifies

\* A ledger that an overlay of this host may be configured from.
Usable(l) == l.verifies /\ Self \in l.members /\ l.fits

\* Syncs that are neither killed nor fail to start miss no HEAD: before it
\* merges again, a sync leaves the overlay configured from HEAD itself if that
\* can be started, though its members be those of the HEAD before, and
\* whatever ledgers that do not verify or fit it has been through.
OverlayKeepsUp ==
    (\A p \in Syncer : run[p].pc \in {"idle", "before", "fetch", "merge"}) =>
        (Usable(Last(head)) => applied = [members |-> Last(head).members, at |-> head])

\* There is something to follow: the remote is ahead of HEAD or equal to it,
\* and its ledger is one that this host can be started from.
Followable == IsPrefix(head, origin) /\ Usable(Last(origin))

\* A host whose timer runs ends up with the published members in its overlay.
Converges == []<> ~ Followable \/ <>[](applied.members = Last(origin).members)

\* Whatever else works in the checkout, and even when syncs do not verify,
\* the overlay runs the members of a ledger that start accepts as a whole.
OverlayFromVerifiedLedger ==
    \E l \in Published : Usable(l) /\ applied.members = l.members

\* A sync that reports success leaves a ledger that verifies.
SuccessMeansVerified ==
    \A p \in Syncer : run[p].exit \in {"no-change", "updated"} => WorkTree.verifies
=============================================================================
