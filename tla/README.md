# A verification project for tfnet

tfnet runs a full-mesh layer-2 overlay whose membership is a *ledger*: a hash
chain of GENESIS, ADD and REMOVE entries, each of which everyone who is a
member afterwards must have signed (N-of-N). The ledger lives in a directory
that hosts exchange through a git repository; `tfnet sync` follows the
repository and restarts the overlay when the ledger has moved. This directory
holds TLA+ models of that system, the TLC configurations that check them and
proofs that TLAPS checks.

## 1. The system

| Component (source) | State | Operations | Model |
| --- | --- | --- | --- |
| Ledger data, `internal/ledger/entry.go`, `state.go` | none (pure); a replayed `State`: members, next sequence number, head hash | hash, required and missing approvers, validate and apply | `Ledger`; its promise is `MembershipLog` |
| Ledger store, `store.go`, `pending.go` | `log.jsonl`; `pending/<seq>-<hash>/entry.json`, `sigs/<node>.json` | append, replay, save, load, remove | `LedgerDir` |
| Ledger commands, `cmd/tfnet/cmd_ledger.go` | the memory of each process | genesis, propose-add, propose-self-add, propose-remove, sign, merge, commit | `LedgerDir` |
| approve, `cmd_ledger_simple.go` | memory; the git clone | pull, choose, sign, finalise, git commit, push, rebase | ledger side in `LedgerDir`, between clones in `LedgerGit`, next to a sync in `Sync` |
| sync, `internal/syncer`, `cmd_sync.go` | memory; the git checkout | rev-parse, replay, fetch, merge, verify, diff, hooks | `Sync` |
| Runtime, `internal/runtime`, `cmd_run.go` | WireGuard, VXLAN and bridge devices, FRR | start, stop, status | start and stop in `Overlay`; one step of `Sync` |
| Rendering, `internal/render` | none | WireGuard and FRR configuration | addresses and peers, in `Overlay` |
| Keys, host configuration, audit log, logging, command line | files, output | read, write | not modelled, signing apart |

How they interact. Commands share the ledger directory as plain files, without
a lock: a command replays the log, loads a proposal, computes in memory, and
writes. Hosts share ledger directories through commits of one git branch. On
each host a timer runs `sync`; it moves the checkout, and hooks run
`tfnet start`, which replays the ledger again. An operator works in the same
checkout with `approve`, which pulls, writes, commits and pushes.

What is hard here:

- everything between a read of the directory and the write that depends on it
  (commit and approve replay first and append last);
- a process that dies between two file accesses, a line that is written in part;
- stale proposals, signatures made with a key that has been replaced;
- a sync whose only memory is HEAD, in a checkout that others move too;
- pushes that are rejected or whose answer is lost, rebases that conflict,
  branches that are rewound;
- approvals in parallel clones, of which neither sees the other's signatures;
- a start that fails, dies or overlaps another one between two of its fifteen
  commands, and that must be repaired by the next start.

What makes each component correct:

- the chain: it replays, and a member has consented to everything since it joined;
- the directory: signatures that were collected are not lost, a proposal with
  all signatures can be committed;
- approve: nothing that is published is lost, neither a commit of others, nor
  a line of the log, nor a signature; every log replays, after a rebase too;
- sync: hooks see verified ledgers only, the overlay ends up with the published
  members and never moves backwards, and the diffs given to hooks add up;
- runtime: a start that succeeds has configured everything, whatever was there
  before; peers come from one ledger; FRR announces what the data plane reaches.

## 2. The modules

**`Ledger`** is the pure part. A hash is the sequence of the payloads it covers,
a signature is the pair of a key and the hash it signs; both abstractions say
that SHA-256 has no collisions and that Ed25519 signatures are not forged. The
endpoint hint is part of a subject and not of the payload, as in
`canonicalSubject`. `CanApply` is the sequence of checks in `State.Apply`,
split into `RequirementKnown` and `RequiredApprovers` (the two outcomes of the
function of that name), `Signatories` (`pubkeysForVerify`) and
`ApprovalsVerify`. For a GENESIS or ADD the key of a subject takes precedence
over that of a member with its node id, as the map assignments in the code do.
`Replay` is `Store.Replay`: a recursive function over the lines of a log that
stops changing the state at the first entry that does not apply. `Consented`
says what a log shows on its own, without knowing who wrote it.

**`MembershipLog`** is the abstract specification: a history of payloads, the
members, the signatures ever made. A step is either somebody signing, or one
operation on the membership that everyone in the *new* membership has signed.

**`PeerConfig`** is the other abstract specification, of what a start of the
overlay promises to whoever runs it: it reads one configuration, whole, from a
ledger that it accepts, and puts exactly that one in place, later or not at all.
Its three variables are what is `offered`, what the start under way has `taken`
and what is `configured`. `Effect` says what a configuration comes to where it is
put, because WireGuard keeps one of several peers with one key. `Overlay`
implements it with commands, files and devices.

**`LedgerDir`** is one ledger directory and any number of processes. Its
variables are the decoded log and whether bytes that do not decode follow it
(`log`, `torn`), the pending directories, and for each process the command it
is running with what it holds in memory (`cmd`). A step is one access to the
file system with the computation after it. Two variables record history and
are read by guards only where the code reads the files they stand for:
`replayed`, the outcome of `Store.Replay` on the log, kept line by line
(that one more line is one more `ReplayEntry` is `ReplayAppend` in
`ReplayProofs`), and `signed`, every signature file ever written, which is what
`ledger merge` may be given.

| Action | Code |
| --- | --- |
| `ProposeGenesis`, `ProposeAdd`, `ProposeSelfAdd`, `ProposeRemove`, then `SavePending` (and `LoadSaved`, `SaveSig` for self-add) | the propose commands |
| `Sign` then `SaveSig`; `SignDetached`; `Merge` then `SaveSig` | `ledger sign`, `sign -out`, `ledger merge` of one file |
| `ReplayLog`, `CommitLoad`, `AppendEntry`, `RemovePending` or `KeepPending` | `ledger commit` |
| `ReplayLog`, `ApproveLoad`, `SaveSig`, `ApproveReload` or `NoFinalize`, `AppendEntry`, `RemovePending` | `ledger approve` |
| `GiveUp` | the early returns of commit and approve |
| `AppendFails`, `Crash`, `CrashInSave`, `CrashInSaveSig`, `CrashInRemove` | a failing write, a process that dies between or inside accesses |

`approve` keeps the state it replayed at its start up to the append, and so
does `commit`; nothing checks the file again. That is in the model as it is in
the code.

**`Sync`** is one host. A branch is a sequence of ledgers, of which only the
members are kept, whether the replay succeeds (`verifies`), and whether the
members fit together on this host (`fits`: no overlay address twice, and the
WireGuard key that the ledger has for this host is its own); commits that change
nothing but `pending/` repeat the ledger before them. Its variables are the branch at
the remote, the remote-tracking branch, HEAD, an uncommitted log, a rebase that
stopped in a conflict, the phase of every sync and approve, and what the
overlay was last configured with. Every phase of `syncer.Run` is an action, in
the order of the code, and each reads HEAD or the working tree anew where the
code does. `Startable` is what `runtime.Start` asks of a ledger before it touches
anything: `loadSelf`, `EnsureUniqueOverlay` and the check of the own key. `Verify`
asks for the replay only, so a ledger may pass the sync and not the start. `RunHooks` and `StartApplies` together are the post-update hook of
`contrib/hooks.d.example` with the `tfnet start` it calls: the first replays the
ledger, the second has configured the peers. `told` is what a listener knows
who adds up `TFNET_ADDED` and `TFNET_REMOVED`. The git operations themselves
(fast-forward, rebase, push) are modelled from the flags they are called with.

**`LedgerGit`** is the same ledger directory as it travels: every operator has a
clone, and a step is what one of them does between two accesses to the remote.
A tree is the log and the set of files under `pending/`; git compares trees file
by file, and every command replays the log anew (`Current`). Its variables are the published trees
(`origin`), and for each clone the published tree it is based on (`at`), the tree
of its `branch`, the working tree and where its command is (`pc`). HEAD is the
branch except while a rebase is stopped. Commits that a clone has not
pushed are one tree, because a push and a rebase treat them as one. Commands
that overlap within one directory are the subject of `LedgerDir`.

| Action | Code |
| --- | --- |
| `Pull`, `NoPull` | the fetch and `merge --ff-only` at the start of approve, `-no-pull` and the commands by hand |
| `ProposeSelfAdd`, `ProposeRemove`, `Sign`, `Commit` | those commands, with the `git add` and `git commit` that the documentation has follow them |
| `Approve` | `ledger approve` from the replay to `gitCommitAndPush`, with `-no-finalize`, `-keep-pending`, `-no-push` |
| `GiveUp` | nothing to approve, not a required approver, an abort |
| `Push`, `PushFails`, `Dies`, `Rebase` | `gitCommitAndPush`: a push, one rebase, one more push; a push that does not get through, or whose answer is lost |
| `Retry`, `Abort`, `Reset` | what an operator does by hand afterwards (`git pull --rebase && git push`; `git rebase --abort`, and `git reset --hard` besides) |

`gitCommitAndPush` runs `git pull --rebase` and aborts nothing. A conflict
therefore ends the command in the middle of a rebase: the branch is where it
was, HEAD is detached at the remote's commit, and `log.jsonl` holds conflict
markers, so that no command can replay it (`Unmerged`). Nobody works in that
clone until the operator ends the rebase.

`Merged` is git's three-way merge of two trees: the side that changed the log
wins, and both having changed it is a conflict (`LogConflict`); files that one
side added or removed are added or removed. The git operations are external to
the repository and modelled from the arguments they are called with.

**`Overlay`** is `tfnet start` and `tfnet stop` on one host, command by command:
each external command (`wg-quick`, `wg syncconf`, `ip`, `bridge`, `vtysh`,
`systemctl`) and each write of a file is a step, and nothing keeps two processes
apart. Its variables are the ledger that the directory holds by now, the two
configuration files, the three devices, what FRR runs, and the command of each
process with what it has rendered. `disturbed` is a history variable: since the
last start that succeeded on its own the host was rebooted, `vtysh` failed or
two processes overlapped. It is read by no guard.

| Action | Code |
| --- | --- |
| `Start` | `runStart` to the rendering in `runtime.Start`: replay, `loadSelf`, `EnsureUniqueOverlay`, `WireGuardConf`, `FRRConf` |
| `WriteWgConf`, `ProbeWg`, `WgUp`, `Strip`, `SyncConf`, `ProbeVxlan`, `AddVxlan`, `ProbeBridge`, `AddBridge`, `SetMaster`, `SetKnobs`, `VxlanUp`, `BridgeUp`, `WriteFrrConf`, `Reload` | the commands of `runtime.Start`, in its order |
| `HotReloadFails`, `CommandFails`, `WriteSome` | `wgSyncConf` fails, which is only logged; any other command fails; a file that is written in part |
| `Stop`, `Vtysh`, `DelVxlan`, `DelBridge`, `WgDown`, `VtyshFails`, `StopFails` | `runtime.Stop`, which goes on after a failure |
| `Crash`, `Reboot`, `LedgerMoves` | a process dies; the host reboots; a sync or an approve moves the ledger |

A command whose device is not as it needs it (`Possible`) fails, as the kernel
makes it fail. `Installed` is what an interface may have of the peers that it is
given: one of those that share a key, and none with its own. Neither the ledger
nor start forbids shared keys. `Sync`'s `RunHooks`, `StartApplies` and `StartFails` stand for a
whole start: when it reads the ledger, and when the peers are in place.

How the modules fit: `LedgerDir` and `LedgerGit` both build on `Ledger`, one with
processes in a directory and one with directories in clones; the branch that
`Sync` follows is what `LedgerGit` publishes, and what `Sync` applies is what
`Overlay` does step by step, for the ledgers that the steps of `Sync` bring.
What `Sync` takes for granted of a start, that it reads the ledger once and that
the peers it has read are the ones it puts in place, is what `PeerConfig` says, and
`Overlay` provides it while processes do not
overlap (syncs of one timer do not), and again once those that did have ended.
Starts that overlap may read each other's half-written file; what holds of the
peers then is `PeersOfOneLedger`.

**`MCLedgerDir`**, **`MCLedgerGit`**, **`MCSync`**, **`MCOverlay`** give the
constants small values. The theorems are in **`LedgerProofs`** (the pure part),
**`ReplayProofs`** (logs and what they replay to), **`PrefixLemmas`** (sequences that begin with one another), **`LedgerDirProofs`**,
**`LedgerGitProofs`**, **`SyncProofs`** and **`OverlayProofs`**.

Definitions whose name has an underscore (`CanApply_PresenceOnly`) are seeded
faults, each the way a plausible mistake would change the definition named
before the underscore. No specification uses them. Substituting one for its
original makes TLC report the property it is paired with in `PROJECT.json`.

## 3. The runs

| Run | Instance | Shows |
| --- | --- | --- |
| `rekey` | one process, two nodes, one of which may return with another key; three entries, crashes between and inside file accesses | `TypeOK`; `HeadSignedByMembers`: the head carries a signature of each member by its present key; `ConsentSinceJoining`: so does every entry since the one that introduced the member; `ChainIntact`: the log always replays; `SignaturesKept`: signatures leave a directory only with a commit, or when their own signer's file is written again. |
| `concurrent` | two processes (symmetric), two entries, torn appends | `Implements`: the directory refines `MembershipLog`, even where the log stops replaying; `DamageIsBounded`: a race may spoil the log for good, but what is written behind that point is one line for each process at the most, because whatever starts later refuses to go on (the instance reaches the bound). |
| `git` | two operators, the second of whom joins; one works without pulling, leaves changes uncommitted, has a failing network and may die, the other keeps directories and does not finalise; three log entries, four published trees | `TypeOK`; `EveryLogReplays`: published and committed logs replay, and so do those of working trees where no rebase has stopped; `MembersConsented`: each of these logs holds, on its own, every member's approval of every entry since it joined; `OneHeadOneMembership`: clones with one head have one membership (these two hold of any logs at all, by the first two theorems below: the run checks the validation and the payload, not the interleavings); `PublishedLogGrows`; `PublishedFilesKept`: a published signature or proposal stays until its own entry is committed. |
| `start` | two processes (symmetric) that start and stop, three ledgers one after the other, of which the first has one address twice; failing commands, crashes, reboots, files written in part | `TypeOK`; `SuccessConfigures`: an undisturbed start that succeeds has the peers of both planes as its ledger names them, and the VXLAN device a port of the bridge, up, with its knobs set (addresses of devices that were there already are another matter: `start_address`); `AnnouncesOverDataPlane`; `OneKeyPerAddress`; `PeersOfOneLedger`; `ImplementsApart`: while no process has overlapped with another or warned, the peers of the interface are replaced as a whole, by those that the start under way has read, whatever crashes have left of the file and earlier starts of the interface: `PeerConfig`. |
| `sync_alone` | one sync at a time, nothing else in the checkout; ledgers that are broken, miss this host or have an address twice, rewinds, failing fetches and starts, crashes | `TypeOK`; `HooksSeeVerifiedLedger`; `OverlayNeverGoesBack`. |
| `sync_converges` | one sync, the same ledgers, fetches fail now and then, with fairness | `Converges`: the overlay ends up with the published members unless the branch cannot be followed or the host not be started from it; `OverlayKeepsUp`: whenever a sync is about to merge, the overlay has been configured from HEAD itself if HEAD can be started at all, be the member diff empty and whatever ledgers came before; `ListenersInformed`. |
| `sync_shared` | a sync with `-no-verify` and an approve in one checkout, others push | `OverlayFromVerifiedLedger`: what `tfnet start` checks alone keeps a ledger that is broken, misses this host or has an address twice from the overlay. |

Five runs show disagreements between the code and what the repository says of it:

| Run | Property | What happens |
| --- | --- | --- |
| `twocommits` | `ChainIntact` | Two commits both replay and then both append: a sequence number twice, and no command replays the log from then on (`entry.go:4`). |
| `sync_approve` | `Converges` | approve moves HEAD in the checkout of the sync; the next sync sees no change and the overlay keeps its old peers (`README.md:338`). A sync that dies after its merge, or a restart hook that fails, has the same effect: with `Faults = {"crash"}` or `{"start"}` and no approver the same property fails. |
| `sync_badhead` | `SuccessMeansVerified` | A ledger that fails verification stays at HEAD; the next sync succeeds without verifying (`syncer.go:20`). |
| `git_nobody` | `CompleteIsCommitted` | Two members approve a joiner in parallel. The second push is rejected and rebased onto the first, which completes the signatures; but approve looked for missing ones before it pushed, and nobody looks again (`docs/signing-sequence.md:61`). |
| `start_address` | `SuccessReconciles` | A host returns to the ledger with another `overlay_ip`. `tfnet start` leaves a VXLAN device that exists alone and hot-reloads only the peers of WireGuard, so it succeeds with the old address on both (`runtime.go:124`). |

### Bounds

In `LedgerDir` the bounds are guards on the *start* of a command, so whatever has
started runs to its end: `MaxSeq` entries in the log, `MaxPending` proposals,
`MaxSigned` signatures. In `Sync` the bound `MaxHistory` is a guard on a *new
commit*, of a peer or of an approve; every other step is unbounded. The interesting cases fit. Three entries are
what a removal and a return take (`rekey`: GENESIS of two, REMOVE, ADD with the
new key, five signatures). Two proposals are what a stale one needs. Two
processes are what a lost update needs, and two entries let the second build
on the first. Histories of three ledgers have a common start, a commit of one's
own and one of others, which is what a rejected push and a rebase take; four
let a broken ledger be repaired while a sync is under way.

In `LedgerGit` `MaxSeq` is a guard on the start of what appends or proposes, and
`MaxHistory` one on the start of a command: whatever has started may still
publish. Three entries are the genesis, the second operator's joining and one
more by either, so that two clones commit different entries of one sequence
number; four published trees leave room for a proposal, an approval and two
pushes that race (176,000 distinct states). `git_nobody` needs a third operator,
since a joiner's proposal must lack two signatures.

`Overlay` has no counter, and no bound but the ledgers that follow one another
and the two processes. The ledgers of `start` are the cases that its properties
tell apart: an address twice with different prefix lengths, a member less, an
address with another key. Its 1.55 million distinct states take about three
minutes. Members have keys of their own there; ledgers in which they share them
are covered by the theorems about `Overlay`, which assume nothing of keys. Two
overlapping processes are what a mix of two starts needs.

Where the bounds stop the system, the configurations of `LedgerDir`, `LedgerGit`
and `sync_alone` switch deadlock checking off. The others keep it on: a timer
starts another sync, and an operator another start or stop, at any time.

### Fairness

Only `FairSpec` of `Sync` has fairness: weak fairness of the sync steps, because
`tfnet-sync.timer` starts a sync every two minutes and each of its commands
ends, and strong fairness of a successful fetch, because `Converges` is about
hosts that reach the remote now and then. Approvals, publications and faults
have none. `Converges` excuses behaviours in which, again and again, the branch
is not ahead of HEAD, or its ledger does not verify, does not hold the host, or
does not fit: those the sync or the start refuses by design. `LedgerGit` and
`Overlay` have no liveness properties: what their operators do next is up to them, and `CompleteIsCommitted`
says what must hold once they have all stopped.

## 4. What is proved

All theorems hold for every value of the constants that meets the named
assumptions of the modules: every set of processes, clones, nodes, keys and
subjects, every choice of faults, every sequence of ledgers and every bound.
Where a theorem needs more, it assumes it by name.

| Theorem | States | Assumes besides |
| --- | --- | --- |
| `ReplayProofs` `ReplayShowsConsent` | every log is `Consented`: whoever is a member by what it replays to has approved, in that log and with its present key, every entry since it joined | |
| `HeadDeterminesLog` | two logs that replay to one head have one length, the same entry hashes, and the same members up to endpoint hints | |
| `LedgerDirProofs` `TypeCorrect`, `EveryMemberSignedHead`, `EveryMemberConsents` | `TypeOK`, `HeadSignedByMembers`, `ConsentSinceJoining` | |
| `DirectoryImplementsLog` | `Implements`, the refinement of `MembershipLog` | |
| `RacesWasteOneLineEach` | `DamageIsBounded` | finitely many processes |
| `OneProcessKeepsChain` | `ChainIntact` | one process, no torn lines |
| `CollectedSignaturesStay` | `SignaturesKept` | no torn lines |
| `LedgerGitProofs` `TypeCorrect`, `LogsReplay` | `TypeOK`, `EveryLogReplays` | |
| `MembersConsentEverywhere`, `HeadsTellMembershipsApart` | `MembersConsented`, `OneHeadOneMembership` | |
| `PublishedLogOnlyGrows`, `PublishedFilesStay` | `PublishedLogGrows`, `PublishedFilesKept` | |
| `SyncProofs` `TypeCorrect`, `OverlayFromVerified` | `TypeOK`, `OverlayFromVerifiedLedger` | |
| `HooksSeeVerified`, `OverlayOnlyMovesForward` | `HooksSeeVerifiedLedger`, `OverlayNeverGoesBack` | one sync and no approve in the checkout; for the first, no `-no-verify` |
| `ListenersKnowMembers` | `ListenersInformed` | the same, and the sync does not die |
| `OverlayIsUpToHead` | `OverlayKeepsUp` | one sync and no approve in the checkout; the sync does not die, its starts do not fail |
| `OverlayProofs` `TypeCorrect`, `PeersFromOneLedger`, `AddressesLeadToOneKey`, `AnnouncesOnlyOverDataPlane`, `StartConfigures` | `TypeOK`, `PeersOfOneLedger`, `OneKeyPerAddress`, `AnnouncesOverDataPlane`, `SuccessConfigures` | |
| `ApartImplementsConfig` | `ImplementsApart`, the steps of `PeerConfig` between overlaps | |
| `OverlayImplementsConfig` | `Implements`, the refinement of `PeerConfig` (proved only) | one process |

**Logs.** `ReplayProofs` is about logs of any length from any source, so it goes
by induction over their lines. The library's induction theorems take a predicate
as a parameter, which the provers cannot instantiate; `SetInduction` gets around
that for *sets* of numbers, from the library's least-element principle
(`WFMin`, `NatLessThanWellFounded`), and each induction is about the set of the
line numbers that have the property. `ReplaysIs` shows that the recursive
function exists, `ReplayAppend` that one more line is one more `ReplayEntry`. For `ReplayShowsConsent`
the induction carries along that each node has one subject (`WellFormed`), since
a REMOVE takes whoever has the node id. For `HeadDeterminesLog` two logs are
walked back from a common head: a hash determines the payload and the hash
before it (`HashDetermines`), and a payload determines what an entry does to the
members (`PayloadDeterminesChange`).

**`LedgerDir`.** Everything rests on `Invariance`, `Spec => []IInv`. None of the
properties is inductive alone. A member's signature enters the log through an
entry that a process carries in memory, which it had loaded from a directory, so
`IInv` says of each of these that its approvals are signatures somebody made:
`CommandsOK` of the commands, `PendingOK` of the directories, `LedgerOK` of the
chain. `ChainShape` ties the sequence number to the length of the chain and,
while the log replays, to that of the log; `ConsentSinceJoining` needs it to know
which entry a step adds. The heart of the argument is `ApplyNeedsEveryone` in
`LedgerProofs`: whoever is a member after an entry is a required approver of it,
and its approval verifies under the key that it is a member with.
`LineWithEffect` carries this over to a line written to the log,
`LineWithoutEffect` covers lines that do not decode or do not apply, and one
lemma for each group of actions shows that no other step disturbs anything. The
refinement then only has to show that a line is a `Change` (`LineRefines`) and
that every other step is a `Sign` or a stutter. For a process on its own,
`Intact` adds that the state it replayed at its start is still that of the log
when it appends, which is exactly what two processes break in run `twocommits`.
What they can still rely on is `DamageSoFar`: the lines behind the point where the
log stops replaying, and the processes that may yet append one, are together no
more than there are processes, and only a process that has replayed the log
before it stopped replaying can add to them.
For the signatures, `RemovesCommitted` adds that a process about to remove a
directory has its entry in the log; a torn line would hide it.

**`LedgerGit`.** The invariant says that every tree anywhere is a replay of its
log with files under distinct paths (`TreesOK`), that published logs extend one
another (`OriginGrows`), and that in each clone HEAD follows the published tree
it is based on and the working tree follows HEAD, where `Follows(t, u)` is: u's
log extends t's, and t's files are in u or belong to entries that u has
committed. All of that is said of the branch and, where no rebase has stopped, of
the working tree; an `Unmerged` log is no sequence of entries, and the only
steps of its clone put a whole tree in its place. Commands preserve `Follows` because they only add, or remove what
they commit (`LedgerProofs` has what an entry that applies does to a replay).
The merge is where the argument is: with no conflict one of the logs is the
base's, so the merged tree follows both sides. A push then publishes a tree that
follows the tip, and both action properties are `Follows` read off that step.
What logs show of members and heads, in whichever clone, follows from
`ReplayProofs` because every tree is well typed and replays.

**`Sync`.** `IInv` says that branches are nonempty sequences of published ledgers,
and that the overlay, and what a start has read, come from a usable one
(`Configured`). For one sync without an approve `Alone` adds that nothing edits
the working tree, that the overlay and the snapshot of a start are earlier
points of HEAD, and that past `Verify` the ledger verifies. `Informed` adds, for
each phase, how what the sync remembers relates to what listeners know, and
`UpAt` how the overlay relates to HEAD: up to it before the merge, and after it
once the hook's start has ended, or if nothing was merged.

**`Overlay`.** `SourcesOK` says that the WireGuard file, the stripped copy and the
interface have peers of one earlier ledger that may be started, which survives
partial writes since it speaks of subsets. `Progress` says of a process that ran
undisturbed that it is alone and what its commands have achieved by its `pc`
(`Reached`). `SuccessConfigures` is that invariant at the last command, and
`AnnouncesOverDataPlane` is part of it, because the next stop relies on it. That
members may share keys costs three lemmas about `Installed`: what is installed is
part of what was given, there is always something that may be, and of peers with
keys of their own it is all of them.

**`PeerConfig`.** The refinement maps every step to a step or a stutter. The
commands between reading and applying must not lose what was read: `Whole` says
that the file is what the start has written by the time `wg-quick` reads it, and
that the stripped copy is that file's. For `ApartImplementsConfig`, with any
number of processes, `Progress` gives `Whole`, and that nobody else is under way,
of a process whose run is clean; one that begins while another runs spoils both.
For `OverlayImplementsConfig`, which includes starts that have warned, `Whole` is
inductive by itself because there is only one process.

What stays with TLC: `Converges`, which is liveness under fairness, and the
properties of the violation runs, which do not hold. That `Init` and every run
of a command is possible at all (`ENABLED`) is not proved either; the runs reach
every action.

## 5. What is left out

- Reads and writes of one file are atomic, except that a crash may leave a
  truncated file. That a reader sees half of another process's write is not
  modelled.
- Directory names carry 12 digits of the hash; that two hashes share them is not
  modelled, nor are `node_id`s that are no file names.
- Signature files always carry an `entry_hash`; the tools write no others.
- `ledger merge` of several files is several merges of one.
- `-allow-non-ff`: its merge commits would make a branch a graph.
- The lock that git takes on its index: two git commands in one checkout that
  collide fail in reality, and follow each other here.
- Resolving the conflict of a stopped rebase by hand, `log.jsonl` being anything an
  editor can make of it. The operator aborts the rebase, with or without the
  local commits (`LedgerGit`), or leaves it (`Sync`).
- `LedgerGit`: git's rename detection; `propose-add` and `merge`, whose effects on
  files `LedgerDir` has; unpushed commits one by one.
- `Overlay`: `-skip-frr` and `-dry-run`; MTU, VNI, ASN and BFD options, which do not
  depend on the ledger; everything in `frr.conf` that tfnet has not written, since it overwrites the file.
- `tfnet status` and `tfnet render`, which change no state of the host.
- Keys, host configuration, audit log, logging, command line, installation (see
  `PROJECT.json`, "components").

## 6. Plan

Done: `Ledger`, `MembershipLog`, `LedgerDir`, `LedgerGit`, `Sync`, `Overlay` and
`PeerConfig`, with the runs above, and proofs of every safety property that the
passing runs check.

1. The published branch of `LedgerGit` as an implementation of `MembershipLog`, as
   `LedgerDir` is one: a push is a sequence of its changes.
2. A refinement of `LedgerDir`'s single process by the commands of `LedgerGit`, so
   that the step "a command between two accesses to the remote" is justified by
   a proof and not by the argument of section 2 alone.
3. `-allow-non-ff`, as a branch that is a graph of commits.
