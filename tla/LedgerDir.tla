------------------------------ MODULE LedgerDir ------------------------------
(***************************************************************************)
(* One ledger directory and the commands that run on it: log.jsonl, the    *)
(* pending/ directory with its proposals and detached signatures, and any  *)
(* number of tfnet processes that propose, sign, merge, approve and commit *)
(* (internal/ledger/store.go, pending.go, cmd/tfnet/cmd_ledger.go and      *)
(* cmd_ledger_simple.go).  Nothing locks the directory: a step of a        *)
(* process is one access to the file system with the in-memory computation *)
(* that follows it, and the steps of different processes interleave.       *)
(*                                                                         *)
(* A pending directory is named after the hash of its proposal.            *)
(***************************************************************************)
EXTENDS Ledger, FiniteSets

CONSTANTS
    Proc,        \* the processes
    NoEntry,     \* an entry.json that is missing or cannot be parsed
    NoSig,       \* no signature at hand
    Faults,      \* the faults of this environment: "crash", "tear"
    MaxSeq,      \* bound: no command starts once this many entries are logged
    MaxPending,  \* bound: no new proposal starts while this many are pending
    MaxSigned    \* bound: no command sets out to sign once this many exist

ASSUME NoEntryAssumption == NoEntry \notin Entry \cup Proposal
ASSUME NoSigAssumption == NoSig \notin SigFile
ASSUME BoundsAssumption ==
    MaxSeq \in Nat /\ MaxPending \in Nat /\ MaxSigned \in Nat

VARIABLES
    log,       \* the entries that decode from log.jsonl, in order
    torn,      \* log.jsonl ends in bytes that do not decode
    replayed,  \* the outcome of replaying log, a function of log
    pending,   \* directory name |-> contents
    signed,    \* every signature file ever written, wherever it was copied
    cmd        \* process |-> the command it runs

vars == <<log, torn, replayed, pending, signed, cmd>>

-----------------------------------------------------------------------------
(* The pending directory *)

\* `damaged' holds the signers whose file in sigs/ cannot be parsed.
Dir == [entry : Proposal \cup {NoEntry}, sigs : SUBSET SigFile,
        damaged : SUBSET Node]

EmptyDir == [entry |-> NoEntry, sigs |-> {}, damaged |-> {}]

\* MkdirAll creates what is missing.
DirAt(h) == IF h \in DOMAIN pending THEN pending[h] ELSE EmptyDir

PutDir(h, d) ==
    pending' = [g \in DOMAIN pending \cup {h} |-> IF g = h THEN d ELSE pending[g]]

RemoveDir(h) == pending' = [g \in DOMAIN pending \ {h} |-> pending[g]]

\* A signature file replaces the one of the same node.
WithSig(d, s) ==
    [d EXCEPT !.sigs = {t \in @ : t.node # s.node} \cup {s},
              !.damaged = @ \ {s.node}]

\* LoadPending: every file parses and every signature names this hash.
Loadable(h) ==
    /\ h \in DOMAIN pending
    /\ pending[h].entry # NoEntry
    /\ pending[h].damaged = {}
    /\ \A s \in pending[h].sigs : s.hash = HashOf(pending[h].entry)

Loaded(h) == WithApprovals(pending[h].entry, pending[h].sigs)

-----------------------------------------------------------------------------
(* Commands.  pc names the file system access that comes next. *)

Pc == {"idle", "save", "load", "sign", "choose", "approve", "reload",
       "append", "remove"}

\* snap: the replayed state the command works from; entry: the entry it is
\* about, with the approvals it has read; sig: the signature it will write.
Command == [pc : Pc, snap : State, entry : Entry \cup {NoEntry},
            sig : SigFile \cup {NoSig}]

Idle == [pc |-> "idle", snap |-> EmptyState, entry |-> NoEntry, sig |-> NoSig]

Goto(p, c) == cmd' = [cmd EXCEPT ![p] = c]

End(p) == Goto(p, Idle)

Replayable == replayed.ok /\ ~torn

\* Fault: a command goes on with what it could replay.
Starts_Regardless(p) ==
    /\ cmd[p] = Idle
    /\ replayed.state.nextSeq < MaxSeq

\* A command that replays the log dies unless it replays.
Starts(p) ==
    /\ cmd[p] = Idle
    /\ Replayable
    /\ replayed.state.nextSeq < MaxSeq

MaySign == Cardinality(signed) < MaxSigned

Current == replayed.state

\* A new entry on top of the replayed state.
NewEntry(op, xs) ==
    [seq |-> Current.nextSeq, prev |-> Current.prevHash, op |-> op,
     subjects |-> xs, approvals |-> {}]

Propose(p, e, s) ==
    /\ Starts(p)
    /\ HashOf(e) \in DOMAIN pending \/ Cardinality(DOMAIN pending) < MaxPending
    /\ Goto(p, [Idle EXCEPT !.pc = "save", !.entry = e, !.sig = s])
    /\ UNCHANGED <<log, torn, replayed, pending, signed>>

ProposeGenesis(p, xs) ==
    /\ Current.nextSeq = 0
    /\ xs # {}
    /\ Propose(p, NewEntry("GENESIS", xs), NoSig)

MayAdd(x) ==
    /\ x.node \notin MemberIDs(Current)
    /\ ~ OverlayTaken(Current, x.ip)

ProposeAdd(p, x) ==
    /\ MayAdd(x)
    /\ Propose(p, NewEntry("ADD", {x}), NoSig)

\* The joiner signs the proposal that it has just written.
ProposeSelfAdd(p, x) ==
    LET e == NewEntry("ADD", {x}) IN
    /\ MayAdd(x)
    /\ MaySign
    /\ Propose(p, e, SignatureOf(x, HashOf(e)))

ProposeRemove(p, m) ==
    /\ m \in Current.members
    /\ Propose(p, NewEntry("REMOVE", {m}), NoSig)

\* Fault: a proposal that is written again starts with no signatures.
SavePending_DropsSigs(p) ==
    LET e == cmd[p].entry
        h == HashOf(e)
    IN  /\ cmd[p].pc = "save"
        /\ PutDir(h, [EmptyDir EXCEPT !.entry = WithoutApprovals(e)])
        /\ IF cmd[p].sig = NoSig
           THEN End(p)
           ELSE Goto(p, [cmd[p] EXCEPT !.pc = "load"])
        /\ UNCHANGED <<log, torn, replayed, signed>>

\* SavePending writes entry.json, over an earlier one too, and leaves sigs/
\* alone.
SavePending(p) ==
    LET e == cmd[p].entry
        h == HashOf(e)
    IN  /\ cmd[p].pc = "save"
        /\ PutDir(h, [DirAt(h) EXCEPT !.entry = WithoutApprovals(e)])
        /\ IF cmd[p].sig = NoSig
           THEN End(p)
           ELSE Goto(p, [cmd[p] EXCEPT !.pc = "load"])
        /\ UNCHANGED <<log, torn, replayed, signed>>

\* propose-self-add loads what it has saved before it signs.
LoadSaved(p) ==
    /\ cmd[p].pc = "load"
    /\ IF Loadable(HashOf(cmd[p].entry))
       THEN Goto(p, [cmd[p] EXCEPT !.pc = "sign"])
       ELSE End(p)
    /\ UNCHANGED <<log, torn, replayed, pending, signed>>

\* ledger sign: load a proposal; any identity may sign it.
Sign(p, h, x) ==
    /\ cmd[p] = Idle
    /\ Loadable(h)
    /\ MaySign
    /\ LET e == Loaded(h)
       IN  Goto(p, [Idle EXCEPT !.pc = "sign", !.entry = e,
                                !.sig = SignatureOf(x, HashOf(e))])
    /\ UNCHANGED <<log, torn, replayed, pending, signed>>

\* ledger sign -out: the signature goes to a file of its own.
SignDetached(p, h, x) ==
    /\ cmd[p] = Idle
    /\ Loadable(h)
    /\ MaySign
    /\ signed' = signed \cup {SignatureOf(x, HashOf(Loaded(h)))}
    /\ UNCHANGED <<log, torn, replayed, pending, cmd>>

\* ledger merge: copy a signature file that is for this entry into sigs/.
\* A file that is for another entry ends the command with nothing changed.
Merge(p, h, s) ==
    /\ cmd[p] = Idle
    /\ Loadable(h)
    /\ s \in signed
    /\ s.hash = HashOf(pending[h].entry)
    /\ Goto(p, [Idle EXCEPT !.pc = "sign", !.entry = Loaded(h), !.sig = s])
    /\ UNCHANGED <<log, torn, replayed, pending, signed>>

\* SaveSig recreates a directory that was removed since it was loaded.
SaveSig(p) ==
    LET h == HashOf(cmd[p].entry)
    IN  /\ cmd[p].pc \in {"sign", "approve"}
        /\ PutDir(h, WithSig(DirAt(h), cmd[p].sig))
        /\ signed' = signed \cup {cmd[p].sig}
        /\ IF cmd[p].pc = "sign"
           THEN End(p)
           ELSE Goto(p, [cmd[p] EXCEPT !.pc = "reload"])
        /\ UNCHANGED <<log, torn, replayed>>

\* commit and approve: replay the log first.
ReplayLog(p) ==
    /\ Starts(p)
    /\ Goto(p, [Idle EXCEPT !.pc = "choose", !.snap = Current])
    /\ UNCHANGED <<log, torn, replayed, pending, signed>>

\* Fault: the entry is appended without being applied first.
AppendIfValid_Unchecked(p, e) ==
    Goto(p, [cmd[p] EXCEPT !.pc = "append", !.entry = e, !.sig = NoSig])

\* Append e if it is valid on the state replayed earlier; otherwise give up.
AppendIfValid(p, e) ==
    IF CanApply(cmd[p].snap, e)
    THEN Goto(p, [cmd[p] EXCEPT !.pc = "append", !.entry = e, !.sig = NoSig])
    ELSE End(p)

\* ledger commit: load the proposal and apply it to the replayed state.
CommitLoad(p, h) ==
    /\ cmd[p].pc = "choose"
    /\ Loadable(h)
    /\ AppendIfValid(p, Loaded(h))
    /\ UNCHANGED <<log, torn, replayed, pending, signed>>

\* ledger approve, after the choice: only a required approver goes on, and
\* one whose signature is there already does not sign again.
ApproveLoad(p, h, x) ==
    LET e == Loaded(h)
        s == cmd[p].snap
    IN  /\ cmd[p].pc = "choose"
        /\ Loadable(h)
        /\ RequirementKnown(s, e)
        /\ x.node \in RequiredApprovers(s, e)
        /\ x.node \in Approvers(e) \/ MaySign
        /\ IF x.node \in Approvers(e)
           THEN IF MissingApprovers(s, e) = {} THEN AppendIfValid(p, e) ELSE End(p)
           ELSE Goto(p, [cmd[p] EXCEPT !.pc = "approve", !.entry = e,
                                       !.sig = SignatureOf(x, HashOf(e))])
        /\ UNCHANGED <<log, torn, replayed, pending, signed>>

\* Nothing to choose from, not a required approver, the operator aborts, or
\* the directory does not load.
GiveUp(p) ==
    /\ cmd[p].pc = "choose"
    /\ End(p)
    /\ UNCHANGED <<log, torn, replayed, pending, signed>>

\* After signing, approve reads the directory again and commits when no
\* approval is missing.  When the directory no longer loads it goes on with
\* the approvals read before.
ApproveReload(p) ==
    LET h == HashOf(cmd[p].entry)
        e == IF Loadable(h) THEN Loaded(h) ELSE cmd[p].entry
    IN  /\ cmd[p].pc = "reload"
        /\ IF MissingApprovers(cmd[p].snap, e) = {}
           THEN AppendIfValid(p, e)
           ELSE End(p)
        /\ UNCHANGED <<log, torn, replayed, pending, signed>>

\* approve -no-finalize stops after signing.
NoFinalize(p) ==
    /\ cmd[p].pc = "reload"
    /\ End(p)
    /\ UNCHANGED <<log, torn, replayed, pending, signed>>

\* A whole line reaches log.jsonl.  Behind bytes that do not decode it is not
\* decoded either.
LineWritten(e) ==
    IF torn
    THEN UNCHANGED <<log, replayed>>
    ELSE /\ log' = Append(log, e)
         /\ replayed' = ReplayEntry(replayed, e)

\* Store.Append does not validate again.
AppendEntry(p) ==
    /\ cmd[p].pc = "append"
    /\ LineWritten(cmd[p].entry)
    /\ Goto(p, [cmd[p] EXCEPT !.pc = "remove"])
    /\ UNCHANGED <<torn, pending, signed>>

\* The write or the fsync fails: nothing, a part or all of the line is in the
\* file, and the command ends with the proposal still pending.
AppendFails(p) ==
    /\ "tear" \in Faults
    /\ cmd[p].pc = "append"
    /\ \/ UNCHANGED <<log, torn, replayed>>
       \/ torn' = TRUE /\ UNCHANGED <<log, replayed>>
       \/ LineWritten(cmd[p].entry) /\ UNCHANGED torn
    /\ End(p)
    /\ UNCHANGED <<pending, signed>>

RemovePending(p) ==
    /\ cmd[p].pc = "remove"
    /\ RemoveDir(HashOf(cmd[p].entry))
    /\ End(p)
    /\ UNCHANGED <<log, torn, replayed, signed>>

\* commit -keep-pending, or a removal that fails: its error is ignored.
KeepPending(p) ==
    /\ cmd[p].pc = "remove"
    /\ End(p)
    /\ UNCHANGED <<log, torn, replayed, pending, signed>>

\* A process dies before its next access to the file system.
Crash(p) ==
    /\ "crash" \in Faults
    /\ cmd[p] # Idle
    /\ End(p)
    /\ UNCHANGED <<log, torn, replayed, pending, signed>>

\* A process dies while it writes entry.json: the file was truncated first.
CrashInSave(p) ==
    LET h == HashOf(cmd[p].entry)
    IN  /\ "crash" \in Faults
        /\ cmd[p].pc = "save"
        /\ PutDir(h, [DirAt(h) EXCEPT !.entry = NoEntry])
        /\ End(p)
        /\ UNCHANGED <<log, torn, replayed, signed>>

\* A process dies while it writes its signature file.
CrashInSaveSig(p) ==
    LET h == HashOf(cmd[p].entry)
        n == cmd[p].sig.node
        d == DirAt(h)
    IN  /\ "crash" \in Faults
        /\ cmd[p].pc \in {"sign", "approve"}
        /\ PutDir(h, [d EXCEPT !.sigs = {t \in @ : t.node # n},
                               !.damaged = @ \cup {n}])
        /\ End(p)
        /\ UNCHANGED <<log, torn, replayed, signed>>

\* A process dies while RemoveAll deletes files, in no particular order.
CrashInRemove(p) ==
    LET h == HashOf(cmd[p].entry)
    IN  /\ "crash" \in Faults
        /\ cmd[p].pc = "remove"
        /\ h \in DOMAIN pending
        /\ \E f \in {pending[h].entry, NoEntry}, ss \in SUBSET pending[h].sigs :
                PutDir(h, [pending[h] EXCEPT !.entry = f, !.sigs = ss])
        /\ End(p)
        /\ UNCHANGED <<log, torn, replayed, signed>>

-----------------------------------------------------------------------------

Init ==
    /\ log = << >>
    /\ torn = FALSE
    /\ replayed = EmptyReplay
    /\ pending = [h \in {} |-> EmptyDir]
    /\ signed = {}
    /\ cmd = [p \in Proc |-> Idle]

ProposeStep(p) ==
    \/ \E xs \in SUBSET Subject : ProposeGenesis(p, xs)
    \/ \E x \in Subject : ProposeAdd(p, x)
    \/ \E x \in Subject : ProposeSelfAdd(p, x)
    \/ \E m \in Current.members : ProposeRemove(p, m)
    \/ SavePending(p)
    \/ LoadSaved(p)

SignStep(p) ==
    \/ \E h \in DOMAIN pending, x \in Subject : Sign(p, h, x)
    \/ \E h \in DOMAIN pending, x \in Subject : SignDetached(p, h, x)
    \/ \E h \in DOMAIN pending, s \in signed : Merge(p, h, s)
    \/ SaveSig(p)

CommitStep(p) ==
    \/ ReplayLog(p)
    \/ \E h \in DOMAIN pending : CommitLoad(p, h)
    \/ \E h \in DOMAIN pending, x \in Subject : ApproveLoad(p, h, x)
    \/ GiveUp(p)
    \/ ApproveReload(p)
    \/ NoFinalize(p)
    \/ AppendEntry(p)
    \/ RemovePending(p)
    \/ KeepPending(p)

FaultStep(p) ==
    \/ AppendFails(p)
    \/ Crash(p)
    \/ CrashInSave(p)
    \/ CrashInSaveSig(p)
    \/ CrashInRemove(p)

Next == \E p \in Proc :
    ProposeStep(p) \/ SignStep(p) \/ CommitStep(p) \/ FaultStep(p)

Spec == Init /\ [][Next]_vars
-----------------------------------------------------------------------------
(* Properties *)

\* The type invariant: what the files hold decodes to the types of entry.go,
\* and the map of members has one subject for each node.
TypeOK ==
    /\ log \in Seq(Entry)
    /\ torn \in BOOLEAN
    /\ replayed \in ReplayResult
    /\ \A h \in DOMAIN pending : h \in Hash /\ pending[h] \in Dir
    /\ signed \subseteq SigFile
    /\ cmd \in [Proc -> Command]
    /\ \A m, k \in Current.members : m.node = k.node => m = k

\* The head of the chain carries a signature of every current member, made
\* with the key it is a member with.
HeadSignedByMembers ==
    Current.nextSeq > 0 =>
        \A m \in Current.members : SignatureOf(m, Current.prevHash) \in signed

\* Node n is introduced by an entry behind the i-th.
IntroducedAfter(n, i) == IntroducedWithin(log, n, i, Current.nextSeq)

\* A member has signed every entry since the one that introduced it.
ConsentSinceJoining ==
    \A m \in Current.members, i \in 1 .. Current.nextSeq :
        IntroducedAfter(m.node, i) \/ SignatureOf(m, HashOf(log[i])) \in signed

\* Two commands that race may append a line with which the log does not replay
\* any more.  But no more than one line for each process is there in vain: no
\* command that starts afterwards appends another.
DamageIsBounded == Len(log) <= Current.nextSeq + Cardinality(Proc)

\* log.jsonl replays from beginning to end.
ChainIntact == Replayable

Committed(h) == \E i \in DOMAIN log : HashOf(log[i]) = h

\* A collected signature disappears only when its proposal is committed or
\* when its own signer's file is written again.
SignatureStays(h, s) ==
    /\ h \in DOMAIN pending'
    /\ \/ \E t \in pending'[h].sigs : t.node = s.node
       \/ s.node \in pending'[h].damaged

SignaturesKept ==
    [][\A h \in DOMAIN pending : \A s \in pending[h].sigs :
            SignatureStays(h, s) \/ Committed(h)]_vars

Promise == INSTANCE MembershipLog
    WITH history <- Current.prevHash, members <- Current.members

\* Every step is one the abstract membership log allows.
Implements == Promise!Spec
=============================================================================
