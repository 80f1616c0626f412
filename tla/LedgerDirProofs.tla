--------------------------- MODULE LedgerDirProofs ---------------------------
(***************************************************************************)
(* Theorems about LedgerDir, for every set of processes, subjects and      *)
(* faults and every bound: type correctness, the signatures behind the     *)
(* head and behind every entry since a member joined, how much of the log  *)
(* a race can waste, and that LedgerDir implements MembershipLog.  Without *)
(* torn lines also that collected signatures stay, and that the log        *)
(* replays if one process works on it.                                     *)
(***************************************************************************)
EXTENDS LedgerDir, ReplayProofs, FiniteSetTheorems

-----------------------------------------------------------------------------
(* The inductive invariant *)

\* What log.jsonl and its replay have to do with each other.
ChainShape ==
    /\ Current.nextSeq = Len(Current.prevHash)
    /\ Current.nextSeq <= Len(log)
    /\ replayed.ok => Current.nextSeq = Len(log)
    /\ Current.nextSeq = 0 => Current.members = {}

LedgerOK ==
    /\ log \in Seq(Entry)
    /\ torn \in BOOLEAN
    /\ replayed \in ReplayResult
    /\ signed \subseteq SigFile
    /\ \A m, k \in Current.members : m.node = k.node => m = k
    /\ ChainShape
    /\ HeadSignedByMembers
    /\ ConsentSinceJoining

\* Pending directories hold only signatures that somebody made.
DirOK(d, made) == d \in Dir /\ d.sigs \subseteq made

PendingOK == \A h \in DOMAIN pending : h \in Hash /\ DirOK(pending[h], signed)

\* So do the commands that have loaded one.
CommandOK(c, made) ==
    /\ c \in Command
    /\ c.pc \notin {"idle", "choose"} =>
           c.entry \in Entry /\ c.entry.approvals \subseteq made
    /\ c.pc \in {"load", "sign", "approve"} => c.sig \in SigFile

CommandsOK ==
    /\ cmd = [p \in Proc |-> cmd[p]]
    /\ \A p \in Proc : CommandOK(cmd[p], signed)

IInv == LedgerOK /\ PendingOK /\ CommandsOK

-----------------------------------------------------------------------------
(* Lemmas about the ledger directory *)

\* A process without a command is in order.
LEMMA IdleIsOK ==
    ASSUME NEW made
    PROVE  CommandOK(Idle, made)
  <1>1. << >> \in Seq(Payload)
    OBVIOUS
  <1>2. EmptyState \in State
    BY <1>1 DEF EmptyState, State, ZeroHash, Hash
  <1>3. QED
    BY <1>2 DEF CommandOK, Idle, Command, Pc

\* MkdirAll makes no signatures.
LEMMA DirAtIsOK ==
    ASSUME PendingOK, NEW h
    PROVE  DirOK(DirAt(h), signed)
  BY DEF PendingOK, DirAt, DirOK, EmptyDir, Dir

\* What LoadPending returns is an entry with approvals that somebody made.
LEMMA LoadedIsOK ==
    ASSUME PendingOK, signed \subseteq SigFile, NEW h, Loadable(h)
    PROVE  /\ Loaded(h) \in Entry
           /\ Loaded(h).approvals \subseteq signed
           /\ HashOf(Loaded(h)) \in Hash
  <1>1. /\ pending[h].entry \in Proposal
        /\ pending[h].sigs \in SUBSET SigFile
        /\ pending[h].sigs \subseteq signed
    BY DEF PendingOK, DirOK, Dir, Loadable
  <1>2. Loaded(h) \in Entry /\ Loaded(h).approvals \subseteq signed
    BY <1>1, HashIgnoresApprovals DEF Loaded
  <1>3. QED
    BY <1>2, HashOfIsHash

\* What a propose command writes is an entry without approvals.
LEMMA NewEntryIsEntry ==
    ASSUME replayed \in ReplayResult, NEW op \in Op, NEW xs \in SUBSET Subject
    PROVE  /\ NewEntry(op, xs) \in Entry
           /\ NewEntry(op, xs).approvals = {}
  BY DEF NewEntry, Entry, ReplayResult, State, Current

\* Writing a directory that is in order keeps pending/ in order.
LEMMA PutDirKeepsOrder ==
    ASSUME PendingOK, signed \subseteq signed', NEW h \in Hash, NEW d,
           DirOK(d, signed'), PutDir(h, d)
    PROVE  PendingOK'
  BY DEF PendingOK, PutDir, DirOK
-----------------------------------------------------------------------------
(* Writing a line to log.jsonl *)

\* A line that is not decoded, or does not apply, leaves the state alone.
LEMMA LineWithoutEffect ==
    ASSUME LedgerOK, NEW e \in Entry, LineWritten(e), torn' \in BOOLEAN,
           signed' = signed,
           torn \/ ~ (replayed.ok /\ CanApply(Current, e))
    PROVE  LedgerOK'
  <1>1. /\ log' \in Seq(Entry)
        /\ Len(log) <= Len(log')
        /\ \A i \in 1 .. Len(log) : log'[i] = log[i]
    BY DEF LedgerOK, LineWritten
  <1>2. /\ Current' = Current
        /\ replayed' \in ReplayResult
    <2>1. CASE torn
      BY <2>1 DEF LedgerOK, LineWritten, Current
    <2>2. CASE ~ torn
      <3>1. replayed' = [ok |-> FALSE, state |-> replayed.state]
        BY <2>2 DEF LineWritten, ReplayEntry, Current
      <3>2. replayed.state \in State
        BY DEF LedgerOK, ReplayResult
      <3>3. QED
        BY <3>1, <3>2 DEF Current, ReplayResult
    <2>3. QED
      BY <2>1, <2>2
  <1>3. Current.nextSeq \in Nat /\ Current.nextSeq <= Len(log)
    BY DEF LedgerOK, ChainShape, ReplayResult, State, Current
  <1>4. ChainShape'
    BY <1>1, <1>2, <1>3 DEF LedgerOK, ChainShape, LineWritten, ReplayEntry, Current
  <1>5. \A i \in 1 .. Current.nextSeq : log'[i] = log[i]
    BY <1>1, <1>3
  <1>6. ConsentSinceJoining'
    BY <1>2, <1>3, <1>5 DEF LedgerOK, ConsentSinceJoining, IntroducedAfter, IntroducedWithin
  <1>7. QED
    BY <1>1, <1>2, <1>4, <1>6 DEF LedgerOK, HeadSignedByMembers

\* What appending to the log does to it.
LEMMA LogGrows ==
    ASSUME log \in Seq(Entry), NEW e \in Entry, log' = Append(log, e)
    PROVE  /\ log' \in Seq(Entry)
           /\ Len(log') = Len(log) + 1
           /\ \A i \in 1 .. Len(log) : log'[i] = log[i]
           /\ log'[Len(log) + 1] = e
  <1>1. Append(log, e) \in Seq(Entry)
    OBVIOUS
  <1>2. QED
    BY <1>1, AppendProperties

\* A line that applies extends the chain by one signed change.
LEMMA LineWithEffect ==
    ASSUME LedgerOK, NEW e \in Entry, e.approvals \subseteq signed,
           LineWritten(e), torn' \in BOOLEAN, signed' = signed,
           ~ torn, replayed.ok, CanApply(Current, e)
    PROVE  LedgerOK'
  <1> DEFINE n == Current.nextSeq
  <1>1. /\ log \in Seq(Entry)
        /\ Current \in State
        /\ n \in Nat
        /\ n = Len(log)
        /\ n = Len(Current.prevHash)
        /\ n = 0 => Current.members = {}
        /\ OneEach(Current.members)
    BY DEF LedgerOK, ChainShape, ReplayResult, State, Current, OneEach
  <1>2. /\ log' = Append(log, e)
        /\ replayed' = [ok |-> TRUE, state |-> AfterApply(Current, e)]
    BY DEF LineWritten, ReplayEntry, Current
  <1>3. /\ log' \in Seq(Entry)
        /\ Len(log') = n + 1
        /\ log'[n + 1] = e
        /\ \A i \in 1 .. n : log'[i] = log[i]
    <2>1. /\ log' \in Seq(Entry)
          /\ Len(log') = Len(log) + 1
          /\ \A i \in 1 .. Len(log) : log'[i] = log[i]
          /\ log'[Len(log) + 1] = e
      BY <1>1, <1>2, LogGrows
    <2>2. QED
      BY <1>1, <2>1
  <1>4. /\ Current' = AfterApply(Current, e)
        /\ Current' \in State
        /\ replayed' \in ReplayResult
        /\ replayed'.ok = TRUE
        /\ Current'.nextSeq = n + 1
        /\ Current'.prevHash = HashOf(e)
    BY <1>1, <1>2, AfterApplyIsState DEF Current, ReplayResult
  <1>5. OneEach(Current'.members)
    BY <1>1, <1>4, ApplyKeepsOneEach
  <1>6. \A m \in Current'.members : SignatureOf(m, HashOf(e)) \in signed
    BY <1>1, <1>4, ApplyNeedsEveryone
  <1>7. e.prev = Current.prevHash
    BY DEF CanApply
  <1>8. ChainShape'
    BY <1>1, <1>3, <1>4, <1>7, HashOfLength DEF ChainShape
  <1>9. HeadSignedByMembers'
    BY <1>4, <1>6 DEF HeadSignedByMembers
  <1>10. ConsentSinceJoining'
    <2> SUFFICES ASSUME NEW m \in Current'.members, NEW i \in 1 .. (n + 1),
                        ~ IntroducedAfter(m.node, i)'
                 PROVE  SignatureOf(m, HashOf(log'[i])) \in signed
      BY <1>4 DEF ConsentSinceJoining
    <2>1. CASE i = n + 1
      BY <2>1, <1>3, <1>6
    <2>2. CASE i # n + 1
      <3>1. i \in 1 .. n /\ log'[i] = log[i]
        BY <1>1, <1>3, <2>2
      <3>2. ~ (e.op # "REMOVE" /\ m.node \in Targets(e))
        BY <1>1, <1>3, <1>4, <3>1 DEF IntroducedAfter, IntroducedWithin
      <3>3. m \in Current.members
        BY <1>4, <3>2 DEF AfterApply, Targets
      <3>4. ~ IntroducedAfter(m.node, i)
        BY <1>1, <1>3, <1>4, <3>1 DEF IntroducedAfter, IntroducedWithin
      <3>5. QED
        BY <3>1, <3>3, <3>4 DEF LedgerOK, ConsentSinceJoining
    <2>3. QED
      BY <2>1, <2>2
  <1>11. QED
    BY <1>3, <1>4, <1>5, <1>8, <1>9, <1>10 DEF LedgerOK, OneEach

\* Either way, a line that is written leaves the ledger in order.
LEMMA LineKeepsLedger ==
    ASSUME LedgerOK, NEW e \in Entry, e.approvals \subseteq signed,
           LineWritten(e), torn' \in BOOLEAN, signed' = signed
    PROVE  LedgerOK'
  BY LineWithoutEffect, LineWithEffect

\* New signatures disturb nothing.
LEMMA SigningKeepsLedger ==
    ASSUME LedgerOK, signed \subseteq signed', signed' \subseteq SigFile,
           UNCHANGED <<log, replayed>>, torn' \in BOOLEAN
    PROVE  LedgerOK'
  BY DEF LedgerOK, ChainShape, HeadSignedByMembers, ConsentSinceJoining,
         IntroducedAfter, IntroducedWithin, Current

-----------------------------------------------------------------------------
(* The steps that leave the log alone, and those that write a line *)

\* A command that is about to use its entry or its signature has one.
LEMMA WorkingCommand ==
    ASSUME CommandsOK, NEW p \in Proc, cmd[p].pc \notin {"idle", "choose"}
    PROVE  /\ cmd[p].entry \in Entry
           /\ cmd[p].entry.approvals \subseteq signed
           /\ HashOf(cmd[p].entry) \in Hash
           /\ cmd[p].pc \in {"load", "sign", "approve"} => cmd[p].sig \in SigFile
  BY HashOfIsHash DEF CommandsOK, CommandOK

\* The sign and merge commands add signatures and touch no log.
LEMMA Signing ==
    ASSUME IInv, NEW p \in Proc, SignStep(p)
    PROVE  /\ signed \subseteq signed'
           /\ signed' \subseteq SigFile
           /\ UNCHANGED <<log, torn, replayed>>
  <1>1. ASSUME NEW h \in DOMAIN pending, NEW x \in Subject, SignDetached(p, h, x)
        PROVE  /\ signed \subseteq signed'
               /\ signed' \subseteq SigFile
               /\ UNCHANGED <<log, torn, replayed>>
    BY <1>1, LoadedIsOK, SignatureIsSigFile DEF IInv, LedgerOK, SignDetached
  <1>2. ASSUME SaveSig(p)
        PROVE  /\ signed \subseteq signed'
               /\ signed' \subseteq SigFile
               /\ UNCHANGED <<log, torn, replayed>>
    BY <1>2, WorkingCommand DEF IInv, LedgerOK, SaveSig
  <1>3. QED
    BY <1>1, <1>2 DEF SignStep, Sign, Merge, IInv, LedgerOK

\* Every step leaves the ledger in order.
LEMMA LedgerStep ==
    ASSUME IInv, NEW p \in Proc,
           ProposeStep(p) \/ SignStep(p) \/ CommitStep(p) \/ FaultStep(p)
    PROVE  LedgerOK'
  <1>1. CASE ProposeStep(p)
    BY <1>1, SigningKeepsLedger
       DEF IInv, LedgerOK, ProposeStep, ProposeGenesis, ProposeAdd, ProposeSelfAdd,
           ProposeRemove, Propose, SavePending, LoadSaved
  <1>2. CASE SignStep(p)
    BY <1>2, Signing, SigningKeepsLedger DEF IInv, LedgerOK
  <1>3. CASE CommitStep(p)
    <2>1. CASE AppendEntry(p)
      BY <2>1, WorkingCommand, LineKeepsLedger DEF AppendEntry, IInv, LedgerOK
    <2>2. CASE ~ AppendEntry(p)
      BY <1>3, <2>2, SigningKeepsLedger
         DEF IInv, LedgerOK, CommitStep, ReplayLog, CommitLoad, ApproveLoad, GiveUp,
             ApproveReload, NoFinalize, RemovePending, KeepPending
    <2>3. QED
      BY <2>1, <2>2
  <1>4. CASE FaultStep(p)
    <2>1. CASE AppendFails(p)
      <3>1. cmd[p].pc = "append" /\ signed' = signed
        BY <2>1 DEF AppendFails
      <3>2. CASE LineWritten(cmd[p].entry) /\ UNCHANGED torn
        BY <3>1, <3>2, WorkingCommand, LineKeepsLedger DEF IInv, LedgerOK
      <3>3. CASE UNCHANGED <<log, replayed>> /\ torn' \in BOOLEAN
        BY <3>1, <3>3, SigningKeepsLedger DEF IInv, LedgerOK
      <3>4. QED
        BY <2>1, <3>2, <3>3 DEF AppendFails, IInv, LedgerOK
    <2>2. CASE ~ AppendFails(p)
      BY <1>4, <2>2, SigningKeepsLedger
         DEF IInv, LedgerOK, FaultStep, Crash, CrashInSave, CrashInSaveSig,
             CrashInRemove
    <2>3. QED
      BY <2>1, <2>2
  <1>5. QED
    BY <1>1, <1>2, <1>3, <1>4
-----------------------------------------------------------------------------
(* The pending directories *)

\* Signatures are never forgotten, so a directory in order stays in order.
LEMMA SignedGrows ==
    ASSUME IInv, NEW p \in Proc,
           ProposeStep(p) \/ SignStep(p) \/ CommitStep(p) \/ FaultStep(p)
    PROVE  signed \subseteq signed'
  <1>1. CASE SignStep(p)
    BY <1>1, Signing
  <1>2. CASE ~ SignStep(p)
    BY <1>2
       DEF ProposeStep, ProposeGenesis, ProposeAdd, ProposeSelfAdd, ProposeRemove,
           Propose, SavePending, LoadSaved, CommitStep, ReplayLog, CommitLoad,
           ApproveLoad, GiveUp, ApproveReload, NoFinalize, AppendEntry,
           RemovePending, KeepPending, FaultStep, AppendFails, Crash, CrashInSave,
           CrashInSaveSig, CrashInRemove
  <1>3. QED
    BY <1>1, <1>2

\* A step that leaves pending/ alone leaves it in order.
LEMMA UnchangedPending ==
    ASSUME PendingOK, signed \subseteq signed', pending' = pending
    PROVE  PendingOK'
  BY DEF PendingOK, DirOK

\* Every step leaves pending/ in order.
LEMMA PendingStep ==
    ASSUME IInv, NEW p \in Proc,
           ProposeStep(p) \/ SignStep(p) \/ CommitStep(p) \/ FaultStep(p)
    PROVE  PendingOK'
  <1> DEFINE h == HashOf(cmd[p].entry)
  <1>1. PendingOK /\ CommandsOK /\ signed \subseteq signed'
    BY SignedGrows DEF IInv
  <1>2. DirOK(DirAt(h), signed')
    BY <1>1, DirAtIsOK DEF DirOK
  <1>3. CASE pending' = pending
    BY <1>1, <1>3, UnchangedPending
  <1>4. CASE SavePending(p)
    <2>1. h \in Hash /\ WithoutApprovals(cmd[p].entry) \in Proposal
      BY <1>1, <1>4, WorkingCommand, HashIgnoresApprovals DEF SavePending
    <2>2. DirOK([DirAt(h) EXCEPT !.entry = WithoutApprovals(cmd[p].entry)],
               signed')
      BY <1>1, <1>2, <1>4, <2>1 DEF SavePending, DirOK, Dir
    <2>3. QED
      BY <1>1, <1>4, <2>1, <2>2, PutDirKeepsOrder DEF SavePending
  <1>5. CASE SaveSig(p)
    <2>1. h \in Hash /\ cmd[p].sig \in SigFile
      BY <1>1, <1>5, WorkingCommand DEF SaveSig
    <2>2. cmd[p].sig \in signed'
      BY <1>5 DEF SaveSig
    <2>3. DirOK(WithSig(DirAt(h), cmd[p].sig), signed')
      BY <1>1, <1>2, <2>1, <2>2 DEF WithSig, DirOK, Dir
    <2>4. QED
      BY <1>1, <1>5, <2>1, <2>3, PutDirKeepsOrder DEF SaveSig
  <1>6. CASE RemovePending(p)
    BY <1>1, <1>6 DEF RemovePending, RemoveDir, PendingOK, DirOK
  <1>7. CASE CrashInSave(p)
    <2>1. h \in Hash
      BY <1>1, <1>7, WorkingCommand DEF CrashInSave
    <2>2. DirOK([DirAt(h) EXCEPT !.entry = NoEntry], signed')
      BY <1>1, <1>2 DEF DirOK, Dir
    <2>3. QED
      BY <1>1, <1>7, <2>1, <2>2, PutDirKeepsOrder DEF CrashInSave
  <1>8. CASE CrashInSaveSig(p)
    <2>1. h \in Hash /\ cmd[p].sig.node \in Node
      BY <1>1, <1>8, WorkingCommand DEF CrashInSaveSig, SigFile
    <2>2. DirOK([DirAt(h) EXCEPT
                     !.sigs = {t \in @ : t.node # cmd[p].sig.node},
                     !.damaged = @ \cup {cmd[p].sig.node}], signed')
      BY <1>1, <1>2, <2>1 DEF DirOK, Dir
    <2>3. QED
      BY <1>1, <1>8, <2>1, <2>2, PutDirKeepsOrder DEF CrashInSaveSig
  <1>9. CASE CrashInRemove(p)
    <2>1. h \in Hash /\ h \in DOMAIN pending
      BY <1>1, <1>9, WorkingCommand DEF CrashInRemove
    <2>2. PICK f \in {pending[h].entry, NoEntry}, ss \in SUBSET pending[h].sigs :
              PutDir(h, [pending[h] EXCEPT !.entry = f, !.sigs = ss])
      BY <1>9 DEF CrashInRemove
    <2>3. DirOK([pending[h] EXCEPT !.entry = f, !.sigs = ss], signed')
      BY <1>1, <2>1 DEF PendingOK, DirOK, Dir
    <2>4. QED
      BY <1>1, <2>1, <2>2, <2>3, PutDirKeepsOrder
  <1>10. QED
    BY <1>3, <1>4, <1>5, <1>6, <1>7, <1>8, <1>9
       DEF ProposeStep, ProposeGenesis, ProposeAdd, ProposeSelfAdd, ProposeRemove,
           Propose, LoadSaved, SignStep, Sign, SignDetached, Merge, CommitStep,
           ReplayLog, CommitLoad, ApproveLoad, GiveUp, ApproveReload, NoFinalize,
           AppendEntry, KeepPending, FaultStep, AppendFails, Crash

-----------------------------------------------------------------------------
(* The commands *)

\* A process that moves on with a command in order.
LEMMA GotoKeepsOrder ==
    ASSUME CommandsOK, signed \subseteq signed', NEW p \in Proc, NEW c,
           CommandOK(c, signed'), Goto(p, c)
    PROVE  CommandsOK'
  BY DEF CommandsOK, CommandOK, Goto

\* A process that ends its command is in order.
LEMMA EndKeepsOrder ==
    ASSUME CommandsOK, signed \subseteq signed', NEW p \in Proc, End(p)
    PROVE  CommandsOK'
  <1>1. CommandOK(Idle, signed')
    BY IdleIsOK
  <1>2. QED
    BY <1>1, GotoKeepsOrder DEF End

\* A step that leaves the commands alone leaves them in order.
LEMMA UnchangedCommands ==
    ASSUME CommandsOK, signed \subseteq signed', cmd' = cmd
    PROVE  CommandsOK'
  BY DEF CommandsOK, CommandOK

\* The commands that start with an entry at hand.
LEMMA NewCommandIsOK ==
    ASSUME NEW pc \in Pc \ {"load", "sign", "approve"}, NEW e \in Entry,
           NEW made, e.approvals \subseteq made, NEW s \in SigFile \cup {NoSig}
    PROVE  CommandOK([Idle EXCEPT !.pc = pc, !.entry = e, !.sig = s], made)
  BY IdleIsOK DEF CommandOK, Command, Idle

\* A command that sets out to write a signature is in order.
LEMMA SigningCommandIsOK ==
    ASSUME NEW e \in Entry, NEW made, e.approvals \subseteq made, NEW s \in SigFile
    PROVE  CommandOK([Idle EXCEPT !.pc = "sign", !.entry = e, !.sig = s], made)
  BY IdleIsOK DEF CommandOK, Command, Idle, Pc

\* A command that proposes has an entry at hand.
LEMMA ProposeKeepsCommands ==
    ASSUME IInv, NEW p \in Proc, NEW op \in Op, NEW xs \in SUBSET Subject,
           NEW s \in SigFile \cup {NoSig}, Propose(p, NewEntry(op, xs), s)
    PROVE  CommandsOK'
  <1>1. /\ NewEntry(op, xs) \in Entry
        /\ NewEntry(op, xs).approvals \subseteq signed
    BY NewEntryIsEntry DEF IInv, LedgerOK
  <1>2. CommandOK([Idle EXCEPT !.pc = "save", !.entry = NewEntry(op, xs), !.sig = s],
                  signed)
    BY <1>1, NewCommandIsOK DEF Pc
  <1>3. signed' = signed
    BY DEF Propose
  <1>4. QED
    BY <1>2, <1>3, GotoKeepsOrder DEF Propose, IInv

\* The propose commands stay in order from start to end.
LEMMA ProposeStepKeepsCommands ==
    ASSUME IInv, NEW p \in Proc, ProposeStep(p)
    PROVE  CommandsOK'
  <1>1. ASSUME NEW xs \in SUBSET Subject, ProposeGenesis(p, xs)
        PROVE  CommandsOK'
    BY <1>1, ProposeKeepsCommands DEF ProposeGenesis, Op
  <1>2. ASSUME NEW x \in Subject, ProposeAdd(p, x)
        PROVE  CommandsOK'
    BY <1>2, ProposeKeepsCommands DEF ProposeAdd, Op
  <1>3. ASSUME NEW x \in Subject, ProposeSelfAdd(p, x)
        PROVE  CommandsOK'
    <2> DEFINE e == NewEntry("ADD", {x})
    <2>1. e \in Entry
      BY NewEntryIsEntry DEF IInv, LedgerOK, Op
    <2>2. HashOf(e) \in Hash
      BY <2>1, HashOfIsHash
    <2>3. SignatureOf(x, HashOf(e)) \in SigFile
      BY <2>2, SignatureIsSigFile
    <2>4. QED
      BY <1>3, <2>3, ProposeKeepsCommands DEF ProposeSelfAdd, Op
  <1>4. ASSUME NEW m \in Current.members, ProposeRemove(p, m)
        PROVE  CommandsOK'
    <2>1. {m} \in SUBSET Subject
      BY DEF IInv, LedgerOK, ReplayResult, State, Current
    <2>2. QED
      BY <1>4, <2>1, ProposeKeepsCommands DEF ProposeRemove, Op
  <1>5. CASE SavePending(p) \/ LoadSaved(p)
    <2>1. CommandsOK /\ signed' = signed
      BY <1>5 DEF IInv, SavePending, LoadSaved
    <2>2. CASE End(p)
      BY <2>1, <2>2, EndKeepsOrder
    <2>3. CASE cmd[p].pc = "save" /\ cmd[p].sig # NoSig
                 /\ Goto(p, [cmd[p] EXCEPT !.pc = "load"])
      <3>1. CommandOK([cmd[p] EXCEPT !.pc = "load"], signed')
        BY <2>1, <2>3 DEF CommandsOK, CommandOK, Command, Pc
      <3>2. QED
        BY <2>1, <2>3, <3>1, GotoKeepsOrder
    <2>4. CASE cmd[p].pc = "load" /\ Goto(p, [cmd[p] EXCEPT !.pc = "sign"])
      <3>1. CommandOK([cmd[p] EXCEPT !.pc = "sign"], signed')
        BY <2>1, <2>4 DEF CommandsOK, CommandOK, Command, Pc
      <3>2. QED
        BY <2>1, <2>4, <3>1, GotoKeepsOrder
    <2>5. QED
      BY <1>5, <2>2, <2>3, <2>4 DEF SavePending, LoadSaved
  <1>6. QED
    BY <1>1, <1>2, <1>3, <1>4, <1>5 DEF ProposeStep
\* The sign and merge commands stay in order.
LEMMA SignStepKeepsCommands ==
    ASSUME IInv, NEW p \in Proc, SignStep(p)
    PROVE  CommandsOK'
  <1>1. CommandsOK /\ PendingOK /\ signed \subseteq SigFile /\ signed \subseteq signed'
    BY Signing DEF IInv, LedgerOK
  <1>2. ASSUME NEW h \in DOMAIN pending, NEW x \in Subject, Sign(p, h, x)
        PROVE  CommandsOK'
    <2>1. Loadable(h) /\ signed' = signed
      BY <1>2 DEF Sign
    <2>2. /\ Loaded(h) \in Entry
          /\ Loaded(h).approvals \subseteq signed
          /\ SignatureOf(x, HashOf(Loaded(h))) \in SigFile
      BY <1>1, <2>1, LoadedIsOK, SignatureIsSigFile
    <2>3. CommandOK([Idle EXCEPT !.pc = "sign", !.entry = Loaded(h),
                                 !.sig = SignatureOf(x, HashOf(Loaded(h)))], signed')
      BY <2>1, <2>2, SigningCommandIsOK
    <2>4. QED
      BY <1>1, <1>2, <2>3, GotoKeepsOrder DEF Sign
  <1>3. ASSUME NEW h \in DOMAIN pending, NEW s \in signed, Merge(p, h, s)
        PROVE  CommandsOK'
    <2>1. Loadable(h) /\ signed' = signed
      BY <1>3 DEF Merge
    <2>2. /\ Loaded(h) \in Entry
          /\ Loaded(h).approvals \subseteq signed
          /\ s \in SigFile
      BY <1>1, <2>1, LoadedIsOK
    <2>3. CommandOK([Idle EXCEPT !.pc = "sign", !.entry = Loaded(h), !.sig = s],
                    signed')
      BY <2>1, <2>2, SigningCommandIsOK
    <2>4. QED
      BY <1>1, <1>3, <2>3, GotoKeepsOrder DEF Merge
  <1>4. ASSUME NEW h \in DOMAIN pending, NEW x \in Subject, SignDetached(p, h, x)
        PROVE  CommandsOK'
    BY <1>1, <1>4, UnchangedCommands DEF SignDetached
  <1>5. CASE SaveSig(p)
    <2>1. CASE End(p)
      BY <1>1, <2>1, EndKeepsOrder
    <2>2. CASE cmd[p].pc = "approve" /\ Goto(p, [cmd[p] EXCEPT !.pc = "reload"])
      <3>1. CommandOK([cmd[p] EXCEPT !.pc = "reload"], signed')
        BY <1>1, <2>2 DEF CommandsOK, CommandOK, Command, Pc
      <3>2. QED
        BY <1>1, <2>2, <3>1, GotoKeepsOrder
    <2>3. QED
      BY <1>5, <2>1, <2>2 DEF SaveSig
  <1>6. QED
    BY <1>2, <1>3, <1>4, <1>5 DEF SignStep

\* Whatever a command has loaded, it may go on to append.
LEMMA AppendIfValidKeepsCommands ==
    ASSUME CommandsOK, signed' = signed, NEW p \in Proc, NEW e \in Entry,
           e.approvals \subseteq signed, AppendIfValid(p, e)
    PROVE  CommandsOK'
  <1>1. CASE End(p)
    BY <1>1, EndKeepsOrder
  <1>2. CASE Goto(p, [cmd[p] EXCEPT !.pc = "append", !.entry = e, !.sig = NoSig])
    <2>1. CommandOK([cmd[p] EXCEPT !.pc = "append", !.entry = e, !.sig = NoSig],
                    signed')
      BY DEF CommandsOK, CommandOK, Command, Pc
    <2>2. QED
      BY <1>2, <2>1, GotoKeepsOrder
  <1>3. QED
    BY <1>1, <1>2 DEF AppendIfValid

\* The commit and approve commands stay in order.
LEMMA CommitStepKeepsCommands ==
    ASSUME IInv, NEW p \in Proc, CommitStep(p)
    PROVE  CommandsOK'
  <1>1. /\ CommandsOK /\ PendingOK /\ signed \subseteq SigFile
        /\ signed' = signed
    BY DEF IInv, LedgerOK, CommitStep, ReplayLog, CommitLoad, ApproveLoad, GiveUp,
           ApproveReload, NoFinalize, AppendEntry, RemovePending, KeepPending
  <1>2. CASE ReplayLog(p)
    <2>1. Current \in State
      BY DEF IInv, LedgerOK, ReplayResult, Current
    <2>2. CommandOK([Idle EXCEPT !.pc = "choose", !.snap = Current], signed')
      BY <2>1, IdleIsOK DEF CommandOK, Command, Idle, Pc
    <2>3. QED
      BY <1>1, <1>2, <2>2, GotoKeepsOrder DEF ReplayLog
  <1>3. ASSUME NEW h \in DOMAIN pending, CommitLoad(p, h)
        PROVE  CommandsOK'
    BY <1>1, <1>3, LoadedIsOK, AppendIfValidKeepsCommands DEF CommitLoad
  <1>4. ASSUME NEW h \in DOMAIN pending, NEW x \in Subject, ApproveLoad(p, h, x)
        PROVE  CommandsOK'
    <2>1. Loadable(h)
      BY <1>4 DEF ApproveLoad
    <2>2. /\ Loaded(h) \in Entry
          /\ Loaded(h).approvals \subseteq signed
          /\ SignatureOf(x, HashOf(Loaded(h))) \in SigFile
      BY <1>1, <2>1, LoadedIsOK, SignatureIsSigFile
    <2>3. CASE End(p)
      BY <1>1, <2>3, EndKeepsOrder
    <2>4. CASE AppendIfValid(p, Loaded(h))
      BY <1>1, <2>2, <2>4, AppendIfValidKeepsCommands
    <2>5. CASE Goto(p, [cmd[p] EXCEPT !.pc = "approve", !.entry = Loaded(h),
                            !.sig = SignatureOf(x, HashOf(Loaded(h)))])
      <3>1. CommandOK([cmd[p] EXCEPT !.pc = "approve", !.entry = Loaded(h),
                           !.sig = SignatureOf(x, HashOf(Loaded(h)))], signed')
        BY <1>1, <2>2 DEF CommandsOK, CommandOK, Command, Pc
      <3>2. QED
        BY <1>1, <2>5, <3>1, GotoKeepsOrder
    <2>6. QED
      BY <1>4, <2>3, <2>4, <2>5 DEF ApproveLoad
  <1>5. CASE ApproveReload(p)
    <2> DEFINE h == HashOf(cmd[p].entry)
               e == IF Loadable(h) THEN Loaded(h) ELSE cmd[p].entry
    <2>1. e \in Entry /\ e.approvals \subseteq signed
      BY <1>1, <1>5, LoadedIsOK, WorkingCommand DEF ApproveReload
    <2>2. AppendIfValid(p, e) \/ End(p)
      BY <1>5 DEF ApproveReload
    <2>3. QED
      BY <1>1, <2>1, <2>2, AppendIfValidKeepsCommands, EndKeepsOrder
  <1>6. CASE AppendEntry(p)
    <2>1. CommandOK([cmd[p] EXCEPT !.pc = "remove"], signed')
      BY <1>1, <1>6 DEF AppendEntry, CommandsOK, CommandOK, Command, Pc
    <2>2. QED
      BY <1>1, <1>6, <2>1, GotoKeepsOrder DEF AppendEntry
  <1>7. CASE End(p)
    BY <1>1, <1>7, EndKeepsOrder
  <1>8. QED
    BY <1>2, <1>3, <1>4, <1>5, <1>6, <1>7
       DEF CommitStep, GiveUp, NoFinalize, RemovePending, KeepPending

\* A command that dies leaves its process idle.
LEMMA FaultStepKeepsCommands ==
    ASSUME IInv, NEW p \in Proc, FaultStep(p)
    PROVE  CommandsOK'
  <1>1. End(p) /\ signed' = signed
    BY DEF FaultStep, AppendFails, Crash, CrashInSave, CrashInSaveSig, CrashInRemove
  <1>2. QED
    BY <1>1, EndKeepsOrder DEF IInv

-----------------------------------------------------------------------------
(* The theorems *)

\* An empty ledger directory satisfies the inductive invariant.
LEMMA InitIsOK == Init => IInv
  <1> SUFFICES ASSUME Init PROVE IInv
    OBVIOUS
  <1>1. EmptyReplay \in ReplayResult
    <2>1. << >> \in Seq(Payload)
      OBVIOUS
    <2>2. EmptyState \in State
      BY <2>1 DEF EmptyState, State, ZeroHash, Hash
    <2>3. QED
      BY <2>2 DEF EmptyReplay, ReplayResult
  <1>2. log = << >> /\ replayed = EmptyReplay /\ torn = FALSE /\ signed = {}
    BY DEF Init
  <1>3. LedgerOK
    <2>1. /\ Current.nextSeq = 0
          /\ Current.members = {}
          /\ Len(Current.prevHash) = 0
      BY <1>2 DEF Current, EmptyReplay, EmptyState, ZeroHash
    <2>2. log \in Seq(Entry) /\ Len(log) = 0
      BY <1>2
    <2>3. ChainShape
      BY <2>1, <2>2 DEF ChainShape
    <2>4. QED
      BY <1>1, <1>2, <2>1, <2>2, <2>3
         DEF LedgerOK, HeadSignedByMembers, ConsentSinceJoining
  <1>4. PendingOK
    BY DEF Init, PendingOK
  <1>5. CommandsOK
    BY IdleIsOK DEF Init, CommandsOK
  <1>6. QED
    BY <1>3, <1>4, <1>5 DEF IInv

\* The inductive invariant is preserved by every step.
LEMMA NextKeepsOrder == IInv /\ [Next]_vars => IInv'
  <1> SUFFICES ASSUME IInv, [Next]_vars PROVE IInv'
    OBVIOUS
  <1>1. ASSUME NEW p \in Proc,
               ProposeStep(p) \/ SignStep(p) \/ CommitStep(p) \/ FaultStep(p)
        PROVE  IInv'
    <2>1. CommandsOK'
      BY <1>1, ProposeStepKeepsCommands, SignStepKeepsCommands,
         CommitStepKeepsCommands, FaultStepKeepsCommands
    <2>2. QED
      BY <1>1, <2>1, LedgerStep, PendingStep DEF IInv
  <1>2. CASE UNCHANGED vars
    BY <1>2
       DEF vars, IInv, LedgerOK, ChainShape, HeadSignedByMembers,
           ConsentSinceJoining, IntroducedAfter, Current, PendingOK, CommandsOK
  <1>3. QED
    BY <1>1, <1>2 DEF Next

\* The inductive invariant holds throughout: the ledger, pending/ and all
\* commands stay in order whatever interleaves, crashes or tears a line.
THEOREM Invariance == Spec => []IInv
  <1>1. QED
    BY InitIsOK, NextKeepsOrder, PTL DEF Spec

\* Every variable keeps its type, and the members are one subject per node:
\* no sequence of commands, crashes and failed writes gets anything else into
\* the replayed state (State.Apply, Store.Append, SaveSig).
THEOREM TypeCorrect == Spec => []TypeOK
  <1>1. IInv => TypeOK
    BY DEF IInv, LedgerOK, PendingOK, CommandsOK, DirOK, CommandOK, TypeOK
  <1>2. QED
    BY <1>1, Invariance, PTL

\* N-of-N at the head: whoever is a member has signed the newest entry, with
\* the key it is a member with, however many processes raced (State.Apply).
THEOREM EveryMemberSignedHead == Spec => []HeadSignedByMembers
  <1>1. IInv => HeadSignedByMembers
    BY DEF IInv, LedgerOK
  <1>2. QED
    BY <1>1, Invariance, PTL

\* N-of-N over time: a member has signed every entry from the one that
\* introduced it to the head (State.RequiredApprovers, State.Apply).
THEOREM EveryMemberConsents == Spec => []ConsentSinceJoining
  <1>1. IInv => ConsentSinceJoining
    BY DEF IInv, LedgerOK
  <1>2. QED
    BY <1>1, Invariance, PTL
-----------------------------------------------------------------------------
(* What a race leaves in the log *)

\* The commands that are going to append a line, unless they end first.
Appending == {"choose", "approve", "reload", "append"}

UnderWay == {p \in Proc : cmd[p].pc \in Appending}

\* Each of them may add a line to a log that does not replay any more.
DamageSoFar ==
    ~ replayed.ok =>
        Len(log) + Cardinality(UnderWay) <= Current.nextSeq + Cardinality(Proc)

\* A step that writes no line, and lets nobody set out to append.
NobodySetsOut ==
    /\ UNCHANGED <<log, replayed>>
    /\ ~ replayed.ok => UnderWay' \subseteq UnderWay

\* p writes its line, and that is all that it writes.
WritesLine(p) ==
    /\ cmd[p].pc = "append"
    /\ LineWritten(cmd[p].entry)
    /\ UnderWay' = UnderWay \ {p}

\* p goes on, behind the choice only if it was there before.
LEMMA GoingOnSetsOutNobody ==
    ASSUME CommandsOK, NEW p \in Proc, NEW c, Goto(p, c),
           UNCHANGED <<log, replayed>>,
           c.pc \in Appending => cmd[p].pc \in Appending
    PROVE  NobodySetsOut
  <1>1. cmd'[p] = c /\ \A q \in Proc \ {p} : cmd'[q] = cmd[q]
    BY DEF CommandsOK, Goto
  <1>2. QED
    BY <1>1 DEF NobodySetsOut, UnderWay

LEMMA EndingSetsOutNobody ==
    ASSUME CommandsOK, NEW p \in Proc, End(p), UNCHANGED <<log, replayed>>
    PROVE  NobodySetsOut
  <1>1. Idle.pc \notin Appending
    BY DEF Idle, Appending
  <1>2. QED
    BY <1>1, GoingOnSetsOutNobody DEF End

LEMMA AppendIfValidSetsOutNobody ==
    ASSUME CommandsOK, NEW p \in Proc, NEW e, AppendIfValid(p, e),
           cmd[p].pc \in Appending, UNCHANGED <<log, replayed>>
    PROVE  NobodySetsOut
  <1> DEFINE c == [cmd[p] EXCEPT !.pc = "append", !.entry = e, !.sig = NoSig]
  <1>1. Goto(p, c) \/ End(p)
    BY DEF AppendIfValid
  <1> HIDE DEF c
  <1>2. QED
    BY <1>1, GoingOnSetsOutNobody, EndingSetsOutNobody

LEMMA ProposeSetsOutNobody ==
    ASSUME CommandsOK, NEW p \in Proc, ProposeStep(p)
    PROVE  NobodySetsOut
  <1>1. cmd[p] \in Command /\ UNCHANGED <<log, replayed>>
    BY DEF CommandsOK, CommandOK, ProposeStep, ProposeGenesis, ProposeAdd,
           ProposeSelfAdd, ProposeRemove, Propose, SavePending, LoadSaved
  <1>2. ASSUME NEW e, NEW s, Propose(p, e, s)
        PROVE  NobodySetsOut
    <2> DEFINE c == [Idle EXCEPT !.pc = "save", !.entry = e, !.sig = s]
    <2>1. c.pc \notin Appending
      BY DEF Idle, Appending
    <2>2. Goto(p, c)
      BY <1>2 DEF Propose
    <2> HIDE DEF c
    <2>3. QED
      BY <1>1, <2>1, <2>2, GoingOnSetsOutNobody
  <1>3. ASSUME NEW l \in {"load", "sign"}, Goto(p, [cmd[p] EXCEPT !.pc = l])
        PROVE  NobodySetsOut
    <2> DEFINE c == [cmd[p] EXCEPT !.pc = l]
    <2>1. c.pc \notin Appending
      BY <1>1 DEF Command, Appending
    <2> HIDE DEF c
    <2>2. QED
      BY <1>1, <1>3, <2>1, GoingOnSetsOutNobody DEF c
  <1>4. CASE SavePending(p) \/ LoadSaved(p)
    BY <1>1, <1>3, <1>4, EndingSetsOutNobody DEF SavePending, LoadSaved
  <1>5. QED
    BY <1>2, <1>4
       DEF ProposeStep, ProposeGenesis, ProposeAdd, ProposeSelfAdd, ProposeRemove

LEMMA SignSetsOutNobody ==
    ASSUME CommandsOK, NEW p \in Proc, SignStep(p)
    PROVE  NobodySetsOut
  <1>1. cmd[p] \in Command /\ UNCHANGED <<log, replayed>>
    BY DEF CommandsOK, CommandOK, SignStep, Sign, SignDetached, Merge, SaveSig
  <1>2. ASSUME NEW e, NEW s,
               Goto(p, [Idle EXCEPT !.pc = "sign", !.entry = e, !.sig = s])
        PROVE  NobodySetsOut
    <2> DEFINE c == [Idle EXCEPT !.pc = "sign", !.entry = e, !.sig = s]
    <2>1. c.pc \notin Appending
      BY DEF Idle, Appending
    <2> HIDE DEF c
    <2>2. QED
      BY <1>1, <1>2, <2>1, GoingOnSetsOutNobody DEF c
  <1>3. ASSUME NEW h \in DOMAIN pending, NEW x \in Subject,
               Sign(p, h, x) \/ SignDetached(p, h, x)
        PROVE  NobodySetsOut
    <2>1. CASE Sign(p, h, x)
      BY <1>2, <2>1 DEF Sign
    <2>2. CASE SignDetached(p, h, x)
      BY <2>2 DEF SignDetached, NobodySetsOut, UnderWay
    <2>3. QED
      BY <1>3, <2>1, <2>2
  <1>4. ASSUME NEW h \in DOMAIN pending, NEW s \in signed, Merge(p, h, s)
        PROVE  NobodySetsOut
    BY <1>2, <1>4 DEF Merge
  <1>5. CASE SaveSig(p)
    <2> DEFINE c == [cmd[p] EXCEPT !.pc = "reload"]
    <2>1. End(p) \/ (cmd[p].pc = "approve" /\ Goto(p, c))
      BY <1>5 DEF SaveSig
    <2> HIDE DEF c
    <2>2. QED
      BY <1>1, <2>1, GoingOnSetsOutNobody, EndingSetsOutNobody DEF Appending
  <1>6. QED
    BY <1>3, <1>4, <1>5 DEF SignStep

\* Only replaying the log lets a process set out, and then the log replays.
LEMMA CommitSetsOutNobody ==
    ASSUME CommandsOK, NEW p \in Proc, CommitStep(p), ~ AppendEntry(p)
    PROVE  NobodySetsOut
  <1>1. UNCHANGED <<log, replayed>>
    BY DEF CommitStep, ReplayLog, CommitLoad, ApproveLoad, GiveUp, ApproveReload,
           NoFinalize, RemovePending, KeepPending
  <1>2. CASE ReplayLog(p)
    BY <1>1, <1>2 DEF ReplayLog, Starts, Replayable, NobodySetsOut
  <1>3. ASSUME NEW h \in DOMAIN pending, CommitLoad(p, h)
        PROVE  NobodySetsOut
    BY <1>1, <1>3, AppendIfValidSetsOutNobody DEF CommitLoad, Appending
  <1>4. ASSUME NEW h \in DOMAIN pending, NEW x \in Subject, ApproveLoad(p, h, x)
        PROVE  NobodySetsOut
    <2> DEFINE e == Loaded(h)
               c == [cmd[p] EXCEPT !.pc = "approve", !.entry = e,
                                   !.sig = SignatureOf(x, HashOf(e))]
    <2>1. /\ cmd[p].pc \in Appending
          /\ AppendIfValid(p, e) \/ End(p) \/ Goto(p, c)
      BY <1>4 DEF ApproveLoad, Appending
    <2> HIDE DEF c, e
    <2>2. QED
      BY <1>1, <2>1, GoingOnSetsOutNobody, EndingSetsOutNobody,
         AppendIfValidSetsOutNobody
  <1>5. CASE ApproveReload(p)
    <2>1. /\ cmd[p].pc \in Appending
          /\ End(p) \/ \E e : AppendIfValid(p, e)
      BY <1>5 DEF ApproveReload, Appending
    <2>2. QED
      BY <1>1, <2>1, EndingSetsOutNobody, AppendIfValidSetsOutNobody
  <1>6. CASE GiveUp(p) \/ NoFinalize(p) \/ RemovePending(p) \/ KeepPending(p)
    BY <1>1, <1>6, EndingSetsOutNobody
       DEF GiveUp, NoFinalize, RemovePending, KeepPending
  <1>7. QED
    BY <1>2, <1>3, <1>4, <1>5, <1>6 DEF CommitStep

\* A line is written by a process that is done with appending then.
LEMMA WritingEnds ==
    ASSUME CommandsOK, NEW p \in Proc, cmd[p].pc = "append",
           LineWritten(cmd[p].entry), End(p) \/ AppendEntry(p)
    PROVE  WritesLine(p)
  <1>1. cmd[p] \in Command
    BY DEF CommandsOK, CommandOK
  <1>2. cmd'[p].pc \notin Appending /\ \A q \in Proc \ {p} : cmd'[q] = cmd[q]
    <2>1. CASE End(p)
      BY <2>1 DEF End, Goto, Idle, CommandsOK, Appending
    <2>2. CASE AppendEntry(p)
      BY <1>1, <2>2 DEF AppendEntry, Goto, CommandsOK, Command, Appending
    <2>3. QED
      BY <2>1, <2>2
  <1>3. QED
    BY <1>2 DEF WritesLine, UnderWay

LEMMA StepSetsOutOrWrites ==
    ASSUME CommandsOK, NEW p \in Proc,
           ProposeStep(p) \/ SignStep(p) \/ CommitStep(p) \/ FaultStep(p)
    PROVE  NobodySetsOut \/ WritesLine(p)
  <1>1. CASE AppendEntry(p)
    BY <1>1, WritingEnds DEF AppendEntry
  <1>2. CASE FaultStep(p)
    <2>1. End(p)
      BY <1>2 DEF FaultStep, AppendFails, Crash, CrashInSave, CrashInSaveSig,
                  CrashInRemove
    <2>2. UNCHANGED <<log, replayed>>
          \/ (cmd[p].pc = "append" /\ LineWritten(cmd[p].entry))
      BY <1>2 DEF FaultStep, AppendFails, Crash, CrashInSave, CrashInSaveSig,
                  CrashInRemove
    <2>3. QED
      BY <2>1, <2>2, WritingEnds, EndingSetsOutNobody
  <1>3. QED
    BY <1>1, <1>2, ProposeSetsOutNobody, SignSetsOutNobody, CommitSetsOutNobody

\* One that is under way is one process.
LEMMA UnderWayIsFinite ==
    ASSUME IsFiniteSet(Proc)
    PROVE  /\ IsFiniteSet(UnderWay)
           /\ Cardinality(UnderWay) \in Nat /\ Cardinality(Proc) \in Nat
           /\ \A p \in UnderWay :
                  /\ Cardinality(UnderWay \ {p}) = Cardinality(UnderWay) - 1
                  /\ Cardinality(UnderWay \ {p}) <= Cardinality(Proc) - 1
  <1>1. IsFiniteSet(UnderWay) /\ Cardinality(UnderWay) <= Cardinality(Proc)
    BY FS_Subset DEF UnderWay
  <1>2. Cardinality(UnderWay) \in Nat /\ Cardinality(Proc) \in Nat
    BY <1>1, FS_CardinalityType
  <1>3. \A p \in UnderWay :
            Cardinality(UnderWay \ {p}) = Cardinality(UnderWay) - 1
    BY <1>1, FS_RemoveElement
  <1>4. QED
    BY <1>1, <1>2, <1>3

LEMMA LineDamages ==
    ASSUME IsFiniteSet(Proc), IInv, DamageSoFar, NEW p \in Proc, WritesLine(p)
    PROVE  DamageSoFar'
  <1> SUFFICES ASSUME ~ replayed'.ok
               PROVE  Len(log') + Cardinality(UnderWay')
                        <= Current'.nextSeq + Cardinality(Proc)
    BY DEF DamageSoFar
  <1> DEFINE n == Current.nextSeq
             u == Cardinality(UnderWay)
             k == Cardinality(Proc)
  <1>1. /\ UnderWay' = UnderWay \ {p} /\ p \in UnderWay
        /\ LineWritten(cmd[p].entry) /\ cmd[p].entry \in Entry
    BY WorkingCommand DEF WritesLine, UnderWay, Appending, IInv
  <1>2. /\ u \in Nat /\ k \in Nat
        /\ Cardinality(UnderWay') = u - 1 /\ Cardinality(UnderWay') <= k - 1
    BY <1>1, UnderWayIsFinite
  <1>3. /\ log \in Seq(Entry) /\ n \in Nat
        /\ replayed.ok => n = Len(log)
        /\ ~ replayed.ok => Len(log) + u <= n + k
    BY DEF IInv, LedgerOK, ChainShape, ReplayResult, State, Current, DamageSoFar
  <1>4. CASE torn
    <2>1. log' = log /\ Current' = Current /\ ~ replayed.ok
      BY <1>1, <1>4 DEF LineWritten, Current
    <2> HIDE DEF n, u, k
    <2>2. Current'.nextSeq = n
      BY <2>1 DEF n
    <2>3. Len(log) \in Nat
      BY <1>3
    <2>4. QED
      BY <1>2, <1>3, <2>1, <2>2, <2>3 DEF k
  <1>5. CASE ~ torn
    <2>1. log' = Append(log, cmd[p].entry) /\ Current' = Current
      BY <1>1, <1>5 DEF LineWritten, ReplayEntry, Current
    <2>2. Len(log') = Len(log) + 1 /\ Len(log) \in Nat
      BY <1>1, <1>3, <2>1, LogGrows
    <2>3. Current'.nextSeq = n
      BY <2>1
    <2> HIDE DEF n, u, k
    <2>4. CASE replayed.ok
      BY <1>2, <1>3, <2>2, <2>3, <2>4 DEF k
    <2>5. CASE ~ replayed.ok
      BY <1>2, <1>3, <2>2, <2>3, <2>5 DEF k
    <2>6. QED
      BY <2>4, <2>5
  <1>6. QED
    BY <1>4, <1>5

LEMMA NothingDamages ==
    ASSUME IsFiniteSet(Proc), IInv, DamageSoFar, NobodySetsOut
    PROVE  DamageSoFar'
  <1> SUFFICES ASSUME ~ replayed.ok
               PROVE  Len(log) + Cardinality(UnderWay')
                        <= Current.nextSeq + Cardinality(Proc)
    BY DEF DamageSoFar, NobodySetsOut, Current
  <1>1. /\ Cardinality(UnderWay') \in Nat /\ Cardinality(UnderWay) \in Nat
        /\ Cardinality(UnderWay') <= Cardinality(UnderWay)
        /\ Cardinality(Proc) \in Nat
    BY UnderWayIsFinite, FS_Subset, FS_CardinalityType DEF NobodySetsOut
  <1>2. /\ Len(log) \in Nat /\ Current.nextSeq \in Nat
        /\ Len(log) + Cardinality(UnderWay) <= Current.nextSeq + Cardinality(Proc)
    BY DEF IInv, LedgerOK, ReplayResult, State, Current, DamageSoFar
  <1>3. QED
    BY <1>1, <1>2

\* However many commands race and wherever they tear a line, they waste no more
\* than one line each: what one writes that has replayed the log too early makes
\* every command fail that starts later (runLedgerCommit, runLedgerApprove).
THEOREM RacesWasteOneLineEach ==
    ASSUME IsFiniteSet(Proc)
    PROVE  Spec => []DamageIsBounded
  <1>1. Init => DamageSoFar
    BY DEF Init, DamageSoFar, EmptyReplay
  <1>2. IInv /\ DamageSoFar /\ [Next]_vars => DamageSoFar'
    <2> SUFFICES ASSUME IInv, DamageSoFar, [Next]_vars PROVE DamageSoFar'
      OBVIOUS
    <2>1. CASE UNCHANGED vars
      BY <2>1, NothingDamages DEF vars, NobodySetsOut, UnderWay
    <2>2. CASE Next
      BY <2>2, StepSetsOutOrWrites, NothingDamages, LineDamages DEF Next, IInv
    <2>3. QED
      BY <2>1, <2>2
  <1>3. IInv /\ DamageSoFar => DamageIsBounded
    <2> SUFFICES ASSUME IInv, DamageSoFar PROVE DamageIsBounded
      OBVIOUS
    <2>1. /\ Cardinality(UnderWay) \in Nat /\ Cardinality(Proc) \in Nat
          /\ Len(log) \in Nat /\ Current.nextSeq \in Nat
          /\ replayed.ok => Current.nextSeq = Len(log)
      BY UnderWayIsFinite
         DEF IInv, LedgerOK, ChainShape, ReplayResult, State, Current
    <2>2. QED
      BY <2>1 DEF DamageSoFar, DamageIsBounded
  <1>4. QED
    BY <1>1, <1>2, <1>3, Invariance, PTL DEF Spec

-----------------------------------------------------------------------------
(* Refinement *)

\* A change that applies is a change the membership log allows.
LEMMA ApplyIsChange ==
    ASSUME IInv, NEW e \in Entry, e.approvals \subseteq signed,
           CanApply(Current, e), Current' = AfterApply(Current, e),
           signed' = signed
    PROVE  Promise!Change(e.op, e.subjects)
  <1>1. /\ Current \in State
        /\ Current.nextSeq = Len(Current.prevHash)
        /\ Current.nextSeq = 0 => Current.members = {}
        /\ OneEach(Current.members)
    BY DEF IInv, LedgerOK, ChainShape, ReplayResult, Current, OneEach
  <1>2. e.seq = Current.nextSeq /\ e.prev = Current.prevHash
    BY DEF CanApply
  <1>3. Current'.prevHash =
            Append(Current.prevHash,
                   [seq |-> Len(Current.prevHash), op |-> e.op,
                    subjects |-> {CanonicalSubject(x) : x \in e.subjects}])
    BY <1>1, <1>2, AfterApplyIsState DEF HashOf, CanonicalPayload
  <1>4. \A m \in Current'.members : SignatureOf(m, Current'.prevHash) \in signed
    BY <1>1, ApplyNeedsEveryone, AfterApplyIsState
  <1>5. Promise!Turns(e.op, e.subjects, Current.members, Current'.members)
    <2>1. e.op \in {"GENESIS", "ADD", "REMOVE"}
      BY DEF Entry, Op
    <2>2. CASE e.op = "GENESIS"
      <3>1. Current.nextSeq = 0 /\ e.subjects # {}
        BY <2>2 DEF CanApply, RequirementKnown, Hashable
      <3>2. Current.prevHash = ZeroHash
        <4>1. Current.prevHash \in Seq(Payload) /\ Len(Current.prevHash) = 0
          BY <1>1, <3>1 DEF State, Hash
        <4>2. QED
          BY <4>1, EmptySeq DEF ZeroHash
      <3>3. QED
        BY <1>1, <2>2, <3>1, <3>2
           DEF AfterApply, Promise!Turns, Promise!ZeroHash, ZeroHash
    <2>3. CASE e.op = "ADD"
      <3>1. PICK x \in e.subjects : e.subjects = {x}
        BY <2>3 DEF CanApply, Hashable
      <3>2. \A m \in Current.members : m.node # x.node
        BY <1>1, <2>3, ApplicableSubjects
      <3>3. QED
        BY <2>3, <3>1, <3>2 DEF AfterApply, Promise!Turns
    <2>4. CASE e.op = "REMOVE"
      <3>1. PICK x \in e.subjects : e.subjects = {x}
        BY <2>4 DEF CanApply, Hashable
      <3>2. PICK m \in Current.members : m.node = x.node
        BY <2>4, <3>1 DEF CanApply, RequirementKnown, Targets, MemberIDs
      <3>3. Current'.members = Current.members \ {m}
        BY <1>1, <2>4, <3>1, <3>2 DEF AfterApply, Targets, OneEach
      <3>4. QED
        BY <2>4, <3>1, <3>2, <3>3 DEF Promise!Turns
    <2>5. QED
      BY <2>1, <2>2, <2>3, <2>4
  <1>6. QED
    BY <1>3, <1>4, <1>5
       DEF Promise!Change, Promise!CanonicalSubject, CanonicalSubject,
           Promise!SignatureOf, SignatureOf

\* A line of log.jsonl is one change of the abstract log, or nothing to it.
LEMMA LineRefines ==
    ASSUME IInv, NEW e \in Entry, e.approvals \subseteq signed, LineWritten(e),
           signed' = signed
    PROVE  [Promise!Next]_(Promise!vars)
  <1>1. CASE ~ torn /\ replayed.ok /\ CanApply(Current, e)
    <2>1. Current' = AfterApply(Current, e)
      BY <1>1 DEF LineWritten, ReplayEntry, Current
    <2>2. Promise!Change(e.op, e.subjects)
      BY <1>1, <2>1, ApplyIsChange
    <2>3. QED
      BY <2>2 DEF Promise!Next, Promise!Op, Op, Entry
  <1>2. CASE torn \/ ~ (replayed.ok /\ CanApply(Current, e))
    <2>1. Current' = Current
      BY <1>2 DEF LineWritten, ReplayEntry, Current
    <2>2. QED
      BY <2>1 DEF Promise!vars
  <1>3. QED
    BY <1>1, <1>2

\* Every step of a ledger directory is one that the membership log allows.
LEMMA StepRefines == IInv /\ [Next]_vars => [Promise!Next]_(Promise!vars)
  <1> SUFFICES ASSUME IInv, [Next]_vars PROVE [Promise!Next]_(Promise!vars)
    OBVIOUS
  <1>1. ASSUME NEW p \in Proc,
               ProposeStep(p) \/ SignStep(p) \/ CommitStep(p) \/ FaultStep(p)
        PROVE  [Promise!Next]_(Promise!vars)
    <2>1. CASE AppendEntry(p)
      BY <2>1, WorkingCommand, LineRefines DEF IInv, AppendEntry
    <2>2. CASE AppendFails(p)
      <3>1. CASE LineWritten(cmd[p].entry)
        BY <2>2, <3>1, WorkingCommand, LineRefines DEF IInv, AppendFails
      <3>2. CASE UNCHANGED replayed
        BY <2>2, <3>2 DEF AppendFails, Promise!vars, Current
      <3>3. QED
        BY <2>2, <3>1, <3>2 DEF AppendFails
    <2>3. CASE SignStep(p)
      BY <2>3, Signing
         DEF Promise!Next, Promise!Sign, Promise!SigFile, SigFile, Promise!Hash, Hash,
             Promise!Payload, Payload, Promise!Op, Op, Promise!CanonicalSubject,
             CanonicalSubject, Current
    <2>4. CASE ~ AppendEntry(p) /\ ~ AppendFails(p) /\ ~ SignStep(p)
      <3>1. UNCHANGED <<replayed, signed>>
        BY <1>1, <2>4
           DEF ProposeStep, ProposeGenesis, ProposeAdd, ProposeSelfAdd,
               ProposeRemove, Propose, SavePending, LoadSaved, CommitStep,
               ReplayLog, CommitLoad, ApproveLoad, GiveUp, ApproveReload,
               NoFinalize, RemovePending, KeepPending, FaultStep, Crash,
               CrashInSave, CrashInSaveSig, CrashInRemove
      <3>2. QED
        BY <3>1 DEF Promise!vars, Current
    <2>5. QED
      BY <2>1, <2>2, <2>3, <2>4
  <1>2. CASE UNCHANGED vars
    BY <1>2 DEF vars, Promise!vars, Current
  <1>3. QED
    BY <1>1, <1>2 DEF Next

\* The ledger directory keeps the promise of the membership log: whatever its
\* processes do, a membership changes by one operation at a time, and only to
\* one whose members have all signed the chain that leads to it.
THEOREM DirectoryImplementsLog == Spec => Implements
  <1>1. Init => Promise!Init
    BY DEF Init, Promise!Init, Promise!ZeroHash, ZeroHash, Current, EmptyReplay,
           EmptyState
  <1>2. QED
    BY <1>1, Invariance, StepRefines, PTL DEF Spec, Implements, Promise!Spec

-----------------------------------------------------------------------------
(* A process that has the directory for itself *)

\* It works from the current state, and appends only what applies to that.
UpToDate(c) ==
    /\ c.pc \in {"choose", "approve", "reload", "append"} => c.snap = Current
    /\ c.pc = "append" => CanApply(Current, c.entry)

Intact == Replayable /\ \A p \in Proc : UpToDate(cmd[p])

\* It goes on, and the log stays as it is.
LEMMA GoesOn ==
    ASSUME CommandsOK, Replayable, NEW p \in Proc, Proc = {p}, NEW c, Goto(p, c),
           UpToDate(c), UNCHANGED <<torn, replayed>>
    PROVE  Intact'
  <1>1. cmd'[p] = c /\ Current' = Current
    BY DEF CommandsOK, Goto, Current
  <1>2. QED
    BY <1>1 DEF Intact, UpToDate, Replayable

LEMMA Ends ==
    ASSUME CommandsOK, Replayable, NEW p \in Proc, Proc = {p}, End(p),
           UNCHANGED <<torn, replayed>>
    PROVE  Intact'
  <1>1. UpToDate(Idle)
    BY DEF UpToDate, Idle
  <1>2. QED
    BY <1>1, GoesOn DEF End

\* What is appended applies to the state that was replayed, which is current.
LEMMA AppendsWhatApplies ==
    ASSUME CommandsOK, Intact, NEW p \in Proc, Proc = {p}, NEW e,
           cmd[p].pc \in {"choose", "reload"}, AppendIfValid(p, e),
           UNCHANGED <<torn, replayed>>
    PROVE  Intact'
  <1>1. Replayable /\ cmd[p].snap = Current /\ cmd[p] \in Command
    BY DEF Intact, UpToDate, CommandsOK, CommandOK
  <1>2. CASE CanApply(cmd[p].snap, e)
    <2> DEFINE c == [cmd[p] EXCEPT !.pc = "append", !.entry = e, !.sig = NoSig]
    <2>1. c.snap = cmd[p].snap /\ c.entry = e
      BY <1>1 DEF Command
    <2>2. Goto(p, c)
      BY <1>2 DEF AppendIfValid
    <2>3. UpToDate(c)
      BY <1>1, <1>2, <2>1 DEF UpToDate
    <2> HIDE DEF c
    <2>4. QED
      BY <1>1, <2>2, <2>3, GoesOn
  <1>3. CASE ~ CanApply(cmd[p].snap, e)
    BY <1>1, <1>3, Ends DEF AppendIfValid
  <1>4. QED
    BY <1>2, <1>3

\* The line that is written applies, so the log still replays.
LEMMA AppendsIntact ==
    ASSUME CommandsOK, Intact, NEW p \in Proc, Proc = {p}, AppendEntry(p)
    PROVE  Intact'
  <1>1. /\ replayed.ok /\ ~ torn /\ cmd[p] \in Command
        /\ CanApply(Current, cmd[p].entry)
    BY DEF Intact, UpToDate, Replayable, CommandsOK, CommandOK, AppendEntry
  <1>2. replayed'.ok /\ ~ torn'
    BY <1>1 DEF AppendEntry, LineWritten, ReplayEntry, Current
  <1>3. cmd'[p].pc = "remove"
    BY <1>1 DEF AppendEntry, Goto, CommandsOK, Command
  <1>4. QED
    BY <1>2, <1>3 DEF Intact, UpToDate, Replayable

LEMMA ProposeIntact ==
    ASSUME CommandsOK, Intact, NEW p \in Proc, Proc = {p}, ProposeStep(p)
    PROVE  Intact'
  <1>1. Replayable /\ cmd[p] \in Command
    BY DEF Intact, CommandsOK, CommandOK
  <1>2. ASSUME NEW e, NEW s, Propose(p, e, s)
        PROVE  Intact'
    <2> DEFINE c == [Idle EXCEPT !.pc = "save", !.entry = e, !.sig = s]
    <2>1. UpToDate(c)
      BY DEF UpToDate, Idle
    <2>2. Goto(p, c) /\ UNCHANGED <<torn, replayed>>
      BY <1>2 DEF Propose
    <2> HIDE DEF c
    <2>3. QED
      BY <1>1, <2>1, <2>2, GoesOn
  <1>3. ASSUME NEW l \in {"load", "sign"}, Goto(p, [cmd[p] EXCEPT !.pc = l]),
               UNCHANGED <<torn, replayed>>
        PROVE  Intact'
    <2> DEFINE c == [cmd[p] EXCEPT !.pc = l]
    <2>1. UpToDate(c)
      BY <1>1 DEF UpToDate, Command
    <2> HIDE DEF c
    <2>2. QED
      BY <1>1, <1>3, <2>1, GoesOn DEF c
  <1>4. CASE SavePending(p) \/ LoadSaved(p)
    BY <1>1, <1>3, <1>4, Ends DEF SavePending, LoadSaved
  <1>5. QED
    BY <1>2, <1>4
       DEF ProposeStep, ProposeGenesis, ProposeAdd, ProposeSelfAdd, ProposeRemove

LEMMA SignIntact ==
    ASSUME CommandsOK, Intact, NEW p \in Proc, Proc = {p}, SignStep(p)
    PROVE  Intact'
  <1>1. Replayable /\ cmd[p] \in Command
    BY DEF Intact, CommandsOK, CommandOK
  <1>2. ASSUME NEW e, NEW s, UNCHANGED <<torn, replayed>>,
               Goto(p, [Idle EXCEPT !.pc = "sign", !.entry = e, !.sig = s])
        PROVE  Intact'
    <2> DEFINE c == [Idle EXCEPT !.pc = "sign", !.entry = e, !.sig = s]
    <2>1. UpToDate(c)
      BY DEF UpToDate, Idle
    <2> HIDE DEF c
    <2>2. QED
      BY <1>1, <1>2, <2>1, GoesOn DEF c
  <1>3. ASSUME NEW h \in DOMAIN pending, NEW x \in Subject,
               Sign(p, h, x) \/ SignDetached(p, h, x)
        PROVE  Intact'
    <2>1. CASE Sign(p, h, x)
      BY <1>2, <2>1 DEF Sign
    <2>2. CASE SignDetached(p, h, x)
      BY <2>2 DEF SignDetached, Intact, UpToDate, Replayable, Current
    <2>3. QED
      BY <1>3, <2>1, <2>2
  <1>4. ASSUME NEW h \in DOMAIN pending, NEW s \in signed, Merge(p, h, s)
        PROVE  Intact'
    BY <1>2, <1>4 DEF Merge
  <1>5. CASE SaveSig(p)
    <2> DEFINE c == [cmd[p] EXCEPT !.pc = "reload"]
    <2>1. UNCHANGED <<torn, replayed>>
      BY <1>5 DEF SaveSig
    <2>2. CASE cmd[p].pc = "sign"
      BY <1>1, <1>5, <2>1, <2>2, Ends DEF SaveSig
    <2>3. CASE cmd[p].pc = "approve"
      <3>1. Goto(p, c)
        BY <1>5, <2>3 DEF SaveSig
      <3>2. UpToDate(c)
        BY <1>1, <2>3 DEF UpToDate, Intact, Command
      <3> HIDE DEF c
      <3>3. QED
        BY <1>1, <2>1, <3>1, <3>2, GoesOn
    <2>4. QED
      BY <1>5, <2>2, <2>3 DEF SaveSig
  <1>6. QED
    BY <1>3, <1>4, <1>5 DEF SignStep

LEMMA CommitIntact ==
    ASSUME CommandsOK, Intact, NEW p \in Proc, Proc = {p}, CommitStep(p)
    PROVE  Intact'
  <1>1. Replayable /\ cmd[p] \in Command
    BY DEF Intact, CommandsOK, CommandOK
  <1>2. CASE ReplayLog(p)
    <2> DEFINE c == [Idle EXCEPT !.pc = "choose", !.snap = Current]
    <2>1. UpToDate(c)
      BY DEF UpToDate, Idle
    <2>2. Goto(p, c) /\ UNCHANGED <<torn, replayed>>
      BY <1>2 DEF ReplayLog
    <2> HIDE DEF c
    <2>3. QED
      BY <1>1, <2>1, <2>2, GoesOn
  <1>3. ASSUME NEW h \in DOMAIN pending, CommitLoad(p, h)
        PROVE  Intact'
    BY <1>3, AppendsWhatApplies DEF CommitLoad
  <1>4. ASSUME NEW h \in DOMAIN pending, NEW x \in Subject, ApproveLoad(p, h, x)
        PROVE  Intact'
    <2> DEFINE e == Loaded(h)
               c == [cmd[p] EXCEPT !.pc = "approve", !.entry = e,
                                   !.sig = SignatureOf(x, HashOf(e))]
    <2>1. cmd[p].pc = "choose" /\ UNCHANGED <<torn, replayed>>
          /\ (AppendIfValid(p, e) \/ End(p) \/ Goto(p, c))
      BY <1>4 DEF ApproveLoad
    <2>2. UpToDate(c)
      BY <1>1, <2>1 DEF UpToDate, Intact, Command
    <2> HIDE DEF c, e
    <2>3. CASE Goto(p, c)
      BY <1>1, <2>1, <2>2, <2>3, GoesOn
    <2>4. CASE AppendIfValid(p, e) \/ End(p)
      BY <1>1, <2>1, <2>4, AppendsWhatApplies, Ends
    <2>5. QED
      BY <2>1, <2>3, <2>4
  <1>5. CASE ApproveReload(p)
    <2>1. cmd[p].pc = "reload" /\ UNCHANGED <<torn, replayed>>
          /\ (End(p) \/ \E e \in {Loaded(HashOf(cmd[p].entry)), cmd[p].entry} :
                            AppendIfValid(p, e))
      BY <1>5 DEF ApproveReload
    <2>2. QED
      BY <1>1, <2>1, AppendsWhatApplies, Ends
  <1>6. CASE AppendEntry(p)
    BY <1>6, AppendsIntact
  <1>7. CASE GiveUp(p) \/ NoFinalize(p) \/ RemovePending(p) \/ KeepPending(p)
    BY <1>1, <1>7, Ends DEF GiveUp, NoFinalize, RemovePending, KeepPending
  <1>8. QED
    BY <1>2, <1>3, <1>4, <1>5, <1>6, <1>7 DEF CommitStep

LEMMA FaultIntact ==
    ASSUME "tear" \notin Faults, CommandsOK, Intact, NEW p \in Proc, Proc = {p},
           FaultStep(p)
    PROVE  Intact'
  <1>1. End(p) /\ UNCHANGED <<torn, replayed>>
    BY DEF FaultStep, AppendFails, Crash, CrashInSave, CrashInSaveSig, CrashInRemove
  <1>2. QED
    BY <1>1, Ends DEF Intact

\* Commands that follow each other leave a log that replays, wherever they
\* die: the state that commit and approve have replayed at their start is
\* still that of the log when they append to it (runLedgerCommit,
\* runLedgerApprove).  Appends that are cut off are not covered.
THEOREM OneProcessKeepsChain ==
    ASSUME NEW p, Proc = {p}, "tear" \notin Faults
    PROVE  Spec => []ChainIntact
  <1>1. Init => Intact
    BY DEF Init, Intact, Replayable, EmptyReplay, UpToDate, Idle
  <1>2. ASSUME IInv, Intact, [Next]_vars
        PROVE  Intact'
    <2>1. CASE UNCHANGED vars
      BY <1>2, <2>1 DEF vars, Intact, UpToDate, Replayable, Current
    <2>2. CASE Next
      BY <1>2, <2>2, ProposeIntact, SignIntact, CommitIntact, FaultIntact
         DEF Next, IInv
    <2>3. QED
      BY <1>2, <2>1, <2>2
  <1>3. Intact => ChainIntact
    BY DEF Intact, ChainIntact
  <1>4. QED
    BY <1>1, <1>2, <1>3, Invariance, PTL DEF Spec

-----------------------------------------------------------------------------
(* Collected signatures *)

\* Whoever is about to remove a directory has committed its proposal.
RemovesCommitted ==
    /\ ~ torn
    /\ \A p \in Proc : cmd[p].pc = "remove" => Committed(HashOf(cmd[p].entry))

\* p goes on, but not to a removal.
LEMMA RemovesNothing ==
    ASSUME CommandsOK, RemovesCommitted, NEW p \in Proc, NEW c, Goto(p, c),
           c.pc # "remove", UNCHANGED <<log, torn>>
    PROVE  RemovesCommitted'
  BY DEF CommandsOK, Goto, RemovesCommitted, Committed

LEMMA EndsWithout ==
    ASSUME CommandsOK, RemovesCommitted, NEW p \in Proc, End(p),
           UNCHANGED <<log, torn>>
    PROVE  RemovesCommitted'
  <1>1. Idle.pc # "remove"
    BY DEF Idle
  <1>2. QED
    BY <1>1, RemovesNothing DEF End

\* The commands that a step other than an append leads to.
LEMMA NotAboutToRemove ==
    ASSUME NEW c \in Command, NEW l \in Pc \ {"remove"}, NEW e, NEW s, NEW t
    PROVE  /\ [c EXCEPT !.pc = l].pc # "remove"
           /\ [c EXCEPT !.pc = l, !.entry = e, !.sig = s].pc # "remove"
           /\ [Idle EXCEPT !.pc = l, !.entry = e, !.sig = s].pc # "remove"
           /\ [Idle EXCEPT !.pc = l, !.snap = t].pc # "remove"
  BY DEF Command, Idle, Pc

\* A line that is appended behind whole lines is part of the log.
LEMMA AppendCommits ==
    ASSUME LedgerOK, CommandsOK, RemovesCommitted, NEW p \in Proc, AppendEntry(p)
    PROVE  RemovesCommitted'
  <1> DEFINE e == cmd[p].entry
  <1>1. /\ log' = Append(log, e) /\ ~ torn'
        /\ cmd' = [cmd EXCEPT ![p] = [cmd[p] EXCEPT !.pc = "remove"]]
    BY DEF AppendEntry, LineWritten, RemovesCommitted, Goto
  <1>2. cmd[p] \in Command /\ e \in Entry
    BY DEF CommandsOK, CommandOK, AppendEntry
  <1>3. /\ DOMAIN log' = 1 .. (Len(log) + 1) /\ Len(log) + 1 \in DOMAIN log'
        /\ log'[Len(log) + 1] = e
        /\ \A i \in DOMAIN log : i \in DOMAIN log' /\ log'[i] = log[i]
    BY <1>1, <1>2, LogGrows DEF LedgerOK
  <1>4. \E i \in DOMAIN log' : HashOf(log'[i]) = HashOf(e)
    <2>1. HashOf(log'[Len(log) + 1]) = HashOf(e)
      BY <1>3
    <2> HIDE DEF e
    <2>2. QED
      BY <1>3, <2>1
  <1>5. ASSUME NEW h, Committed(h) PROVE Committed(h)'
    <2>1. PICK i \in DOMAIN log : HashOf(log[i]) = h
      BY <1>5 DEF Committed
    <2>2. i \in DOMAIN log' /\ HashOf(log'[i]) = h
      BY <1>3, <2>1
    <2>3. QED
      BY <2>2 DEF Committed
  <1>6. cmd'[p].entry = e /\ \A q \in Proc \ {p} : cmd'[q] = cmd[q]
    BY <1>1, <1>2 DEF CommandsOK, Command
  <1>7. Committed(HashOf(cmd[p].entry))'
    <2>1. HashOf(cmd'[p].entry) = HashOf(e)
      BY <1>6
    <2>2. QED
      BY <1>4, <2>1 DEF Committed
  <1>8. QED
    BY <1>1, <1>5, <1>6, <1>7 DEF RemovesCommitted

LEMMA ProposeRemovesNothing ==
    ASSUME CommandsOK, RemovesCommitted, NEW p \in Proc, ProposeStep(p)
    PROVE  RemovesCommitted'
  <1>1. cmd[p] \in Command
    BY DEF CommandsOK, CommandOK
  <1>2. ASSUME NEW e, NEW s, Propose(p, e, s)
        PROVE  RemovesCommitted'
    BY <1>1, <1>2, NotAboutToRemove, RemovesNothing DEF Propose, Pc
  <1>3. CASE SavePending(p) \/ LoadSaved(p)
    BY <1>1, <1>3, NotAboutToRemove, RemovesNothing, EndsWithout
       DEF SavePending, LoadSaved, Pc
  <1>4. QED
    BY <1>2, <1>3
       DEF ProposeStep, ProposeGenesis, ProposeAdd, ProposeSelfAdd, ProposeRemove

LEMMA SignRemovesNothing ==
    ASSUME CommandsOK, RemovesCommitted, NEW p \in Proc, SignStep(p)
    PROVE  RemovesCommitted'
  <1>1. cmd[p] \in Command
    BY DEF CommandsOK, CommandOK
  <1>2. ASSUME NEW h \in DOMAIN pending, NEW x \in Subject, Sign(p, h, x)
        PROVE  RemovesCommitted'
    BY <1>1, <1>2, NotAboutToRemove, RemovesNothing DEF Sign, Pc
  <1>3. ASSUME NEW h \in DOMAIN pending, NEW x \in Subject, SignDetached(p, h, x)
        PROVE  RemovesCommitted'
    BY <1>3 DEF SignDetached, RemovesCommitted, Committed
  <1>4. ASSUME NEW h \in DOMAIN pending, NEW s \in signed, Merge(p, h, s)
        PROVE  RemovesCommitted'
    <2> DEFINE c == [Idle EXCEPT !.pc = "sign", !.entry = Loaded(h), !.sig = s]
    <2>1. Goto(p, c) /\ UNCHANGED <<log, torn>>
      BY <1>4 DEF Merge
    <2>2. c.pc # "remove"
      BY DEF Idle
    <2> HIDE DEF c
    <2>3. QED
      BY <2>1, <2>2, RemovesNothing
  <1>5. CASE SaveSig(p)
    <2>1. /\ UNCHANGED <<log, torn>>
          /\ End(p) \/ Goto(p, [cmd[p] EXCEPT !.pc = "reload"])
      BY <1>5 DEF SaveSig
    <2>2. [cmd[p] EXCEPT !.pc = "reload"].pc # "remove"
      BY <1>1, NotAboutToRemove DEF Pc
    <2>3. QED
      BY <2>1, <2>2, RemovesNothing, EndsWithout
  <1>6. QED
    BY <1>2, <1>3, <1>4, <1>5 DEF SignStep

LEMMA CommitRemovesCommitted ==
    ASSUME LedgerOK, CommandsOK, RemovesCommitted, NEW p \in Proc, CommitStep(p)
    PROVE  RemovesCommitted'
  <1>1. cmd[p] \in Command
    BY DEF CommandsOK, CommandOK
  <1>2. CASE ReplayLog(p)
    BY <1>2, <1>1, NotAboutToRemove, RemovesNothing DEF ReplayLog, Pc
  <1>3. ASSUME NEW e, AppendIfValid(p, e), UNCHANGED <<log, torn>>
        PROVE  RemovesCommitted'
    BY <1>1, <1>3, NotAboutToRemove, RemovesNothing, EndsWithout
       DEF AppendIfValid, Pc
  <1>4. ASSUME NEW h \in DOMAIN pending, CommitLoad(p, h)
        PROVE  RemovesCommitted'
    BY <1>3, <1>4 DEF CommitLoad
  <1>5. ASSUME NEW h \in DOMAIN pending, NEW x \in Subject, ApproveLoad(p, h, x)
        PROVE  RemovesCommitted'
    <2>1. /\ UNCHANGED <<log, torn>>
          /\ \/ AppendIfValid(p, Loaded(h))
             \/ End(p)
             \/ Goto(p, [cmd[p] EXCEPT !.pc = "approve", !.entry = Loaded(h),
                             !.sig = SignatureOf(x, HashOf(Loaded(h)))])
      BY <1>5 DEF ApproveLoad
    <2>2. QED
      BY <1>1, <1>3, <2>1, NotAboutToRemove, RemovesNothing, EndsWithout DEF Pc
  <1>6. CASE ApproveReload(p)
    <2>1. /\ UNCHANGED <<log, torn>>
          /\ \/ End(p)
             \/ \E e \in {Loaded(HashOf(cmd[p].entry)), cmd[p].entry} :
                    AppendIfValid(p, e)
      BY <1>6 DEF ApproveReload
    <2>2. QED
      BY <1>3, <2>1, EndsWithout
  <1>7. CASE AppendEntry(p)
    BY <1>7, AppendCommits
  <1>8. CASE GiveUp(p) \/ NoFinalize(p) \/ RemovePending(p) \/ KeepPending(p)
    BY <1>8, EndsWithout DEF GiveUp, NoFinalize, RemovePending, KeepPending
  <1>9. QED
    BY <1>2, <1>4, <1>5, <1>6, <1>7, <1>8 DEF CommitStep

LEMMA FaultRemovesNothing ==
    ASSUME "tear" \notin Faults, CommandsOK, RemovesCommitted, NEW p \in Proc,
           FaultStep(p)
    PROVE  RemovesCommitted'
  BY EndsWithout
     DEF FaultStep, AppendFails, Crash, CrashInSave, CrashInSaveSig, CrashInRemove

\* A step that leaves a directory alone keeps its signatures.
LEMMA UntouchedDirStays ==
    ASSUME NEW h \in DOMAIN pending, NEW s \in pending[h].sigs,
           h \in DOMAIN pending', pending'[h] = pending[h]
    PROVE  SignatureStays(h, s)
  BY DEF SignatureStays

\* So does one that writes the directory g with at least those signatures.
LEMMA WrittenDirKeeps ==
    ASSUME NEW g, NEW d, PutDir(g, d), NEW h \in DOMAIN pending,
           NEW s \in pending[h].sigs,
           g = h => \/ \E t \in d.sigs : t.node = s.node
                    \/ s.node \in d.damaged
    PROVE  SignatureStays(h, s)
  BY DEF PutDir, SignatureStays

LEMMA StepKeepsSignatures ==
    ASSUME IInv, RemovesCommitted, NEW p \in Proc,
           ProposeStep(p) \/ SignStep(p) \/ CommitStep(p) \/ FaultStep(p),
           NEW h \in DOMAIN pending, NEW s \in pending[h].sigs
    PROVE  SignatureStays(h, s) \/ Committed(h)
  <1> DEFINE g == HashOf(cmd[p].entry)
             d == DirAt(g)
  <1>1. pending[h] \in Dir /\ s \in SigFile /\ (g = h => d = pending[h])
    BY DEF IInv, PendingOK, DirOK, DirAt, Dir
  <1>2. d \in Dir
    BY DirAtIsOK DEF IInv, DirOK
  <1> HIDE DEF d
  <1>3. CASE pending' = pending
    BY <1>3, UntouchedDirStays
  <1>4. CASE SavePending(p)
    <2> DEFINE w == [d EXCEPT !.entry = WithoutApprovals(cmd[p].entry)]
    <2>1. PutDir(g, w)
      BY <1>4 DEF SavePending, d
    <2>2. w.sigs = d.sigs
      BY <1>2 DEF Dir
    <2> HIDE DEF w
    <2>3. QED
      BY <1>1, <2>1, <2>2, WrittenDirKeeps
  <1>5. CASE SaveSig(p)
    <2> DEFINE w == WithSig(d, cmd[p].sig)
    <2>1. PutDir(g, w)
      BY <1>5 DEF SaveSig, d
    <2>2. w.sigs = {t \in d.sigs : t.node # cmd[p].sig.node} \cup {cmd[p].sig}
      BY <1>2 DEF WithSig, Dir
    <2> HIDE DEF w
    <2>3. QED
      BY <1>1, <2>1, <2>2, WrittenDirKeeps
  <1>6. CASE CrashInSave(p)
    <2> DEFINE w == [d EXCEPT !.entry = NoEntry]
    <2>1. PutDir(g, w)
      BY <1>6 DEF CrashInSave, d
    <2>2. w.sigs = d.sigs
      BY <1>2 DEF Dir
    <2> HIDE DEF w
    <2>3. QED
      BY <1>1, <2>1, <2>2, WrittenDirKeeps
  <1>7. CASE CrashInSaveSig(p)
    <2> DEFINE n == cmd[p].sig.node
               w == [d EXCEPT !.sigs = {t \in @ : t.node # n}, !.damaged = @ \cup {n}]
    <2>1. PutDir(g, w)
      BY <1>7 DEF CrashInSaveSig, d
    <2>2. w.sigs = {t \in d.sigs : t.node # n} /\ w.damaged = d.damaged \cup {n}
      BY <1>2 DEF Dir
    <2> HIDE DEF w
    <2>3. QED
      BY <1>1, <2>1, <2>2, WrittenDirKeeps
  <1>8. CASE RemovePending(p) \/ CrashInRemove(p)
    <2>1. Committed(g)
      BY <1>8 DEF RemovePending, CrashInRemove, RemovesCommitted
    <2>2. g # h => h \in DOMAIN pending' /\ pending'[h] = pending[h]
      BY <1>8 DEF RemovePending, CrashInRemove, RemoveDir, PutDir
    <2>3. QED
      BY <2>1, <2>2, UntouchedDirStays
  <1>9. QED
    BY <1>3, <1>4, <1>5, <1>6, <1>7, <1>8
       DEF ProposeStep, ProposeGenesis, ProposeAdd, ProposeSelfAdd, ProposeRemove,
           Propose, LoadSaved, SignStep, Sign, SignDetached, Merge, CommitStep,
           ReplayLog, CommitLoad, ApproveLoad, GiveUp, ApproveReload, NoFinalize,
           AppendEntry, KeepPending, FaultStep, AppendFails, Crash

\* Whatever commands interleave and die, a signature that has been collected
\* for a proposal stays until the proposal is committed, or until its own file
\* is written again: SavePending over a directory that is there, SaveSig, and
\* Pending.Remove after Store.Append.  Lines that are cut off are not covered:
\* behind one, Store.Append succeeds and leaves nothing that decodes.
THEOREM CollectedSignaturesStay ==
    ASSUME "tear" \notin Faults
    PROVE  Spec => SignaturesKept
  <1> DEFINE Keeps == \A h \in DOMAIN pending : \A s \in pending[h].sigs :
                          SignatureStays(h, s) \/ Committed(h)
  <1>1. Init => RemovesCommitted
    BY DEF Init, RemovesCommitted, Idle
  <1>2. ASSUME IInv, RemovesCommitted, [Next]_vars
        PROVE  RemovesCommitted' /\ [Keeps]_vars
    <2>1. CASE UNCHANGED vars
      BY <1>2, <2>1 DEF vars, RemovesCommitted, Committed
    <2>2. ASSUME NEW p \in Proc,
                 ProposeStep(p) \/ SignStep(p) \/ CommitStep(p) \/ FaultStep(p)
          PROVE  RemovesCommitted' /\ Keeps
      BY <1>2, <2>2, StepKeepsSignatures, ProposeRemovesNothing,
         SignRemovesNothing, CommitRemovesCommitted, FaultRemovesNothing DEF IInv
    <2>3. QED
      BY <1>2, <2>1, <2>2 DEF Next
  <1>3. QED
    BY <1>1, <1>2, Invariance, PTL DEF Spec, SignaturesKept
=============================================================================
