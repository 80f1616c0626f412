------------------------------- MODULE Ledger -------------------------------
(***************************************************************************)
(* The membership ledger as pure data: entries, the state that replaying   *)
(* them yields, and the N-of-N approval rule (internal/ledger/entry.go and *)
(* state.go).                                                              *)
(*                                                                         *)
(* Abstractions.  SHA-256 is collision free: a hash is the sequence of the *)
(* payloads it covers, so it grows by one element per chained entry.  An   *)
(* Ed25519 signature is the pair (key, signed hash) and verifies under     *)
(* exactly that key and hash.  Keys decode to 32 bytes and CIDRs parse.    *)
(* The map[string]Subject of members is the set of its values, the         *)
(* approvals map is the set of its signature files, and both `Subject' and *)
(* `Subjects' of an entry are one set `subjects', a singleton for ADD and  *)
(* REMOVE.                                                                 *)
(***************************************************************************)
EXTENDS Naturals, Sequences

CONSTANTS
    Node,      \* node_id values
    Key,       \* identity public keys
    WgKey,     \* WireGuard public keys
    Cidr,      \* overlay_ip values, records [host, bits]
    Endpoint,  \* endpoint hints
    Subject    \* the subjects that entries may name

ASSUME SubjectAssumption ==
    Subject \subseteq [node : Node, key : Key, wg : WgKey, ip : Cidr,
                       endpoint : Endpoint]

Op == {"GENESIS", "ADD", "REMOVE"}

-----------------------------------------------------------------------------
(* The canonical payload and its hash *)

\* The endpoint hint is not covered by the hash.
CanonicalSubject(x) ==
    [node |-> x.node, key |-> x.key, wg |-> x.wg, ip |-> x.ip]

Payload ==
    [seq : Nat, op : Op, subjects : SUBSET {CanonicalSubject(x) : x \in Subject}]

Hash == Seq(Payload)

ZeroHash == << >>

\* Fault: the hash covers the operation and not its subjects.
CanonicalPayload_Unnamed(e) ==
    [seq |-> e.seq, op |-> e.op, subjects |-> {}]

CanonicalPayload(e) ==
    [seq |-> e.seq, op |-> e.op,
     subjects |-> {CanonicalSubject(x) : x \in e.subjects}]

HashOf(e) == Append(e.prev, CanonicalPayload(e))

\* What canonicalPayload refuses to hash: an operation without its subjects.
Hashable(e) ==
    IF e.op = "GENESIS" THEN e.subjects # {}
                        ELSE \E x \in e.subjects : e.subjects = {x}

-----------------------------------------------------------------------------
(* Signatures and entries *)

SigFile == [node : Node, key : Key, hash : Hash]

\* The signature of identity x (a record with at least node and key) over h.
SignatureOf(x, h) == [node |-> x.node, key |-> x.key, hash |-> h]

\* entry.json: an entry that carries no approvals.
Proposal == [seq : Nat, prev : Hash, op : Op, subjects : SUBSET Subject]

Entry == [seq : Nat, prev : Hash, op : Op, subjects : SUBSET Subject,
          approvals : SUBSET SigFile]

WithApprovals(e, sigs) ==
    [seq |-> e.seq, prev |-> e.prev, op |-> e.op, subjects |-> e.subjects,
     approvals |-> sigs]

WithoutApprovals(e) ==
    [seq |-> e.seq, prev |-> e.prev, op |-> e.op, subjects |-> e.subjects]

Targets(e) == {x.node : x \in e.subjects}

Approvers(e) == {s.node : s \in e.approvals}

-----------------------------------------------------------------------------
(* The replayed state and the N-of-N rule *)

State == [members : SUBSET Subject, nextSeq : Nat, prevHash : Hash]

EmptyState == [members |-> {}, nextSeq |-> 0, prevHash |-> ZeroHash]

MemberIDs(s) == {m.node : m \in s.members}

\* overlay_ip values are compared as strings: same host and same length.
OverlayTaken(s, ip) == \E m \in s.members : m.ip = ip

\* Fault: a genesis may name a node twice.
RequirementKnown_Twice(s, e) ==
    CASE e.op = "GENESIS" -> s.nextSeq = 0
      [] e.op = "ADD"     -> TRUE
      [] e.op = "REMOVE"  -> Targets(e) \subseteq MemberIDs(s)

\* RequiredApprovers reports an error unless this holds.
RequirementKnown(s, e) ==
    CASE e.op = "GENESIS" ->
            /\ s.nextSeq = 0
            /\ \A x, y \in e.subjects : x.node = y.node => x = y
      [] e.op = "ADD"     -> TRUE
      [] e.op = "REMOVE"  -> Targets(e) \subseteq MemberIDs(s)

\* Fault: a new member needs nobody's approval but its own.
RequiredApprovers_NewOnly(s, e) ==
    IF e.op = "REMOVE" THEN MemberIDs(s) \ Targets(e) ELSE Targets(e)

RequiredApprovers(s, e) ==
    CASE e.op = "GENESIS" -> Targets(e)
      [] e.op = "ADD"     -> MemberIDs(s) \cup Targets(e)
      [] e.op = "REMOVE"  -> MemberIDs(s) \ Targets(e)

MissingApprovers(s, e) == RequiredApprovers(s, e) \ Approvers(e)

\* The subjects whose keys verify the approvals of e, one per node: for
\* GENESIS and ADD the key of a subject overrides that of a member.
Signatories(s, e) ==
    IF e.op = "REMOVE"
    THEN s.members
    ELSE e.subjects \cup {m \in s.members : m.node \notin Targets(e)}

\* Every approval, required or extra, verifies under its signer's key.
ApprovalsVerify(s, e) ==
    \A a \in e.approvals :
        \E x \in Signatories(s, e) : a = SignatureOf(x, HashOf(e))

NoDuplicateMember(s, e) ==
    e.op # "REMOVE" => Targets(e) \cap MemberIDs(s) = {}

\* Fault: approvals are counted but their signatures are not verified.
CanApply_PresenceOnly(s, e) ==
    /\ e.seq = s.nextSeq
    /\ e.prev = s.prevHash
    /\ Hashable(e)
    /\ RequirementKnown(s, e)
    /\ MissingApprovers(s, e) = {}
    /\ NoDuplicateMember(s, e)

\* Fault: some valid approval is enough.
CanApply_NotEveryone(s, e) ==
    /\ e.seq = s.nextSeq
    /\ e.prev = s.prevHash
    /\ Hashable(e)
    /\ RequirementKnown(s, e)
    /\ e.approvals # {}
    /\ ApprovalsVerify(s, e)
    /\ NoDuplicateMember(s, e)

\* Apply succeeds exactly when this holds.
CanApply(s, e) ==
    /\ e.seq = s.nextSeq
    /\ e.prev = s.prevHash
    /\ Hashable(e)
    /\ RequirementKnown(s, e)
    /\ MissingApprovers(s, e) = {}
    /\ ApprovalsVerify(s, e)
    /\ NoDuplicateMember(s, e)

\* The state after a successful Apply.
AfterApply(s, e) ==
    [members  |-> IF e.op = "REMOVE"
                  THEN {m \in s.members : m.node \notin Targets(e)}
                  ELSE s.members \cup e.subjects,
     nextSeq  |-> s.nextSeq + 1,
     prevHash |-> HashOf(e)]

-----------------------------------------------------------------------------
(* Replay.  A replay is the state reached and whether every entry applied; *)
(* after the first entry that does not apply the state stays partial.      *)

ReplayResult == [ok : BOOLEAN, state : State]

EmptyReplay == [ok |-> TRUE, state |-> EmptyState]

ReplayEntry(r, e) ==
    IF r.ok /\ CanApply(r.state, e)
    THEN [ok |-> TRUE, state |-> AfterApply(r.state, e)]
    ELSE [ok |-> FALSE, state |-> r.state]

\* Store.Replay: the outcome of each prefix of the entries l, from NewState on.
Replays(l) ==
    LET after[n \in 0 .. Len(l)] ==
            IF n = 0 THEN EmptyReplay ELSE ReplayEntry(after[n - 1], l[n])
    IN  after

Replay(l) == Replays(l)[Len(l)]

-----------------------------------------------------------------------------
(* What a log shows *)

\* Node n is introduced by one of the entries of l behind the i-th and up to
\* the k-th.
IntroducedWithin(l, n, i, k) ==
    \E j \in (i+1) .. k : l[j].op # "REMOVE" /\ n \in Targets(l[j])

\* Every member that the entries of l lead to has approved, with the key it is
\* a member with, each of them since the one that introduced it.
Consented(l) ==
    LET s == Replay(l).state
    IN  \A m \in s.members, i \in 1 .. s.nextSeq :
            \/ IntroducedWithin(l, m.node, i, s.nextSeq)
            \/ SignatureOf(m, HashOf(l[i])) \in l[i].approvals

\* The members without their endpoint hints, which no hash covers.
CanonicalMembers(s) == {CanonicalSubject(m) : m \in s.members}
=============================================================================
