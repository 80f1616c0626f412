----------------------------- MODULE LedgerProofs -----------------------------
(***************************************************************************)
(* Lemmas about Ledger, for every set of subjects: hashes, signatures, and *)
(* what an entry that applies carries and produces.                        *)
(***************************************************************************)
EXTENDS Ledger, SequenceTheorems, TLAPS

\* The hash of an entry or of a proposal is a hash.
LEMMA HashOfIsHash ==
    ASSUME NEW e \in Entry \cup Proposal
    PROVE  HashOf(e) \in Hash
  <1>1. e.prev \in Seq(Payload) /\ e.seq \in Nat /\ e.op \in Op
          /\ e.subjects \in SUBSET Subject
    BY DEF Entry, Proposal, Hash
  <1>2. CanonicalPayload(e) \in Payload
    BY <1>1 DEF CanonicalPayload, Payload
  <1>3. QED
    BY <1>1, <1>2 DEF HashOf, Hash

\* Appending an entry to the chain lengthens it by one.
LEMMA HashOfLength ==
    ASSUME NEW e \in Entry
    PROVE  Len(HashOf(e)) = Len(e.prev) + 1
  <1>1. e.prev \in Seq(Payload) /\ e.seq \in Nat /\ e.op \in Op
          /\ e.subjects \in SUBSET Subject
    BY DEF Entry, Hash
  <1>2. CanonicalPayload(e) \in Payload
    BY <1>1 DEF CanonicalPayload, Payload
  <1>3. QED
    BY <1>1, <1>2 DEF HashOf

\* Approvals do not enter the hash.
LEMMA HashIgnoresApprovals ==
    ASSUME NEW e \in Entry \cup Proposal, NEW sigs \in SUBSET SigFile
    PROVE  /\ WithApprovals(e, sigs) \in Entry
           /\ WithApprovals(e, sigs).approvals = sigs
           /\ WithoutApprovals(e) \in Proposal
           /\ HashOf(WithApprovals(e, sigs)) = HashOf(e)
           /\ HashOf(WithoutApprovals(e)) = HashOf(e)
  BY DEF Entry, Proposal, WithApprovals, WithoutApprovals, HashOf,
         CanonicalPayload

\* What an identity signs is a signature file.
LEMMA SignatureIsSigFile ==
    ASSUME NEW x \in Subject, NEW h \in Hash
    PROVE  SignatureOf(x, h) \in SigFile
  BY SubjectAssumption DEF SignatureOf, SigFile

-----------------------------------------------------------------------------
(* Lemmas about Apply *)

\* One subject per node.
OneEach(ms) == \A m, k \in ms : m.node = k.node => m = k

\* The subjects of an entry that applies are one per node, and none of them
\* is a member already unless the entry removes it.
LEMMA ApplicableSubjects ==
    ASSUME NEW s \in State, NEW e \in Entry, CanApply(s, e)
    PROVE  /\ OneEach(e.subjects)
           /\ e.op # "REMOVE" =>
                \A x \in e.subjects, m \in s.members : x.node # m.node
  <1>1. e.op \in {"GENESIS", "ADD", "REMOVE"}
    BY DEF Entry, Op
  <1>2. OneEach(e.subjects)
    <2>1. CASE e.op = "GENESIS"
      BY <2>1 DEF CanApply, RequirementKnown, OneEach
    <2>2. CASE e.op # "GENESIS"
      BY <2>2 DEF CanApply, Hashable, OneEach
    <2>3. QED
      BY <2>1, <2>2
  <1>3. e.op # "REMOVE" =>
          \A x \in e.subjects, m \in s.members : x.node # m.node
    BY DEF CanApply, NoDuplicateMember, Targets, MemberIDs
  <1>4. QED
    BY <1>2, <1>3

\* The members after an entry that applies are one per node again.
LEMMA ApplyKeepsOneEach ==
    ASSUME NEW s \in State, NEW e \in Entry, CanApply(s, e), OneEach(s.members)
    PROVE  OneEach(AfterApply(s, e).members)
  BY ApplicableSubjects DEF AfterApply, OneEach

\* N-of-N: an entry that applies carries an approval of every member of the
\* membership it produces, made with the key of that membership.
LEMMA ApplyNeedsEveryone ==
    ASSUME NEW s \in State, NEW e \in Entry, CanApply(s, e), OneEach(s.members),
           s.nextSeq = 0 => s.members = {}
    PROVE  \A m \in AfterApply(s, e).members :
               SignatureOf(m, HashOf(e)) \in e.approvals
  <1> SUFFICES ASSUME NEW m \in AfterApply(s, e).members
               PROVE  SignatureOf(m, HashOf(e)) \in e.approvals
    OBVIOUS
  <1>1. e.op \in {"GENESIS", "ADD", "REMOVE"}
    BY DEF Entry, Op
  <1>2. m.node \in RequiredApprovers(s, e)
    <2>1. CASE e.op = "GENESIS"
      <3>1. s.members = {}
        BY <2>1 DEF CanApply, RequirementKnown
      <3>2. m \in e.subjects
        BY <2>1, <3>1 DEF AfterApply
      <3>3. QED
        BY <2>1, <3>2 DEF RequiredApprovers, Targets
    <2>2. CASE e.op = "ADD"
      BY <2>2 DEF AfterApply, RequiredApprovers, Targets, MemberIDs
    <2>3. CASE e.op = "REMOVE"
      BY <2>3 DEF AfterApply, RequiredApprovers, Targets, MemberIDs
    <2>4. QED
      BY <1>1, <2>1, <2>2, <2>3
  <1>3. PICK a \in e.approvals : a.node = m.node
    BY <1>2 DEF CanApply, MissingApprovers, Approvers
  <1>4. PICK x \in Signatories(s, e) : a = SignatureOf(x, HashOf(e))
    BY DEF CanApply, ApprovalsVerify
  <1>5. x.node = m.node
    BY <1>3, <1>4 DEF SignatureOf
  <1>6. x = m
    <2>1. CASE e.op = "REMOVE"
      BY <2>1, <1>5 DEF Signatories, AfterApply, OneEach
    <2>2. CASE e.op # "REMOVE"
      BY <2>2, <1>5, ApplicableSubjects DEF Signatories, AfterApply, OneEach, Targets
    <2>3. QED
      BY <2>1, <2>2
  <1>7. QED
    BY <1>4, <1>6

\* Apply advances the state by one sequence number and to the new hash.
LEMMA AfterApplyIsState ==
    ASSUME NEW s \in State, NEW e \in Entry
    PROVE  /\ AfterApply(s, e) \in State
           /\ AfterApply(s, e).nextSeq = s.nextSeq + 1
           /\ AfterApply(s, e).prevHash = HashOf(e)
  <1>1. HashOf(e) \in Hash
    BY HashOfIsHash
  <1>2. QED
    BY <1>1 DEF AfterApply, State, Entry
=============================================================================
