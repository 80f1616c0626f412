---------------------------- MODULE ReplayProofs ----------------------------
(***************************************************************************)
(* Theorems about Store.Replay and State.Apply as functions of a log, for  *)
(* logs of every length, whoever wrote them: what a log that replays shows *)
(* of its members, and what its head shows of the log.  They are proved    *)
(* without a behaviour, by induction over the lines; a host has nothing    *)
(* but the log, too, when it is given one.                                 *)
(***************************************************************************)
EXTENDS LedgerProofs, WellFoundedInduction

\* Induction over the natural numbers, for a set of them.
LEMMA SetInduction ==
    ASSUME NEW S \in SUBSET Nat, 0 \in S, \A n \in S : n + 1 \in S
    PROVE  S = Nat
  <1> DEFINE T == Nat \ S
  <1> SUFFICES ASSUME T # {} PROVE FALSE
    OBVIOUS
  <1>1. PICK n \in T : \A k \in T : ~ (<<k, n>> \in OpToRel(<, Nat))
    <2>1. T \subseteq Nat
      OBVIOUS
    <2> HIDE DEF T
    <2>2. QED
      BY <2>1, WFMin, NatLessThanWellFounded, Zenon
  <1>2. n \in Nat /\ n # 0 /\ n - 1 \in Nat
    OBVIOUS
  <1>3. n - 1 \in T
    BY <1>2
  <1>4. <<n - 1, n>> \in OpToRel(<, Nat)
    BY <1>2 DEF OpToRel
  <1>5. QED
    BY <1>1, <1>3, <1>4

\* What Replays is defined by.
IsRun(g, l, n) ==
    g = [i \in 0 .. n |-> IF i = 0 THEN EmptyReplay ELSE ReplayEntry(g[i-1], l[i])]

\* There is such a function, line by line.
LEMMA RunExists ==
    ASSUME NEW l, NEW n \in Nat
    PROVE  \E g : IsRun(g, l, n)
  <1> DEFINE S == {k \in Nat : \E g : IsRun(g, l, k)}
  <1>1. 0 \in S
    <2> DEFINE g == [i \in 0 .. 0 |-> EmptyReplay]
    <2>1. IsRun(g, l, 0)
      BY DEF IsRun
    <2>2. QED
      BY <2>1
  <1>2. ASSUME NEW k \in S PROVE k + 1 \in S
    <2>1. PICK g : IsRun(g, l, k)
      OBVIOUS
    <2> DEFINE h == [i \in 0 .. k + 1 |-> IF i <= k THEN g[i]
                                          ELSE ReplayEntry(g[k], l[k + 1])]
               w(i) == IF i = 0 THEN EmptyReplay ELSE ReplayEntry(h[i-1], l[i])
    <2>2. ASSUME NEW i \in 0 .. k PROVE g[i] = w(i)
      <3>1. g[i] = IF i = 0 THEN EmptyReplay ELSE ReplayEntry(g[i-1], l[i])
        BY <2>1 DEF IsRun
      <3>2. i # 0 => h[i-1] = g[i-1]
        OBVIOUS
      <3>3. QED
        BY <3>1, <3>2
    <2>3. ASSUME NEW i \in 0 .. k + 1 PROVE h[i] = w(i)
      <3>1. CASE i <= k
        BY <3>1, <2>2
      <3>2. CASE i = k + 1
        <4>1. h[k+1] = ReplayEntry(g[k], l[k + 1]) /\ h[k] = g[k]
          OBVIOUS
        <4>2. w(k+1) = ReplayEntry(h[k], l[k + 1])
          OBVIOUS
        <4>3. QED
          BY <3>2, <4>1, <4>2
      <3>3. QED
        BY <3>1, <3>2
    <2>4. h = [i \in 0 .. k + 1 |-> w(i)]
      <3>1. h = [i \in 0 .. k + 1 |-> h[i]]
        OBVIOUS
      <3> HIDE DEF h, w
      <3>2. QED
        BY <2>3, <3>1
    <2>5. IsRun(h, l, k + 1)
      BY <2>4 DEF IsRun
    <2> HIDE DEF h
    <2>6. QED
      BY <2>5
  <1> HIDE DEF S
  <1>3. S = Nat
    BY <1>1, <1>2, SetInduction DEF S
  <1>4. QED
    BY <1>3 DEF S

\* So Replays has the values that its definition gives it.
LEMMA ReplaysIs ==
    ASSUME NEW l, Len(l) \in Nat
    PROVE  IsRun(Replays(l), l, Len(l))
  <1>1. \E g : IsRun(g, l, Len(l))
    BY RunExists
  <1>2. Replays(l) = CHOOSE g : IsRun(g, l, Len(l))
    BY Zenon DEF Replays, IsRun
  <1>3. QED
    BY <1>1, <1>2, Zenon

\* What such a function is at one line, from the line before.
LEMMA RunStep ==
    ASSUME NEW g, NEW l, NEW n \in Nat, IsRun(g, l, n)
    PROVE  /\ g[0] = EmptyReplay
           /\ \A i \in 1 .. n : g[i] = ReplayEntry(g[i-1], l[i])
  BY DEF IsRun

\* Logs that agree on their first n entries replay alike that far.
LEMMA RunsAgree ==
    ASSUME NEW g, NEW h, NEW l, NEW k, NEW n \in Nat, NEW m \in Nat,
           IsRun(g, l, n), IsRun(h, k, m),
           NEW o \in Nat, o <= n, o <= m, \A i \in 1 .. o : l[i] = k[i]
    PROVE  g[o] = h[o]
  <1> DEFINE S == {i \in Nat : i <= o => g[i] = h[i]}
  <1>1. 0 \in S
    BY RunStep
  <1>2. ASSUME NEW i \in S PROVE i + 1 \in S
    <2>1. CASE i + 1 <= o
      <3>1. g[i] = h[i] /\ l[i+1] = k[i+1] /\ i + 1 \in 1 .. n /\ i + 1 \in 1 .. m
            /\ i + 1 - 1 = i
        BY <2>1
      <3>2. g[i+1] = ReplayEntry(g[i+1-1], l[i+1]) /\ h[i+1] = ReplayEntry(h[i+1-1], k[i+1])
        BY <3>1, RunStep
      <3>3. QED
        BY <3>1, <3>2
    <2>2. QED
      BY <2>1
  <1> HIDE DEF S
  <1>3. S = Nat
    BY <1>1, <1>2, SetInduction DEF S
  <1>4. QED
    BY <1>3 DEF S

-----------------------------------------------------------------------------
(* Replay, line by line *)

\* What replays up to one line, from what replays up to the line before.
LEMMA ReplaysStep ==
    ASSUME NEW l \in Seq(Entry)
    PROVE  /\ Replays(l)[0] = EmptyReplay
           /\ \A i \in 1 .. Len(l) :
                Replays(l)[i] = ReplayEntry(Replays(l)[i-1], l[i])
  BY ReplaysIs, RunStep

\* Nothing to replay.
LEMMA ReplayEmpty == Replay(<< >>) = EmptyReplay
  <1>1. << >> \in Seq(Entry) /\ Len(<< >>) = 0
    OBVIOUS
  <1>2. QED
    BY <1>1, ReplaysStep DEF Replay

\* One more line: Replay goes on from where it ended without it.
LEMMA ReplayAppend ==
    ASSUME NEW l \in Seq(Entry), NEW e \in Entry
    PROVE  Replay(Append(l, e)) = ReplayEntry(Replay(l), e)
  <1> DEFINE k == Append(l, e)
             n == Len(l)
  <1>1. k \in Seq(Entry) /\ Len(k) = n + 1 /\ n \in Nat /\ k[n+1] = e
        /\ \A i \in 1 .. n : l[i] = k[i]
    OBVIOUS
  <1> HIDE DEF k
  <1>2. Replays(k)[n+1] = ReplayEntry(Replays(k)[n], e)
    BY <1>1, ReplaysStep
  <1>3. IsRun(Replays(l), l, n) /\ IsRun(Replays(k), k, n + 1)
    BY <1>1, ReplaysIs
  <1>4. Replays(l)[n] = Replays(k)[n]
    BY <1>1, <1>3, RunsAgree
  <1>5. QED
    BY <1>1, <1>2, <1>4 DEF Replay, k

\* What Apply keeps: one member for each node, and none before the genesis.
WellFormed(s) == OneEach(s.members) /\ (s.nextSeq = 0 => s.members = {})

\* State.Apply keeps one member for each node, and takes no state back to none.
LEMMA EntryKeepsWellFormed ==
    ASSUME NEW r \in ReplayResult, WellFormed(r.state), NEW e \in Entry
    PROVE  /\ ReplayEntry(r, e) \in ReplayResult
           /\ WellFormed(ReplayEntry(r, e).state)
           /\ ReplayEntry(r, e).ok =>
                /\ r.ok
                /\ CanApply(r.state, e)
                /\ ReplayEntry(r, e).state = AfterApply(r.state, e)
           /\ ~ ReplayEntry(r, e).ok => ReplayEntry(r, e).state = r.state
  <1> DEFINE s == r.state
             t == AfterApply(s, e)
  <1>1. s \in State /\ r.ok \in BOOLEAN /\ s.nextSeq \in Nat
    BY DEF ReplayResult, State
  <1>2. t \in State /\ t.nextSeq = s.nextSeq + 1
    BY <1>1, AfterApplyIsState
  <1>3. CASE r.ok /\ CanApply(s, e)
    <2>1. OneEach(t.members)
      BY <1>1, <1>3, ApplyKeepsOneEach DEF WellFormed
    <2>2. ReplayEntry(r, e) = [ok |-> TRUE, state |-> t]
      BY <1>3 DEF ReplayEntry
    <2> HIDE DEF t
    <2>3. WellFormed(t)
      BY <1>1, <1>2, <2>1 DEF WellFormed
    <2>4. QED
      BY <1>2, <1>3, <2>2, <2>3 DEF ReplayResult, t
  <1>4. CASE ~ (r.ok /\ CanApply(s, e))
    BY <1>1, <1>4 DEF ReplayEntry, ReplayResult
  <1>5. QED
    BY <1>3, <1>4

\* Every prefix of the log replays to a state with one member for each node,
\* and one that applies to the end has as many entries as its state says.
LEMMA ReplaysWellFormed ==
    ASSUME NEW l \in Seq(Entry), NEW n \in 0 .. Len(l)
    PROVE  /\ Replays(l)[n] \in ReplayResult
           /\ WellFormed(Replays(l)[n].state)
           /\ Replays(l)[n].state.nextSeq <= n
           /\ Replays(l)[n].ok => Replays(l)[n].state.nextSeq = n
  <1> DEFINE OK(i) == /\ Replays(l)[i] \in ReplayResult
                      /\ WellFormed(Replays(l)[i].state)
                      /\ Replays(l)[i].state.nextSeq <= i
                      /\ Replays(l)[i].ok => Replays(l)[i].state.nextSeq = i
             S == {i \in Nat : i <= Len(l) => OK(i)}
  <1>1. 0 \in S
    <2>1. EmptyReplay \in ReplayResult
      BY DEF EmptyReplay, EmptyState, ReplayResult, State, ZeroHash, Hash
    <2>2. WellFormed(EmptyReplay.state) /\ EmptyReplay.state.nextSeq = 0
      BY DEF WellFormed, EmptyReplay, EmptyState, OneEach
    <2>3. QED
      BY <2>1, <2>2, ReplaysStep
  <1>2. ASSUME NEW i \in S PROVE i + 1 \in S
    <2> SUFFICES ASSUME i + 1 <= Len(l) PROVE OK(i + 1)
      OBVIOUS
    <2> DEFINE r == Replays(l)[i]
    <2>1. OK(i) /\ i + 1 \in 1 .. Len(l) /\ l[i+1] \in Entry /\ i + 1 - 1 = i
      OBVIOUS
    <2>2. Replays(l)[i+1] = ReplayEntry(r, l[i+1])
      BY <2>1, ReplaysStep
    <2>3. /\ r \in ReplayResult /\ WellFormed(r.state)
          /\ r.state.nextSeq <= i /\ (r.ok => r.state.nextSeq = i)
      BY <2>1
    <2> HIDE DEF r
    <2>4. /\ Replays(l)[i+1] \in ReplayResult
          /\ WellFormed(Replays(l)[i+1].state)
          /\ Replays(l)[i+1].ok =>
                r.ok /\ Replays(l)[i+1].state = AfterApply(r.state, l[i+1])
          /\ ~ Replays(l)[i+1].ok => Replays(l)[i+1].state = r.state
      BY <2>1, <2>2, <2>3, EntryKeepsWellFormed
    <2>5. r.state \in State
      BY <2>3 DEF ReplayResult
    <2>6. AfterApply(r.state, l[i+1]).nextSeq = r.state.nextSeq + 1
      BY <2>1, <2>5, AfterApplyIsState
    <2>7. /\ Replays(l)[i+1].ok => Replays(l)[i+1].state.nextSeq = i + 1
          /\ Replays(l)[i+1].state.nextSeq <= i + 1
      <3>1. i \in Nat /\ r.state.nextSeq \in Nat
        BY <2>5 DEF State
      <3>2. CASE Replays(l)[i+1].ok
        BY <2>3, <2>4, <2>6, <3>1, <3>2
      <3>3. CASE ~ Replays(l)[i+1].ok
        BY <2>3, <2>4, <3>1, <3>3
      <3>4. QED
        BY <3>2, <3>3
    <2>8. QED
      BY <2>4, <2>7
  <1> HIDE DEF S
  <1>3. S = Nat
    BY <1>1, <1>2, SetInduction DEF S
  <1>4. QED
    BY <1>3 DEF S

\* So does the whole log.
LEMMA ReplayWellFormed ==
    ASSUME NEW l \in Seq(Entry)
    PROVE  Replay(l) \in ReplayResult /\ WellFormed(Replay(l).state)
  BY ReplaysWellFormed DEF Replay

-----------------------------------------------------------------------------
(* What a log that replays shows *)

\* Members of a prefix have approved what they should have.
ConsentedUpTo(l, n) ==
    LET s == Replays(l)[n].state
    IN  \A m \in s.members, i \in 1 .. s.nextSeq :
            \/ IntroducedWithin(l, m.node, i, s.nextSeq)
            \/ SignatureOf(m, HashOf(l[i])) \in l[i].approvals

\* An entry that applies carries the approvals of all its members, and whoever
\* it does not introduce was a member before.
LEMMA EntryKeepsConsent ==
    ASSUME NEW l \in Seq(Entry), NEW n \in Nat, n + 1 <= Len(l), ConsentedUpTo(l, n)
    PROVE  ConsentedUpTo(l, n + 1)
  <1> DEFINE r == Replays(l)[n]
             q == Replays(l)[n+1]
             e == l[n+1]
             s == r.state
  <1>1. /\ n \in 0 .. Len(l) /\ n + 1 \in 1 .. Len(l) /\ n + 1 - 1 = n
        /\ l[n+1] \in Entry
    OBVIOUS
  <1>2. /\ r \in ReplayResult /\ WellFormed(r.state) /\ (r.ok => r.state.nextSeq = n)
        /\ q = ReplayEntry(r, e) /\ r.state \in State /\ e \in Entry
    BY <1>1, ReplaysStep, ReplaysWellFormed DEF ReplayResult
  <1>3. ConsentedUpTo(l, n) =
          \A m \in s.members, i \in 1 .. s.nextSeq :
            \/ IntroducedWithin(l, m.node, i, s.nextSeq)
            \/ SignatureOf(m, HashOf(l[i])) \in l[i].approvals
    BY DEF ConsentedUpTo
  <1>4. ConsentedUpTo(l, n + 1) =
          \A m \in q.state.members, i \in 1 .. q.state.nextSeq :
            \/ IntroducedWithin(l, m.node, i, q.state.nextSeq)
            \/ SignatureOf(m, HashOf(l[i])) \in l[i].approvals
    BY DEF ConsentedUpTo
  <1> HIDE DEF r, q, e
  <1>5. CASE ~ q.ok
    <2>1. q.state = r.state
      BY <1>2, <1>5, EntryKeepsWellFormed
    <2>2. QED
      BY <1>3, <1>4, <2>1
  <1>6. CASE q.ok
    <2>1. r.ok /\ CanApply(s, e) /\ q.state = AfterApply(s, e) /\ s.nextSeq = n
      BY <1>2, <1>6, EntryKeepsWellFormed
    <2>2. q.state.nextSeq = n + 1
      BY <1>2, <2>1, AfterApplyIsState
    <2>3. SUFFICES ASSUME NEW m \in q.state.members, NEW i \in 1 .. n + 1,
                          ~ IntroducedWithin(l, m.node, i, n + 1)
                   PROVE  SignatureOf(m, HashOf(l[i])) \in l[i].approvals
      BY <1>4, <2>2
    <2>4. CASE i = n + 1
      <3>1. SignatureOf(m, HashOf(e)) \in e.approvals
        BY <1>2, <2>1, ApplyNeedsEveryone DEF WellFormed
      <3>2. QED
        BY <2>4, <3>1 DEF e
    <2>5. CASE i # n + 1
      <3>1. i \in 1 .. n
        BY <2>5
      <3>2. ~ (e.op # "REMOVE" /\ m.node \in Targets(e))
        BY <2>3, <3>1 DEF IntroducedWithin, e
      <3>3. m \in s.members
        BY <2>1, <3>2 DEF AfterApply, Targets
      <3>4. ~ IntroducedWithin(l, m.node, i, n)
        BY <2>3, <3>1 DEF IntroducedWithin
      <3>5. QED
        BY <1>3, <2>1, <3>1, <3>3, <3>4
    <2>6. QED
      BY <2>4, <2>5
  <1>7. QED
    BY <1>5, <1>6

\* Every log shows the consent of its members: whatever is read back from
\* log.jsonl, Store.Replay stops at the first entry that lacks an approval of
\* a member that it would leave in place (State.Apply).
THEOREM ReplayShowsConsent ==
    ASSUME NEW l \in Seq(Entry)
    PROVE  Consented(l)
  <1> DEFINE S == {n \in Nat : n <= Len(l) => ConsentedUpTo(l, n)}
  <1>1. 0 \in S
    <2>1. Replays(l)[0].state.members = {}
      BY ReplaysStep DEF EmptyReplay, EmptyState
    <2>2. QED
      BY <2>1 DEF ConsentedUpTo
  <1>2. ASSUME NEW n \in S PROVE n + 1 \in S
    <2>1. CASE n + 1 <= Len(l)
      <3>1. ConsentedUpTo(l, n)
        BY <2>1
      <3>2. QED
        BY <2>1, <3>1, EntryKeepsConsent
    <2>2. QED
      BY <2>1
  <1> HIDE DEF S
  <1>3. S = Nat
    BY <1>1, <1>2, SetInduction DEF S
  <1>4. QED
    BY <1>3 DEF S, Consented, ConsentedUpTo, Replay

-----------------------------------------------------------------------------
(* What the head of a log stands for *)

\* The head is the hash of the last entry that was applied.
LEMMA HeadOfReplay ==
    ASSUME NEW l \in Seq(Entry), NEW n \in 1 .. Len(l), Replays(l)[n].ok
    PROVE  /\ Replays(l)[n-1].ok
           /\ CanApply(Replays(l)[n-1].state, l[n])
           /\ Replays(l)[n].state = AfterApply(Replays(l)[n-1].state, l[n])
           /\ Replays(l)[n].state.prevHash = HashOf(l[n])
           /\ l[n].prev = Replays(l)[n-1].state.prevHash
  <1>1. n - 1 \in 0 .. Len(l) /\ l[n] \in Entry
    OBVIOUS
  <1>2. /\ Replays(l)[n-1] \in ReplayResult /\ WellFormed(Replays(l)[n-1].state)
        /\ Replays(l)[n] = ReplayEntry(Replays(l)[n-1], l[n])
    BY <1>1, ReplaysStep, ReplaysWellFormed
  <1>3. /\ Replays(l)[n-1].ok
        /\ CanApply(Replays(l)[n-1].state, l[n])
        /\ Replays(l)[n].state = AfterApply(Replays(l)[n-1].state, l[n])
    <2> DEFINE r == Replays(l)[n-1]
               q == Replays(l)[n]
               e == l[n]
    <2>1. /\ r \in ReplayResult /\ WellFormed(r.state) /\ e \in Entry
          /\ q = ReplayEntry(r, e) /\ q.ok
      BY <1>1, <1>2
    <2> HIDE DEF r, q, e
    <2>2. r.ok /\ CanApply(r.state, e) /\ q.state = AfterApply(r.state, e)
      BY <2>1, EntryKeepsWellFormed
    <2>3. QED
      BY <2>2 DEF r, q, e
  <1>4. QED
    BY <1>3 DEF AfterApply, CanApply

\* One payload and one hash before it for each hash.
LEMMA HashDetermines ==
    ASSUME NEW d \in Entry, NEW e \in Entry, HashOf(d) = HashOf(e)
    PROVE  d.prev = e.prev /\ CanonicalPayload(d) = CanonicalPayload(e)
  <1>1. /\ d.prev \in Seq(Payload) /\ e.prev \in Seq(Payload)
        /\ CanonicalPayload(d) \in Payload /\ CanonicalPayload(e) \in Payload
    BY DEF Entry, Hash, CanonicalPayload, Payload
  <1>2. QED
    BY <1>1, AppendInjective DEF HashOf

\* An entry changes the members as its payload says.
LEMMA PayloadDeterminesChange ==
    ASSUME NEW s, NEW t, CanonicalMembers(s) = CanonicalMembers(t),
           NEW d, NEW e, CanonicalPayload(d) = CanonicalPayload(e)
    PROVE  CanonicalMembers(AfterApply(s, d)) = CanonicalMembers(AfterApply(t, e))
  <1>1. /\ d.op = e.op
        /\ {CanonicalSubject(x) : x \in d.subjects}
             = {CanonicalSubject(x) : x \in e.subjects}
    BY DEF CanonicalPayload
  <1> DEFINE Change(ms, op, xs) ==
                 IF op = "REMOVE"
                 THEN {c \in ms : ~ \E y \in xs : y.node = c.node}
                 ELSE ms \cup xs
  <1>2. ASSUME NEW u, NEW f
        PROVE  CanonicalMembers(AfterApply(u, f))
                 = Change(CanonicalMembers(u), f.op,
                          {CanonicalSubject(z) : z \in f.subjects})
    <2> DEFINE xs == {CanonicalSubject(z) : z \in f.subjects}
    <2>1. \A x : CanonicalSubject(x).node = x.node
      BY DEF CanonicalSubject
    <2>2. ASSUME NEW x
          PROVE  x.node \in Targets(f) <=> \E y \in xs : y.node = x.node
      <3>1. x.node \in Targets(f) <=> \E z \in f.subjects : z.node = x.node
        BY DEF Targets
      <3>2. QED
        BY <2>1, <3>1
    <2>3. CASE f.op = "REMOVE"
      <3>1. AfterApply(u, f).members = {m \in u.members : m.node \notin Targets(f)}
        BY <2>3 DEF AfterApply
      <3>2. CanonicalMembers(AfterApply(u, f))
              = {c \in CanonicalMembers(u) : ~ \E y \in xs : y.node = c.node}
        BY <2>1, <2>2, <3>1 DEF CanonicalMembers
      <3>3. QED
        BY <2>3, <3>2
    <2>4. CASE f.op # "REMOVE"
      <3>1. AfterApply(u, f).members = u.members \cup f.subjects
        BY <2>4 DEF AfterApply
      <3>2. QED
        BY <2>4, <3>1 DEF CanonicalMembers
    <2>5. QED
      BY <2>3, <2>4
  <1> HIDE DEF Change
  <1>3. /\ CanonicalMembers(AfterApply(s, d))
             = Change(CanonicalMembers(s), d.op,
                      {CanonicalSubject(z) : z \in d.subjects})
        /\ CanonicalMembers(AfterApply(t, e))
             = Change(CanonicalMembers(t), e.op,
                      {CanonicalSubject(z) : z \in e.subjects})
    BY <1>2
  <1>4. QED
    BY <1>1, <1>3

\* The head stands for the whole log.  Two logs that replay to the same head
\* have the same entries, in the same order, and lead to the same members, up
\* to endpoint hints and approvals: the prev_hash chain that State.Apply checks
\* and canonicalPayload covers.
THEOREM HeadDeterminesLog ==
    ASSUME NEW l \in Seq(Entry), NEW k \in Seq(Entry), Replay(l).ok, Replay(k).ok,
           Replay(l).state.prevHash = Replay(k).state.prevHash
    PROVE  /\ Len(l) = Len(k)
           /\ \A i \in 1 .. Len(l) : HashOf(l[i]) = HashOf(k[i])
           /\ CanonicalMembers(Replay(l).state) = CanonicalMembers(Replay(k).state)
  <1> DEFINE a(n) == Replays(l)[n]
             b(n) == Replays(k)[n]
             Same(n) == \A m \in 0 .. Len(k) :
                          a(n).ok /\ b(m).ok /\ a(n).state.prevHash = b(m).state.prevHash
                            => /\ n = m
                               /\ \A i \in 1 .. n : HashOf(l[i]) = HashOf(k[i])
                               /\ CanonicalMembers(a(n).state)
                                    = CanonicalMembers(b(m).state)
             S == {n \in Nat : n <= Len(l) => Same(n)}
  <1>0. Len(l) \in Nat /\ Len(k) \in Nat
    OBVIOUS
  <1>1. a(0) = EmptyReplay /\ b(0) = EmptyReplay
    BY ReplaysStep
  <1>2. ASSUME NEW j \in Seq(Entry), NEW n \in 1 .. Len(j), Replays(j)[n].ok
        PROVE  Replays(j)[n].state.prevHash # ZeroHash
    <2>1. Replays(j)[n].state.prevHash = HashOf(j[n]) /\ j[n] \in Entry
      BY <1>2, HeadOfReplay
    <2>2. j[n].prev \in Seq(Payload) /\ Len(HashOf(j[n])) = Len(j[n].prev) + 1
      BY <2>1, HashOfLength DEF Entry, Hash
    <2>3. Len(ZeroHash) = 0 /\ Len(j[n].prev) \in Nat
      BY <2>2 DEF ZeroHash
    <2>4. QED
      BY <2>1, <2>2, <2>3
  <1>3. 0 \in S
    <2>1. SUFFICES ASSUME NEW m \in 0 .. Len(k), b(m).ok,
                          a(0).state.prevHash = b(m).state.prevHash
                   PROVE  m = 0
      BY <1>1
    <2>2. b(m).state.prevHash = ZeroHash
      BY <1>1, <2>1 DEF EmptyReplay, EmptyState
    <2>3. QED
      BY <1>2, <2>1, <2>2
  <1>4. ASSUME NEW n \in S PROVE n + 1 \in S
    <2> SUFFICES ASSUME n + 1 <= Len(l), NEW m \in 0 .. Len(k), a(n+1).ok, b(m).ok,
                        a(n+1).state.prevHash = b(m).state.prevHash
                 PROVE  /\ n + 1 = m
                        /\ \A i \in 1 .. n + 1 : HashOf(l[i]) = HashOf(k[i])
                        /\ CanonicalMembers(a(n+1).state)
                             = CanonicalMembers(b(m).state)
      OBVIOUS
    <2>1. n + 1 \in 1 .. Len(l) /\ n \in Nat /\ n + 1 - 1 = n /\ Same(n)
      OBVIOUS
    <2> HIDE DEF Same
    <2>2. m # 0
      BY <1>1, <1>2, <2>1 DEF EmptyReplay, EmptyState
    <2>3. m \in 1 .. Len(k) /\ m - 1 \in 0 .. Len(k) /\ m - 1 + 1 = m
      BY <2>2
    <2>4. /\ a(n).ok /\ a(n+1).state = AfterApply(a(n).state, l[n+1])
          /\ a(n+1).state.prevHash = HashOf(l[n+1])
          /\ l[n+1].prev = a(n).state.prevHash
          /\ l[n+1] \in Entry
      BY <2>1, HeadOfReplay
    <2>5. /\ b(m-1).ok /\ b(m).state = AfterApply(b(m-1).state, k[m])
          /\ b(m).state.prevHash = HashOf(k[m])
          /\ k[m].prev = b(m-1).state.prevHash
          /\ k[m] \in Entry
      BY <2>3, HeadOfReplay
    <2>6. /\ l[n+1].prev = k[m].prev
          /\ CanonicalPayload(l[n+1]) = CanonicalPayload(k[m])
          /\ HashOf(l[n+1]) = HashOf(k[m])
      BY <2>4, <2>5, HashDetermines
    <2>7. a(n).state.prevHash = b(m-1).state.prevHash
      BY <2>4, <2>5, <2>6
    <2>8. /\ n = m - 1
          /\ \A i \in 1 .. n : HashOf(l[i]) = HashOf(k[i])
          /\ CanonicalMembers(a(n).state) = CanonicalMembers(b(m-1).state)
      BY <2>1, <2>3, <2>4, <2>5, <2>7 DEF Same
    <2>9. n + 1 = m
      BY <2>1, <2>3, <2>8
    <2>10. \A i \in 1 .. n + 1 : HashOf(l[i]) = HashOf(k[i])
      <3>1. \A i \in 1 .. n + 1 : i \in 1 .. n \/ i = n + 1
        BY <2>1
      <3>2. QED
        BY <2>6, <2>8, <2>9, <3>1
    <2>11. CanonicalMembers(a(n+1).state) = CanonicalMembers(b(m).state)
      BY <2>4, <2>5, <2>6, <2>8, PayloadDeterminesChange
    <2>12. QED
      BY <2>9, <2>10, <2>11
  <1> HIDE DEF S
  <1>5. S = Nat
    BY <1>3, <1>4, SetInduction DEF S
  <1>6. Same(Len(l))
    BY <1>0, <1>5 DEF S
  <1>7. QED
    BY <1>0, <1>6 DEF Replay
=============================================================================
