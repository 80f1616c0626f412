----------------------------- MODULE PrefixLemmas -----------------------------
(***************************************************************************)
(* Lemmas about prefixes of sequences, for logs that grow and branches     *)
(* that are fast-forwarded.                                                *)
(***************************************************************************)
EXTENDS SequencesExt, SequenceTheorems, TLAPS

\* Prefixes element by element.
LEMMA PrefixIs ==
    ASSUME NEW S, NEW s \in Seq(S), NEW t \in Seq(S)
    PROVE  IsPrefix(s, t) <=> /\ Len(s) <= Len(t)
                              /\ \A i \in 1 .. Len(s) : s[i] = t[i]
  <1>1. ASSUME Len(s) <= Len(t)
        PROVE  SubSeq(s, 1, Len(s)) = s
               /\ SubSeq(t, 1, Len(s)) = [i \in 1 .. Len(s) |-> t[i]]
    BY <1>1
  <1>2. s = [i \in 1 .. Len(s) |-> s[i]]
    BY LenProperties
  <1>3. ASSUME IsPrefix(s, t)
        PROVE  Len(s) <= Len(t) /\ \A i \in 1 .. Len(s) : s[i] = t[i]
    BY <1>1, <1>2, <1>3 DEF IsPrefix
  <1>4. ASSUME Len(s) <= Len(t), \A i \in 1 .. Len(s) : s[i] = t[i]
        PROVE  IsPrefix(s, t)
    BY <1>1, <1>2, <1>4 DEF IsPrefix
  <1>5. QED
    BY <1>3, <1>4

LEMMA PrefixReflexive == ASSUME NEW S, NEW s \in Seq(S) PROVE IsPrefix(s, s)
  BY PrefixIs

LEMMA PrefixTransitive ==
    ASSUME NEW S, NEW s \in Seq(S), NEW t \in Seq(S), NEW u \in Seq(S),
           IsPrefix(s, t), IsPrefix(t, u)
    PROVE  IsPrefix(s, u)
  BY PrefixIs

LEMMA PrefixAppend ==
    ASSUME NEW S, NEW s \in Seq(S), NEW e \in S
    PROVE  IsPrefix(s, Append(s, e))
  <1>1. /\ Append(s, e) \in Seq(S)
        /\ Len(s) <= Len(Append(s, e))
        /\ \A i \in 1 .. Len(s) : s[i] = Append(s, e)[i]
    OBVIOUS
  <1>2. QED
    BY <1>1, PrefixIs
=============================================================================
