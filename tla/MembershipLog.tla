---------------------------- MODULE MembershipLog ----------------------------
(***************************************************************************)
(* What the ledger promises, without files, processes or pending           *)
(* proposals: a chain of membership changes, each of which every member of *)
(* the membership it produces has signed.  LedgerDir implements this.      *)
(***************************************************************************)
EXTENDS Ledger

VARIABLES
    history,   \* the chain of committed payloads; also the head hash
    members,   \* the current members
    signed     \* every signature ever produced

vars == <<history, members, signed>>

Init ==
    /\ history = ZeroHash
    /\ members = {}
    /\ signed = {}

\* Identities sign hashes.
Sign ==
    /\ signed \subseteq signed'
    /\ signed' \subseteq SigFile
    /\ UNCHANGED <<history, members>>

\* The operation op on the subjects xs turns the members ms into ms2.
Turns(op, xs, ms, ms2) ==
    \/ /\ op = "GENESIS"
       /\ history = ZeroHash /\ ms = {} /\ xs # {} /\ ms2 = xs
    \/ /\ op = "ADD"
       /\ \E x \in xs : /\ xs = {x}
                       /\ \A m \in ms : m.node # x.node
                       /\ ms2 = ms \cup {x}
    \/ /\ op = "REMOVE"
       /\ xs # {}
       /\ \E m \in ms : /\ \A x \in xs : x.node = m.node
                       /\ ms2 = ms \ {m}

\* Commit a change: everyone who is a member afterwards has signed the chain
\* that ends in it.
Change(op, xs) ==
    /\ Turns(op, xs, members, members')
    /\ history' = Append(history,
                         [seq |-> Len(history), op |-> op,
                          subjects |-> {CanonicalSubject(x) : x \in xs}])
    /\ \A m \in members' : SignatureOf(m, history') \in signed
    /\ UNCHANGED signed

Next ==
    \/ Sign
    \/ \E op \in Op, xs \in SUBSET Subject : Change(op, xs)

Spec == Init /\ [][Next]_vars
=============================================================================
