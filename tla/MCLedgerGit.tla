---------------------------- MODULE MCLedgerGit ----------------------------
(* Small instances of LedgerGit for TLC. *)
EXTENDS LedgerGit

CONSTANTS a, b, j

\* An operator, and everything that is its own.
Operator(n) ==
    [node |-> n, key |-> n, wg |-> n, ip |-> [host |-> n, bits |-> 32],
     endpoint |-> n]

MCNode == {a, b, j}
MCCidr == {[host |-> n, bits |-> 32] : n \in MCNode}
MCSubject == {Operator(n) : n \in MCNode}
MCIdentity == [n \in MCNode |-> Operator(n)]
\* The instance without j.
MCPair == [n \in {a, b} |-> Operator(n)]

\* a's process may die anywhere and its network may fail.
MCUses ==
    [n \in {a, b} |-> IF n = a THEN {"no-pull", "no-push", "sign", "offline"}
                              ELSE {"no-finalize", "keep-pending"}]
MCPlain == [n \in MCNode |-> {}]
=============================================================================
