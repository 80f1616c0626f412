----------------------------- MODULE MCLedgerDir -----------------------------
(* Small instances of LedgerDir for TLC. *)
EXTENDS LedgerDir, TLC

CONSTANTS a, b, p1, p2

MCIp(h) == [host |-> h, bits |-> 32]

Member(n, k, h, e) ==
    [node |-> n, key |-> k, wg |-> n, ip |-> MCIp(h), endpoint |-> e]

\* Two nodes, one of which may come back with another identity key.
MCNode == {a, b}
MCKey == {"ka", "ka2", "kb"}
MCCidr == {MCIp(1), MCIp(2)}
MCEndpoint == {"e"}
MCSubject ==
    {Member(a, "ka", 1, "e"), Member(a, "ka2", 1, "e"), Member(b, "kb", 2, "e")}
\* Two nodes with one key each.
MCPair == {Member(a, "ka", 1, "e"), Member(b, "kb", 2, "e")}

MCSymmetry == Permutations({p1, p2})
=============================================================================
