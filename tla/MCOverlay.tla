----------------------------- MODULE MCOverlay -----------------------------
(* Small instances of Overlay for TLC: this host s and two others. *)
EXTENDS Overlay, TLC

CONSTANTS s, b, c, p1, p2

MCNode == {s, b, c}
MCBits == {24, 32}

\* The member n with the address that is named after h.
M(n, h, k) == [node |-> n, wg |-> n, ip |-> [host |-> h, bits |-> k]]

Good(ms) == [members |-> ms, verifies |-> TRUE]

\* b and c have one address, in prefixes of different length; then b leaves;
\* then b takes over the address.
MCLedgers ==
    <<Good({M(s, s, 32), M(c, c, 32), M(b, c, 24)}),
      Good({M(s, s, 32), M(c, c, 32)}),
      Good({M(s, s, 32), M(b, c, 24)})>>

\* This host leaves and returns with another address.
MCReturns ==
    <<Good({M(s, s, 32), M(b, b, 32)}),
      Good({M(b, b, 32)}),
      Good({M(s, c, 32), M(b, b, 32)})>>

MCSymmetry == Permutations({p1, p2})
=============================================================================
