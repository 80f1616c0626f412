------------------------------- MODULE MCSync -------------------------------
(* Small instances of Sync for TLC: this host and two others. *)
EXTENDS Sync

CONSTANTS a, b, c, timer, operator, alice

Good(ms) == [members |-> ms, verifies |-> TRUE, fits |-> TRUE]
Bad(ms) == [members |-> ms, verifies |-> FALSE, fits |-> TRUE]
Clashing(ms) == [members |-> ms, verifies |-> TRUE, fits |-> FALSE]

MCNode == {a, b, c}
MCFirst == Good({a, b})

\* c joins, b leaves; everything verifies.
MCGood == {Good({a, b}), Good({a, b, c}), Good({a, c})}

\* A replay that stops in the middle, or at once; this host removed; and an
\* addition at an address that is taken.
MCAny == {Good({a, b}), Good({a, c}), Good({b}), Bad({a, c}), Bad({}),
          Clashing({a, b, c})}
MCTwo == {Good({a, b}), Good({a, c}), Bad({a, b, c}), Clashing({a, b, c})}
MCBroken == {Good({a, b}), Bad({a, b})}
=============================================================================
