----------------------------- MODULE PeerConfig -----------------------------
(***************************************************************************)
(* What tfnet start promises to whoever runs it, without commands, files   *)
(* or devices: it reads one configuration from a ledger that it accepts    *)
(* and puts that one in place as a whole, some time later or not at all.   *)
(* Overlay implements this with its commands.                              *)
(***************************************************************************)
CONSTANTS
    Config,     \* what start may configure
    Effect(_)   \* what a configuration may come to where it is put

VARIABLES
    offered,    \* what a start that began now would read
    taken,      \* what the start that is under way has read
    configured  \* what is in place

\* Each holds one configuration or none: a ledger may be refused, no start
\* need be under way, and the overlay may be down.
Optional == {{}} \cup {{x} : x \in Config}

vars == <<offered, taken, configured>>

Init ==
    /\ offered \in Optional
    /\ taken = {}
    /\ configured \in Optional

\* The ledger changes.
Offer ==
    /\ UNCHANGED <<taken, configured>>
    /\ offered' \in Optional

\* A start begins: there is something to read, and it reads all of it.
Read ==
    /\ taken = {}
    /\ offered # {}
    /\ taken' = offered
    /\ UNCHANGED <<offered, configured>>

\* It puts in place what it has read, and goes on or ends.
Apply ==
    /\ \E x \in taken : \E y \in Effect(x) : configured' = {y}
    /\ taken' \in {taken, {}}
    /\ UNCHANGED offered

\* It ends or dies.
Leave ==
    /\ taken' = {}
    /\ UNCHANGED <<offered, configured>>

\* The overlay goes down, with any start that is under way.
Down ==
    /\ configured' = {}
    /\ taken' = {}
    /\ UNCHANGED offered

Next == Offer \/ Read \/ Apply \/ Leave \/ Down

Spec == Init /\ [][Next]_vars
=============================================================================
