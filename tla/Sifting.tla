------------------------------- MODULE Sifting -------------------------------
(* What a loop that removes some elements of a sequence leaves: the others,   *)
(* in their order.                                                            *)
EXTENDS Naturals, Sequences, FiniteSets

\* The members of a finite set of numbers, the least first.
InOrder(P) ==
    CHOOSE f \in [1 .. Cardinality(P) -> P] :
        \A j, k \in DOMAIN f : j < k => f[j] < f[k]

\* The elements of s that lie in `kept`, in the order of s.
Sifted(s, kept) ==
    LET places == InOrder({i \in DOMAIN s : s[i] \in kept})
    IN [k \in DOMAIN places |-> s[places[k]]]
=============================================================================
