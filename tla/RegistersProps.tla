--------------------------- MODULE RegistersProps ---------------------------
(* What the replicated registers must guarantee.                           *)
EXTENDS Registers

Registered == [Ref -> Update \cup {None}]

\* Every variable has its type.
RegTypeOK ==
    /\ attached \subseteq made /\ onBus \subseteq made /\ made \subseteq Replica
    /\ entry \in [Replica -> Registered]
    /\ lamport \in [Replica -> Nat]
    /\ versions \in [Replica -> [Ref -> Nat]]
    /\ sent \subseteq Update
    /\ wires \subseteq [from : Replica, lamport : Nat, entry : Registered,
                        seen : SUBSET Update]
    /\ seen \in [Replica -> SUBSET Update]
    /\ folded \subseteq Replica
    /\ inSync \subseteq Replica

\* crdt_sync.ts:18-20: replicas that have seen the same updates are in the same
\* state, in whatever order, how often and by whatever way they saw them.
Converges ==
    \A r, s \in Replica : seen[r] = seen[s] => entry[r] = entry[s]

\* A local write takes effect, unless its replica has merged or taken a batch,
\* which leave the clock behind what they bring (or is the copy of one that had).
WritesTakeEffect ==
    [][\A u \in sent' \ sent :
          u.replica \notin folded => entry'[u.replica][u.ref] = u]_regVars

\* Replicas that were on the bus from the start and took in nothing else are
\* one: what one of them writes is at once what all of them have, even while
\* others detach, merge old snapshots or publish what they had missed.
LiveReplicasAgree ==
    [][\A u \in sent' \ sent : u.replica \in inSync =>
          \A s \in inSync : entry'[s] = entry'[u.replica] /\ entry'[s][u.ref] = u]_regVars
=============================================================================
