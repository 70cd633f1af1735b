-------------------------- MODULE CausalMeshProps ---------------------------
(* What the causal mesh must guarantee.                                      *)
EXTENDS CausalMesh

\* Every variable has its type.
TypeOK ==
    /\ clock \in [Node -> [wall : Nat, counter : Nat]]
    /\ log \in [Node -> Seq(Event)] /\ seq \in [Node -> Seq(Nat)]
    /\ state \in [Node -> [Ref -> Event \cup {None}]]
    /\ ledger \in [Node -> File] /\ unwritten \in [Node -> Seq(Event)]
    /\ inbox \in [Node -> Seq(Event)] /\ hearing \in [Node -> Seq(Event)]
    /\ deltas \subseteq Seq(Event)
    /\ made \subseteq Event /\ adopted \subseteq Node /\ forgot \in BOOLEAN
    /\ crashes \in Nat

\* temporal_causality.ts:140: the id of an event is stable and tells it from all
\* others, as it must for merges to drop what they know, although it is but the
\* length of a log that deltas and heals make longer meanwhile. A restart that
\* loses events, own or adopted, ends that.
EventIdsAreUnique ==
    ~forgot => \A e, g \in made : Id(e) = Id(g) => e = g

\* federated_mesh.ts:196: taking in a delta again, or one that overlaps with what
\* came before or was once sent from here, adds nothing.
EachEventOnce ==
    ~forgot => \A n \in Node : \A i, j \in DOMAIN log[n] :
                  Id(log[n][i]) = Id(log[n][j]) => i = j

\* federated_mesh.ts:227-233: nodes that took in what others did by heals only are
\* in the same state once they have the same events, whatever deltas they healed
\* with in whatever order and whatever they recorded in between.
HealedAgree ==
    ~forgot => \A m, n \in Node \ adopted :
                  EventsOf(log[m]) = EventsOf(log[n]) => state[m] = state[n]

\* temporal_causality.ts:21-23: no event is stamped before one that its node knew
\* of, whatever the time of day was on either node, and across restarts.
StampsFollowCauses ==
    [][\A e \in made' \ made : \A g \in EventsOf(log[e.node]) : Before(g, e)]_vars

\* mesh_healer.ts:17-21: no event a node has is lost by taking in, or by merging with,
\* deltas that were taken long before.
NothingIsLost ==
    [][~forgot' => \A n \in Node : EventsOf(log[n]) \subseteq EventsOf(log'[n])]_vars
=============================================================================
