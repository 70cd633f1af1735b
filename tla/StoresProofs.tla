---------------------------- MODULE StoresProofs ----------------------------
(***************************************************************************)
(* Proofs about the two stores that several parties write at once: the     *)
(* replicated registers, which converge whatever the replicas, the         *)
(* registers and the clocks, and the durable event store, whatever the     *)
(* processes, the workers and the tasks. Neither is used by the other.     *)
(***************************************************************************)
EXTENDS RegistersProps, EventStoreProps, TLAPS

(***************************************************************************)
(* The replicated registers.                                               *)
(***************************************************************************)

\* What the order compares is numbers.
LEMMA FieldTypes ==
    ASSUME NEW u \in Update
    PROVE  /\ u.lamport \in Nat /\ u.version \in Nat /\ u.at \in Nat
           /\ u.replica \in Replica /\ u.replica \in Nat /\ u.ref \in Ref
BY RegistersAssumption DEF RegistersAssumption, Update

-----------------------------------------------------------------------------
(* The inductive invariant.                                                *)

\* Every register holds the highest of the updates its replica has seen.
HoldsHighest ==
    /\ \A r \in Replica, f \in Ref : Highest(entry[r][f], To(f, seen[r]))
    /\ \A w \in wires, f \in Ref : Highest(w.entry[f], To(f, w.seen))

\* Only updates that were made are seen, and by replicas that were made.
SeenWasSent ==
    /\ \A r \in Replica : seen[r] \subseteq sent
    /\ \A w \in wires : w.seen \subseteq sent
    /\ \A r \in Replica \ made : seen[r] = {}

\* A replica never gives a register the same version twice.
VersionsAreUnique ==
    /\ \A u \in sent : u.version <= versions[u.replica][u.ref]
    /\ \A u, v \in sent :
          u.replica = v.replica /\ u.ref = v.ref /\ u.version = v.version => u = v

Leads(clock, es) == \A f \in Ref : es[f] # None => es[f].lamport <= clock

\* The clock of a replica that never folded leads what it has.
ClocksLead ==
    /\ \A r \in Replica \ folded : Leads(lamport[r], entry[r])
    /\ \A w \in wires : w.from \notin folded => Leads(w.lamport, w.entry)

\* Those in sync have seen the same, and will.
SyncIsKept ==
    /\ inSync \subseteq onBus \cap attached \cap made
    /\ inSync \cap folded = {} /\ folded \subseteq made
    /\ \A r, s \in inSync : seen[r] = seen[s]

RegInv == RegTypeOK /\ HoldsHighest /\ SeenWasSent /\ VersionsAreUnique /\ ClocksLead /\ SyncIsKept

-----------------------------------------------------------------------------
(* The order of updates.                                                   *)

\* wins never holds both ways.
LEMMA BeatsAsymmetric ==
    ASSUME NEW u \in Update, NEW v \in Update, Beats(u, v)
    PROVE  ~Beats(v, u)
BY FieldTypes DEF Beats

\* wins is transitive.
LEMMA BeatsTransitive ==
    ASSUME NEW u \in Update, NEW v \in Update, NEW w \in Update, Beats(u, v), Beats(v, w)
    PROVE  Beats(u, w)
BY FieldTypes DEF Beats

\* Of two updates one wins, unless one replica made both with one version.
LEMMA BeatsTotal ==
    ASSUME NEW u \in Update, NEW v \in Update,
           u.replica # v.replica \/ u.version # v.version
    PROVE  Beats(u, v) \/ Beats(v, u)
BY FieldTypes DEF Beats

\* The order is total on the updates of a register that were made.
LEMMA Comparable ==
    ASSUME VersionsAreUnique, sent \subseteq Update, NEW u \in sent, NEW v \in sent,
           u.ref = v.ref, u # v
    PROVE  Beats(u, v) \/ Beats(v, u)
<1>1. u.replica # v.replica \/ u.version # v.version
  BY DEF VersionsAreUnique
<1> QED
  BY <1>1, BeatsTotal

\* A register has one highest update.
LEMMA HighestUnique ==
    ASSUME NEW us \in SUBSET Update, NEW d, NEW e, Highest(d, us), Highest(e, us)
    PROVE  d = e
<1>1. CASE us = {}
  BY <1>1 DEF Highest
<1>2. CASE us # {}
  <2>1. d # None /\ e # None
    BY <1>2, NoneAssumption DEF Highest
  <2>2. d \in us /\ e \in us
    BY <2>1 DEF Highest
  <2>3. d = e \/ (Beats(d, e) /\ Beats(e, d))
    BY <2>2 DEF Highest
  <2> QED
    BY <2>2, <2>3, BeatsAsymmetric
<1> QED
  BY <1>1, <1>2

\* What is applied to a register that holds the highest update keeps it so.
LEMMA KeptIsHighest ==
    ASSUME NEW us \in SUBSET Update, NEW u \in Update, NEW e, Highest(e, us),
           \A v \in us : v = u \/ Beats(u, v) \/ Beats(v, u)
    PROVE  Highest(Kept(e, u), us \cup {u})
<1>1. CASE e = None
  <2>1. us = {}
    BY <1>1, NoneAssumption DEF Highest
  <2>2. Kept(e, u) = u
    BY <1>1 DEF Kept
  <2> QED
    BY <2>1, <2>2 DEF Highest
<1>2. CASE e # None /\ Beats(u, e)
  <2>1. Kept(e, u) = u /\ u # None /\ e \in us
    BY <1>2, NoneAssumption DEF Kept, Highest
  <2>2. ASSUME NEW v \in us
        PROVE  v = u \/ Beats(u, v)
    <3>1. v = e \/ Beats(e, v)
      BY DEF Highest
    <3> QED
      BY <3>1, <2>1, <1>2, BeatsTransitive
  <2> QED
    BY <2>1, <2>2 DEF Highest
<1>3. CASE e # None /\ ~Beats(u, e)
  <2>1. Kept(e, u) = e /\ e \in us
    BY <1>3 DEF Kept, Highest
  <2>2. e = u \/ Beats(e, u)
    BY <2>1, <1>3
  <2> QED
    BY <2>1, <2>2, <1>3 DEF Highest
<1> QED
  BY <1>1, <1>2, <1>3

\* A batch vs that stands for the updates ws leaves the highest of all.
LEMMA LeavesHighest ==
    ASSUME NEW us \in SUBSET Update, NEW vs \in SUBSET Update, NEW ws \in SUBSET Update,
           NEW old, NEW e, Highest(old, us), Leaves(e, old, vs), vs \subseteq ws,
           \A w \in ws : \E v \in vs : v = w \/ Beats(v, w)
    PROVE  Highest(e, us \cup ws)
<1> DEFINE all == vs \cup ({old} \ {None})
<1>1. Highest(e, all)
  BY DEF Leaves
<1>2. old = None \/ old \in us
  BY DEF Highest
<1>3. e \in us \cup ws \cup {None}
  BY <1>1, <1>2 DEF Highest
<1>4. all \subseteq Update
  BY <1>2
<1>5. ASSUME NEW u \in us \cup ws
      PROVE  \E v \in all : v = u \/ Beats(v, u)
  <2>1. CASE u \in us
    <3>1. u = old \/ (old # None /\ Beats(old, u))
      BY <2>1 DEF Highest
    <3>2. old # None
      BY <3>1, <2>1, NoneAssumption
    <3> QED
      BY <3>1, <3>2
  <2>2. CASE u \in ws
    BY <2>2
  <2> QED
    BY <2>1, <2>2
<1>6. ASSUME NEW u \in us \cup ws
      PROVE  u = e \/ (e # None /\ Beats(e, u))
  <2>1. PICK v \in all : v = u \/ Beats(v, u)
    BY <1>5
  <2>2. v = e \/ (e # None /\ Beats(e, v))
    BY <1>1 DEF Highest
  <2>3. e # None /\ e \in Update
    BY <2>2, <1>1, <1>4, NoneAssumption DEF Highest
  <2>4. v \in Update /\ u \in Update
    BY <1>4
  <2> QED
    BY <2>1, <2>2, <2>3, <2>4, BeatsTransitive
<1> QED
  BY <1>3, <1>6 DEF Highest

-----------------------------------------------------------------------------
(* The invariant holds, conjunct by conjunct.                              *)

\* A new update is one, with the clock and the version that follow.
LEMMA UpdateIsTyped ==
    ASSUME RegTypeOK, NEW r \in Replica, NEW f \in Ref, NEW v \in Content, NEW at \in Time
    PROVE  LET u == NewUpdate(r, f, v, at)
           IN u \in Update /\ u.replica = r /\ u.ref = f
              /\ u.lamport = lamport[r] + 1 /\ u.version = versions[r][f] + 1
BY RegistersAssumption DEF RegistersAssumption, RegTypeOK, Update, NewUpdate, NextVersion

\* Every step keeps the types.
LEMMA RegTypeStep ==
    ASSUME RegTypeOK, SeenWasSent, [RegNext]_regVars
    PROVE  RegTypeOK'
<1> USE DEF RegTypeOK
<1>1. ASSUME NEW r \in Replica, NEW us \in SUBSET Update, TakeIn(r, us)
      PROVE  entry' \in [Replica -> Registered]
  BY <1>1 DEF TakeIn, Registered
<1>2. ASSUME NEW w \in wires
      PROVE  /\ Carried(w) \in SUBSET Update
             /\ w.from \in Replica /\ w.lamport \in Nat /\ w.entry \in Registered
             /\ w.seen \in SUBSET Update
  BY DEF Carried, Registered
<1>3. ASSUME NEW r \in Replica, Create(r)
      PROVE  RegTypeOK'
  BY <1>3 DEF Create, clocks
<1>4. ASSUME NEW r \in Replica, Attach(r)
      PROVE  RegTypeOK'
  BY <1>4 DEF Attach, clocks, history
<1>5. ASSUME NEW r \in Replica, Detach(r)
      PROVE  RegTypeOK'
  BY <1>5 DEF Detach, clocks
<1>6. ASSUME NEW r \in Replica, ToWire(r)
      PROVE  RegTypeOK'
  BY <1>6 DEF ToWire, links, clocks, history
<1>7. ASSUME NEW r \in Replica, NEW f \in Ref, NEW v \in Content, NEW at \in Time,
             Mutate(r, f, v, at)
      PROVE  RegTypeOK'
  <2> DEFINE u == NewUpdate(r, f, v, at)
  <2>1. u \in Update /\ u.lamport = lamport[r] + 1 /\ u.version = versions[r][f] + 1
    BY UpdateIsTyped
  <2>2. /\ sent' = sent \cup {u}
        /\ versions' = [versions EXCEPT ![r][f] = u.version]
        /\ lamport' = [s \in Replica |->
                         IF s = r THEN u.lamport
                         ELSE IF s \in Audience(r) THEN After(lamport[s], u.lamport)
                         ELSE lamport[s]]
        /\ entry' = [s \in Replica |->
                       IF s \in Audience(r) \cup {r}
                       THEN [g \in Ref |-> IF g = f THEN Kept(entry[s][g], u) ELSE entry[s][g]]
                       ELSE entry[s]]
        /\ seen' = [s \in Replica |->
                      IF s \in Audience(r) \cup {r} THEN seen[s] \cup {u} ELSE seen[s]]
        /\ UNCHANGED <<links, wires, folded, inSync>>
    BY <1>7 DEF Mutate
  <2> HIDE DEF u
  <2>3. entry' \in [Replica -> Registered]
    BY <2>1, <2>2 DEF Registered, Kept
  <2>4. lamport' \in [Replica -> Nat]
    BY <2>1, <2>2 DEF After, Higher
  <2>5. versions' \in [Replica -> [Ref -> Nat]]
    BY <2>1, <2>2
  <2> QED
    BY <2>1, <2>2, <2>3, <2>4, <2>5 DEF links
<1>8. ASSUME NEW r \in Replica, NEW u \in sent, ApplyRemote(r, u)
      PROVE  RegTypeOK'
  <2>1. u \in Update /\ u.lamport \in Nat /\ u.ref \in Ref
    BY FieldTypes
  <2>2. entry' \in [Replica -> Registered]
    BY <1>8, <2>1 DEF ApplyRemote, Registered, Kept
  <2>3. lamport' \in [Replica -> Nat]
    BY <1>8, <2>1 DEF ApplyRemote, After, Higher
  <2> QED
    BY <1>8, <2>1, <2>2, <2>3 DEF ApplyRemote, links
<1>9. ASSUME NEW r \in Replica, NEW us \in SUBSET sent, ApplyBatch(r, us)
      PROVE  RegTypeOK'
  BY <1>9, <1>1 DEF ApplyBatch, links, clocks
<1>10. ASSUME NEW r \in Replica, NEW w \in wires, Merge(r, w)
      PROVE  RegTypeOK'
  BY <1>10, <1>1, <1>2 DEF Merge, links, clocks
<1>11. ASSUME NEW r \in Replica, NEW w \in wires, FromWire(r, w)
      PROVE  RegTypeOK'
  <2>1. lamport' \in [Replica -> Nat]
    BY <1>11, <1>2 DEF FromWire, ClockOf, Higher
  <2> QED
    BY <1>11, <1>1, <1>2, <2>1 DEF FromWire
<1>12. CASE UNCHANGED regVars
  BY <1>12 DEF regVars, links, clocks, history
<1> QED
  BY <1>3, <1>4, <1>5, <1>6, <1>7, <1>8, <1>9, <1>10, <1>11, <1>12 DEF RegNext

\* What a snapshot carries of a register stands for all that was seen of it.
LEMMA CarriedStands ==
    ASSUME RegTypeOK, HoldsHighest, NEW w \in wires, NEW f \in Ref
    PROVE  /\ To(f, Carried(w)) \subseteq To(f, w.seen)
           /\ \A u \in To(f, w.seen) : \E v \in To(f, Carried(w)) : v = u \/ Beats(v, u)
           /\ To(f, Carried(w)) \in SUBSET Update /\ To(f, w.seen) \in SUBSET Update
<1>1. \A g \in Ref : Highest(w.entry[g], To(g, w.seen))
  BY DEF HoldsHighest
<1>2. w.seen \subseteq Update
  BY DEF RegTypeOK
<1>3. \A g \in Ref : w.entry[g] # None => w.entry[g] \in w.seen /\ w.entry[g].ref = g
  BY <1>1 DEF Highest, To
<1>4. To(f, Carried(w)) \subseteq To(f, w.seen)
  BY <1>3 DEF To, Carried
<1>5. ASSUME NEW u \in To(f, w.seen)
      PROVE  \E v \in To(f, Carried(w)) : v = u \/ Beats(v, u)
  <2>1. w.entry[f] = u \/ (w.entry[f] # None /\ Beats(w.entry[f], u))
    BY <1>1 DEF Highest
  <2>2. w.entry[f] # None
    BY <2>1, <1>2, NoneAssumption DEF To
  <2>3. w.entry[f] \in To(f, Carried(w))
    BY <2>2, <1>3 DEF To, Carried
  <2> QED
    BY <2>1, <2>3
<1> QED
  BY <1>2, <1>4, <1>5 DEF To

\* After a merge a register holds the highest of what both sides have seen.
LEMMA MergeIsHighest ==
    ASSUME RegInv, NEW r \in Replica, NEW w \in wires, TakeIn(r, Carried(w)), NEW f \in Ref
    PROVE  Highest(entry'[r][f], To(f, seen[r] \cup w.seen))
<1>1. Highest(entry[r][f], To(f, seen[r])) /\ To(f, seen[r]) \in SUBSET Update
  BY DEF RegInv, HoldsHighest, RegTypeOK, To
<1>2. Leaves(entry'[r][f], entry[r][f], To(f, Carried(w)))
  BY DEF TakeIn, RegInv, RegTypeOK, Registered
<1>3. Highest(entry'[r][f], To(f, seen[r]) \cup To(f, w.seen))
  BY <1>1, <1>2, CarriedStands, LeavesHighest DEF RegInv
<1>4. To(f, seen[r] \cup w.seen) = To(f, seen[r]) \cup To(f, w.seen)
  BY DEF To
<1> QED
  BY <1>3, <1>4

\* Every step leaves the highest update seen in each register.
LEMMA HighestStep ==
    ASSUME RegInv, [RegNext]_regVars
    PROVE  HoldsHighest'
<1> USE DEF HoldsHighest
<1>a. /\ \A r \in Replica, f \in Ref : Highest(entry[r][f], To(f, seen[r]))
      /\ \A w \in wires, f \in Ref : Highest(w.entry[f], To(f, w.seen))
  BY DEF RegInv
<1>b. ASSUME NEW r \in Replica, UNCHANGED wires,
             \A s \in Replica \ {r} : entry'[s] = entry[s] /\ seen'[s] = seen[s],
             \A f \in Ref : Highest(entry'[r][f], To(f, seen'[r]))
      PROVE  HoldsHighest'
  BY <1>a, <1>b
<1>c. entry \in [Replica -> Registered] /\ seen \in [Replica -> SUBSET Update] /\ sent \subseteq Update
  BY DEF RegInv, RegTypeOK
<1>1. ASSUME NEW r \in Replica, Create(r)
      PROVE  HoldsHighest'
  BY <1>1, <1>a DEF Create
<1>2. ASSUME NEW r \in Replica, Attach(r) \/ Detach(r)
      PROVE  HoldsHighest'
  BY <1>2, <1>a DEF Attach, Detach, history
<1>3. ASSUME NEW r \in Replica, ToWire(r)
      PROVE  HoldsHighest'
  BY <1>3, <1>a DEF ToWire, history
<1>4. ASSUME NEW r \in Replica, NEW f \in Ref, NEW v \in Content, NEW at \in Time,
             Mutate(r, f, v, at)
      PROVE  HoldsHighest'
  <2> DEFINE u == NewUpdate(r, f, v, at)
  <2>1. /\ u \in Update /\ u.replica = r /\ u.ref = f
        /\ u.lamport = lamport[r] + 1 /\ u.version = versions[r][f] + 1
    BY UpdateIsTyped DEF RegInv
  <2>2. /\ sent' = sent \cup {u}
        /\ versions' = [versions EXCEPT ![r][f] = u.version]
        /\ lamport' = [s \in Replica |->
                         IF s = r THEN u.lamport
                         ELSE IF s \in Audience(r) THEN After(lamport[s], u.lamport)
                         ELSE lamport[s]]
        /\ entry' = [s \in Replica |->
                       IF s \in Audience(r) \cup {r}
                       THEN [g \in Ref |-> IF g = f THEN Kept(entry[s][g], u) ELSE entry[s][g]]
                       ELSE entry[s]]
        /\ seen' = [s \in Replica |->
                      IF s \in Audience(r) \cup {r} THEN seen[s] \cup {u} ELSE seen[s]]
        /\ UNCHANGED <<links, wires, folded, inSync>> /\ r \in made
    BY <1>4 DEF Mutate
  <2> HIDE DEF u
  <2>3. ASSUME NEW s \in Replica, NEW x \in To(f, seen[s])
        PROVE  Beats(u, x) \/ Beats(x, u)
    <3>1. x \in sent /\ x.ref = f
      BY DEF RegInv, SeenWasSent, To
    <3>2. x.replica = r => x.version <= versions[r][f]
      BY <3>1 DEF RegInv, VersionsAreUnique
    <3>3. x.version \in Nat /\ versions[r][f] \in Nat
      BY <3>1, <1>c, FieldTypes DEF RegInv, RegTypeOK
    <3>4. u.replica # x.replica \/ u.version # x.version
      BY <2>1, <3>2, <3>3
    <3> QED
      BY <2>1, <3>1, <3>4, <1>c, BeatsTotal
  <2>4. ASSUME NEW s \in Replica, NEW g \in Ref
        PROVE  Highest(entry'[s][g], To(g, seen'[s]))
    <3>1. CASE s \in Audience(r) \cup {r} /\ g = f
      <4>1. To(f, seen[s]) \in SUBSET Update
        BY <1>c DEF To
      <4>2. Highest(Kept(entry[s][f], u), To(f, seen[s]) \cup {u})
        BY <1>a, <2>1, <2>3, <4>1, KeptIsHighest
      <4>3. To(f, seen[s] \cup {u}) = To(f, seen[s]) \cup {u}
        BY <2>1 DEF To
      <4> QED
        BY <2>2, <3>1, <4>2, <4>3
    <3>2. CASE s \in Audience(r) \cup {r} /\ g # f
      <4>1. To(g, seen[s] \cup {u}) = To(g, seen[s])
        BY <2>1, <3>2 DEF To
      <4> QED
        BY <1>a, <2>2, <3>2, <4>1
    <3>3. CASE s \notin Audience(r) \cup {r}
      BY <1>a, <2>2, <3>3
    <3> QED
      BY <3>1, <3>2, <3>3
  <2> QED
    BY <1>a, <2>2, <2>4
<1>5. ASSUME NEW r \in Replica, NEW u \in sent, ApplyRemote(r, u)
      PROVE  HoldsHighest'
  <2>1. u \in Update /\ u.ref \in Ref
    BY <1>c, FieldTypes
  <2>2. /\ entry' = [entry EXCEPT ![r][u.ref] = Kept(@, u)]
        /\ seen' = [seen EXCEPT ![r] = @ \cup {u}]
        /\ UNCHANGED wires
    BY <1>5 DEF ApplyRemote
  <2>3. ASSUME NEW x \in To(u.ref, seen[r])
        PROVE  x = u \/ Beats(u, x) \/ Beats(x, u)
    <3>1. x \in sent /\ x.ref = u.ref
      BY DEF RegInv, SeenWasSent, To
    <3> QED
      BY <3>1, <1>c, Comparable DEF RegInv
  <2>4. Highest(Kept(entry[r][u.ref], u), To(u.ref, seen[r]) \cup {u})
    BY <1>a, <1>c, <2>1, <2>3, KeptIsHighest DEF To
  <2>5. ASSUME NEW g \in Ref
        PROVE  Highest(entry'[r][g], To(g, seen'[r]))
    <3>1. CASE g = u.ref
      <4>1. To(g, seen[r] \cup {u}) = To(g, seen[r]) \cup {u}
        BY <3>1 DEF To
      <4>2. entry'[r][g] = Kept(entry[r][g], u)
        BY <1>c, <2>2, <3>1 DEF Registered
      <4> QED
        BY <1>c, <2>2, <2>4, <3>1, <4>1, <4>2
    <3>2. CASE g # u.ref
      <4>1. To(g, seen[r] \cup {u}) = To(g, seen[r])
        BY <3>2 DEF To
      <4>2. entry'[r][g] = entry[r][g]
        BY <1>c, <2>2, <3>2 DEF Registered
      <4> QED
        BY <1>a, <1>c, <2>2, <4>1, <4>2
    <3> QED
      BY <3>1, <3>2
  <2> QED
    BY <1>b, <1>c, <2>2, <2>5
<1>6. ASSUME NEW r \in Replica, NEW us \in SUBSET sent, ApplyBatch(r, us)
      PROVE  HoldsHighest'
  <2>1. /\ TakeIn(r, us) /\ UNCHANGED wires
        /\ seen' = [seen EXCEPT ![r] = @ \cup us]
    BY <1>6 DEF ApplyBatch
  <2>2. ASSUME NEW f \in Ref
        PROVE  Highest(entry'[r][f], To(f, seen'[r]))
    <3>1. To(f, us) \in SUBSET Update /\ To(f, seen[r]) \in SUBSET Update
      BY <1>c DEF To
    <3>2. Leaves(entry'[r][f], entry[r][f], To(f, us))
      BY <1>c, <2>1 DEF TakeIn
    <3>3. Highest(entry'[r][f], To(f, seen[r]) \cup To(f, us))
      BY <1>a, <3>1, <3>2, LeavesHighest
    <3>4. To(f, seen[r] \cup us) = To(f, seen[r]) \cup To(f, us)
      BY DEF To
    <3>5. seen'[r] = seen[r] \cup us
      BY <1>c, <2>1
    <3> QED
      BY <3>3, <3>4, <3>5
  <2> QED
    BY <1>b, <1>c, <2>1, <2>2 DEF TakeIn
<1>7. ASSUME NEW r \in Replica, NEW w \in wires, Merge(r, w)
      PROVE  HoldsHighest'
  <2>1. /\ TakeIn(r, Carried(w)) /\ UNCHANGED wires
        /\ seen' = [seen EXCEPT ![r] = @ \cup w.seen]
    BY <1>7 DEF Merge
  <2>2. \A f \in Ref : Highest(entry'[r][f], To(f, seen'[r]))
    BY <1>c, <2>1, MergeIsHighest
  <2> QED
    BY <1>b, <1>c, <2>1, <2>2 DEF TakeIn
<1>8. ASSUME NEW r \in Replica, NEW w \in wires, FromWire(r, w)
      PROVE  HoldsHighest'
  <2>1. /\ TakeIn(r, Carried(w)) /\ UNCHANGED wires /\ r \notin made
        /\ seen' = [seen EXCEPT ![r] = w.seen]
    BY <1>8 DEF FromWire
  <2>2. seen'[r] = seen[r] \cup w.seen
    BY <1>c, <2>1 DEF RegInv, SeenWasSent
  <2>3. \A f \in Ref : Highest(entry'[r][f], To(f, seen'[r]))
    BY <2>1, <2>2, MergeIsHighest
  <2> QED
    BY <1>b, <1>c, <2>1, <2>3 DEF TakeIn
<1>9. CASE UNCHANGED regVars
  BY <1>9, <1>a DEF regVars, history
<1> QED
  BY <1>1, <1>2, <1>3, <1>4, <1>5, <1>6, <1>7, <1>8, <1>9 DEF RegNext

\* Nothing is seen that was not sent.
LEMMA SeenStep ==
    ASSUME RegInv, [RegNext]_regVars
    PROVE  SeenWasSent'
<1> USE DEF SeenWasSent
<1>a. /\ \A r \in Replica : seen[r] \subseteq sent
      /\ \A w \in wires : w.seen \subseteq sent
      /\ \A r \in Replica \ made : seen[r] = {}
      /\ seen \in [Replica -> SUBSET Update] /\ attached \subseteq made /\ made \subseteq Replica
  BY DEF RegInv, RegTypeOK
<1>1. ASSUME NEW r \in Replica, Create(r) \/ Attach(r) \/ Detach(r) \/ ToWire(r)
      PROVE  SeenWasSent'
  BY <1>1, <1>a DEF Create, Attach, Detach, ToWire, history, links
<1>2. ASSUME NEW r \in Replica, NEW f \in Ref, NEW v \in Content, NEW at \in Time,
             Mutate(r, f, v, at)
      PROVE  SeenWasSent'
  <2> DEFINE u == NewUpdate(r, f, v, at)
  <2>1. /\ u \in Update /\ u.replica = r /\ u.ref = f
        /\ u.lamport = lamport[r] + 1 /\ u.version = versions[r][f] + 1
    BY UpdateIsTyped DEF RegInv
  <2>2. /\ sent' = sent \cup {u}
        /\ versions' = [versions EXCEPT ![r][f] = u.version]
        /\ lamport' = [s \in Replica |->
                         IF s = r THEN u.lamport
                         ELSE IF s \in Audience(r) THEN After(lamport[s], u.lamport)
                         ELSE lamport[s]]
        /\ entry' = [s \in Replica |->
                       IF s \in Audience(r) \cup {r}
                       THEN [g \in Ref |-> IF g = f THEN Kept(entry[s][g], u) ELSE entry[s][g]]
                       ELSE entry[s]]
        /\ seen' = [s \in Replica |->
                      IF s \in Audience(r) \cup {r} THEN seen[s] \cup {u} ELSE seen[s]]
        /\ UNCHANGED <<links, wires, folded, inSync>> /\ r \in made
    BY <1>2 DEF Mutate
  <2> HIDE DEF u
  <2>3. Audience(r) \subseteq made
    BY <1>a DEF Audience
  <2>4. \A s \in Replica : seen'[s] \subseteq sent'
    BY <1>a, <2>2
  <2>5. \A s \in Replica \ made' : seen'[s] = {}
    BY <1>a, <2>2, <2>3 DEF links
  <2> QED
    BY <1>a, <2>2, <2>4, <2>5 DEF links
<1>3. ASSUME NEW r \in Replica, NEW u \in sent, ApplyRemote(r, u)
      PROVE  SeenWasSent'
  BY <1>3, <1>a DEF ApplyRemote, links
<1>4. ASSUME NEW r \in Replica, NEW us \in SUBSET sent, ApplyBatch(r, us)
      PROVE  SeenWasSent'
  BY <1>4, <1>a DEF ApplyBatch, links
<1>5. ASSUME NEW r \in Replica, NEW w \in wires, Merge(r, w) \/ FromWire(r, w)
      PROVE  SeenWasSent'
  BY <1>5, <1>a DEF Merge, FromWire, links
<1>6. CASE UNCHANGED regVars
  BY <1>6, <1>a DEF regVars, history, links
<1> QED
  BY <1>1, <1>2, <1>3, <1>4, <1>5, <1>6 DEF RegNext

\* No replica gives a version of a register twice.
LEMMA VersionsStep ==
    ASSUME RegInv, [RegNext]_regVars
    PROVE  VersionsAreUnique'
<1> USE DEF VersionsAreUnique
<1>a. /\ \A u \in sent : u.version <= versions[u.replica][u.ref]
      /\ \A u, v \in sent :
            u.replica = v.replica /\ u.ref = v.ref /\ u.version = v.version => u = v
      /\ versions \in [Replica -> [Ref -> Nat]] /\ sent \subseteq Update
  BY DEF RegInv, RegTypeOK
<1>1. ASSUME NEW r \in Replica, NEW f \in Ref, NEW v \in Content, NEW at \in Time,
             Mutate(r, f, v, at)
      PROVE  VersionsAreUnique'
  <2> DEFINE u == NewUpdate(r, f, v, at)
  <2>1. /\ u \in Update /\ u.replica = r /\ u.ref = f
        /\ u.lamport = lamport[r] + 1 /\ u.version = versions[r][f] + 1
    BY UpdateIsTyped DEF RegInv
  <2>2. /\ sent' = sent \cup {u}
        /\ versions' = [versions EXCEPT ![r][f] = u.version]
        /\ lamport' = [s \in Replica |->
                         IF s = r THEN u.lamport
                         ELSE IF s \in Audience(r) THEN After(lamport[s], u.lamport)
                         ELSE lamport[s]]
        /\ entry' = [s \in Replica |->
                       IF s \in Audience(r) \cup {r}
                       THEN [g \in Ref |-> IF g = f THEN Kept(entry[s][g], u) ELSE entry[s][g]]
                       ELSE entry[s]]
        /\ seen' = [s \in Replica |->
                      IF s \in Audience(r) \cup {r} THEN seen[s] \cup {u} ELSE seen[s]]
        /\ UNCHANGED <<links, wires, folded, inSync>> /\ r \in made
    BY <1>1 DEF Mutate
  <2> HIDE DEF u
  <2>3. ASSUME NEW x \in sent
        PROVE  /\ x.version <= versions'[x.replica][x.ref]
               /\ x.replica = r /\ x.ref = f => x.version < u.version
    <3>1. x.replica \in Replica /\ x.ref \in Ref /\ x.version \in Nat
      BY <1>a, FieldTypes
    <3>2. CASE x.replica = r /\ x.ref = f
      BY <1>a, <2>1, <2>2, <3>1, <3>2
    <3>3. CASE x.replica # r \/ x.ref # f
      BY <1>a, <2>2, <3>1, <3>3
    <3> QED
      BY <3>2, <3>3
  <2>4. u.version <= versions'[u.replica][u.ref]
    BY <1>a, <2>1, <2>2
  <2>5. u.version \in Nat /\ \A x \in sent : x.version \in Nat
    BY <1>a, <2>1, FieldTypes
  <2>6. ASSUME NEW x \in sent', NEW y \in sent',
               x.replica = y.replica, x.ref = y.ref, x.version = y.version
        PROVE  x = y
    <3>1. CASE x \in sent /\ y \in sent
      BY <1>a, <2>6, <3>1
    <3>2. CASE x = u /\ y \in sent
      BY <2>1, <2>3, <2>5, <2>6, <3>2
    <3>3. CASE x \in sent /\ y = u
      BY <2>1, <2>3, <2>5, <2>6, <3>3
    <3> QED
      BY <2>2, <3>1, <3>2, <3>3
  <2> QED
    BY <2>2, <2>3, <2>4, <2>6
<1>2. CASE UNCHANGED <<sent, versions>>
  BY <1>2, <1>a
<1> QED
  BY <1>1, <1>2 DEF RegNext, regVars, clocks, Create, Attach, Detach, ToWire, ApplyRemote,
                    ApplyBatch, Merge, FromWire

\* Where nothing was folded in, the clock stays ahead of the registers.
LEMMA ClocksStep ==
    ASSUME RegInv, [RegNext]_regVars
    PROVE  ClocksLead'
<1> USE DEF ClocksLead, Leads
<1>a. /\ \A r \in Replica \ folded : Leads(lamport[r], entry[r])
      /\ \A w \in wires : w.from \notin folded => Leads(w.lamport, w.entry)
      /\ entry \in [Replica -> Registered] /\ lamport \in [Replica -> Nat]
      /\ sent \subseteq Update
  BY DEF RegInv, RegTypeOK
<1>b. ASSUME NEW r \in Replica, NEW f \in Ref, entry[r][f] # None
      PROVE  entry[r][f].lamport \in Nat
  BY <1>a, <1>b, FieldTypes DEF Registered
<1>1. ASSUME NEW r \in Replica, Create(r) \/ Attach(r) \/ Detach(r)
      PROVE  ClocksLead'
  BY <1>1, <1>a DEF Create, Attach, Detach, clocks, history
<1>2. ASSUME NEW r \in Replica, ToWire(r)
      PROVE  ClocksLead'
  BY <1>2, <1>a DEF ToWire, clocks, history
<1>3. ASSUME NEW r \in Replica, NEW f \in Ref, NEW v \in Content, NEW at \in Time,
             Mutate(r, f, v, at)
      PROVE  ClocksLead'
  <2> DEFINE u == NewUpdate(r, f, v, at)
  <2>1. /\ u \in Update /\ u.replica = r /\ u.ref = f
        /\ u.lamport = lamport[r] + 1 /\ u.version = versions[r][f] + 1
    BY UpdateIsTyped DEF RegInv
  <2>2. /\ sent' = sent \cup {u}
        /\ versions' = [versions EXCEPT ![r][f] = u.version]
        /\ lamport' = [s \in Replica |->
                         IF s = r THEN u.lamport
                         ELSE IF s \in Audience(r) THEN After(lamport[s], u.lamport)
                         ELSE lamport[s]]
        /\ entry' = [s \in Replica |->
                       IF s \in Audience(r) \cup {r}
                       THEN [g \in Ref |-> IF g = f THEN Kept(entry[s][g], u) ELSE entry[s][g]]
                       ELSE entry[s]]
        /\ seen' = [s \in Replica |->
                      IF s \in Audience(r) \cup {r} THEN seen[s] \cup {u} ELSE seen[s]]
        /\ UNCHANGED <<links, wires, folded, inSync>> /\ r \in made
    BY <1>3 DEF Mutate
  <2> HIDE DEF u
  <2>3. ASSUME NEW s \in Replica \ folded, NEW g \in Ref, entry'[s][g] # None
        PROVE  entry'[s][g].lamport <= lamport'[s]
    <3>1. lamport'[s] \in Nat /\ lamport[s] <= lamport'[s] /\ u.lamport \in Nat
      BY <1>a, <2>1, <2>2 DEF After, Higher
    <3>2. entry'[s][g] = entry[s][g] \/ (entry'[s][g] = u /\ s \in Audience(r) \cup {r})
      BY <2>2 DEF Kept
    <3>3. CASE entry'[s][g] = entry[s][g]
      <4>1. entry[s][g].lamport <= lamport[s] /\ entry[s][g].lamport \in Nat
        BY <1>a, <1>b, <2>3, <3>3
      <4> QED
        BY <1>a, <3>1, <3>3, <4>1
    <3>4. CASE entry'[s][g] = u /\ s \in Audience(r) \cup {r}
      <4>1. lamport'[s] = u.lamport \/ lamport'[s] = After(lamport[s], u.lamport)
        BY <2>2, <3>4
      <4> QED
        BY <1>a, <3>1, <3>4, <4>1 DEF After, Higher
    <3> QED
      BY <3>2, <3>3, <3>4
  <2> QED
    BY <1>a, <2>2, <2>3
<1>4. ASSUME NEW r \in Replica, NEW u \in sent, ApplyRemote(r, u)
      PROVE  ClocksLead'
  <2>1. /\ u.lamport \in Nat /\ u.ref \in Ref
        /\ lamport' = [lamport EXCEPT ![r] = After(@, u.lamport)]
        /\ entry' = [entry EXCEPT ![r][u.ref] = Kept(@, u)]
        /\ UNCHANGED <<folded, wires>>
    BY <1>4, <1>a, FieldTypes DEF ApplyRemote
  <2>2. ASSUME NEW s \in Replica \ folded, NEW g \in Ref, entry'[s][g] # None
        PROVE  entry'[s][g].lamport <= lamport'[s]
    <3>1. /\ lamport'[s] \in Nat /\ lamport[s] <= lamport'[s]
          /\ s = r => u.lamport <= lamport'[s]
      BY <1>a, <2>1 DEF After, Higher
    <3>2. entry'[s][g] = entry[s][g] \/ (entry'[s][g] = u /\ s = r)
      BY <1>a, <2>1 DEF Kept, Registered
    <3>3. entry[s][g] # None => /\ entry[s][g].lamport <= lamport[s]
                               /\ entry[s][g].lamport \in Nat
      BY <1>a, <1>b
    <3> QED
      BY <1>a, <2>2, <3>1, <3>2, <3>3
  <2> QED
    BY <1>a, <2>1, <2>2
<1>5. ASSUME NEW r \in Replica, NEW us \in SUBSET sent, ApplyBatch(r, us)
      PROVE  ClocksLead'
  BY <1>5, <1>a DEF ApplyBatch, TakeIn, clocks
<1>6. ASSUME NEW r \in Replica, NEW w \in wires, Merge(r, w)
      PROVE  ClocksLead'
  BY <1>6, <1>a DEF Merge, TakeIn, clocks
<1>7. ASSUME NEW r \in Replica, NEW w \in wires, FromWire(r, w)
      PROVE  ClocksLead'
  <2>1. /\ lamport' = [lamport EXCEPT ![r] = Higher(@, w.lamport)]
        /\ TakeIn(r, Carried(w)) /\ UNCHANGED wires
        /\ folded' = IF w.from \in folded THEN folded \cup {r} ELSE folded
        /\ r \notin made
    BY <1>7 DEF FromWire, ClockOf
  <2>2. w.lamport \in Nat /\ w.entry \in Registered
    BY DEF RegInv, RegTypeOK
  <2>3. ASSUME NEW s \in Replica \ folded', NEW g \in Ref, entry'[s][g] # None
        PROVE  entry'[s][g].lamport <= lamport'[s]
    <3>1. CASE s # r
      BY <1>a, <2>1, <2>3, <3>1 DEF TakeIn
    <3>2. CASE s = r
      <4>1. seen[r] = {}
        BY <2>1 DEF RegInv, SeenWasSent
      <4>2. entry[r][g] = None
        BY <4>1 DEF RegInv, HoldsHighest, Highest, To
      <4>3. entry'[r][g] \in To(g, Carried(w)) \cup {None}
        BY <1>a, <2>1, <4>2 DEF TakeIn, Leaves, Highest
      <4>4. PICK h \in Ref : entry'[r][g] = w.entry[h] /\ w.entry[h] # None
        BY <4>3, <2>3, <3>2 DEF To, Carried
      <4>5. w.entry[h].lamport <= w.lamport /\ w.entry[h].lamport \in Nat
        BY <1>a, <2>1, <2>2, <2>3, <3>2, <4>4, FieldTypes DEF Registered
      <4> QED
        BY <1>a, <2>1, <2>2, <3>2, <4>4, <4>5 DEF Higher
    <3> QED
      BY <3>1, <3>2
  <2> QED
    BY <1>a, <2>1, <2>3
<1>8. CASE UNCHANGED regVars
  BY <1>8, <1>a DEF regVars, clocks, history
<1> QED
  BY <1>1, <1>2, <1>3, <1>4, <1>5, <1>6, <1>7, <1>8 DEF RegNext

\* Every step keeps the live replicas alike.
LEMMA SyncStep ==
    ASSUME RegInv, [RegNext]_regVars
    PROVE  SyncIsKept'
<1> USE DEF SyncIsKept
<1>a. /\ inSync \subseteq onBus \cap attached \cap made
      /\ inSync \cap folded = {} /\ folded \subseteq made
      /\ \A r, s \in inSync : seen[r] = seen[s]
      /\ \A r \in Replica : seen[r] \subseteq sent
      /\ \A r \in Replica \ made : seen[r] = {}
      /\ seen \in [Replica -> SUBSET Update] /\ inSync \subseteq Replica
  BY DEF RegInv, RegTypeOK, SeenWasSent
<1>1. ASSUME NEW r \in Replica, Create(r)
      PROVE  SyncIsKept'
  <2>1. folded \subseteq made
    BY DEF RegInv, SyncIsKept
  <2>2. sent = {} => \A s \in Replica : seen[s] = {}
    BY <1>a
  <2>3. inSync' \subseteq onBus' \cap attached' \cap made'
    BY <1>1, <1>a DEF Create
  <2>4. inSync' \cap folded' = {} /\ folded' \subseteq made'
    BY <1>1, <1>a, <2>1 DEF Create
  <2>5. \A s, t \in inSync' : seen'[s] = seen'[t]
    BY <1>1, <1>a, <2>2 DEF Create
  <2> QED
    BY <2>3, <2>4, <2>5
<1>2. ASSUME NEW r \in Replica, Attach(r) \/ Detach(r) \/ ToWire(r)
      PROVE  SyncIsKept'
  BY <1>2, <1>a DEF Attach, Detach, ToWire, history, links
<1>3. ASSUME NEW r \in Replica, NEW f \in Ref, NEW v \in Content, NEW at \in Time,
             Mutate(r, f, v, at)
      PROVE  SyncIsKept'
  <2> DEFINE u == NewUpdate(r, f, v, at)
  <2>1. /\ u \in Update /\ u.replica = r /\ u.ref = f
        /\ u.lamport = lamport[r] + 1 /\ u.version = versions[r][f] + 1
    BY UpdateIsTyped DEF RegInv
  <2>2. /\ sent' = sent \cup {u}
        /\ versions' = [versions EXCEPT ![r][f] = u.version]
        /\ lamport' = [s \in Replica |->
                         IF s = r THEN u.lamport
                         ELSE IF s \in Audience(r) THEN After(lamport[s], u.lamport)
                         ELSE lamport[s]]
        /\ entry' = [s \in Replica |->
                       IF s \in Audience(r) \cup {r}
                       THEN [g \in Ref |-> IF g = f THEN Kept(entry[s][g], u) ELSE entry[s][g]]
                       ELSE entry[s]]
        /\ seen' = [s \in Replica |->
                      IF s \in Audience(r) \cup {r} THEN seen[s] \cup {u} ELSE seen[s]]
        /\ UNCHANGED <<links, wires, folded, inSync>> /\ r \in made
    BY <1>3 DEF Mutate
  <2> HIDE DEF u
  <2>3. inSync \subseteq Audience(r) \cup {r} \/ inSync \cap (Audience(r) \cup {r}) = {}
    BY <1>a DEF Audience
  <2> QED
    BY <1>a, <2>2, <2>3 DEF links
<1>4. ASSUME NEW r \in Replica, NEW u \in sent, ApplyRemote(r, u)
      PROVE  SyncIsKept'
  BY <1>4, <1>a DEF ApplyRemote, links
<1>5. ASSUME NEW r \in Replica, NEW us \in SUBSET sent, ApplyBatch(r, us)
      PROVE  SyncIsKept'
  BY <1>5, <1>a DEF ApplyBatch, links
<1>6. ASSUME NEW r \in Replica, NEW w \in wires, Merge(r, w)
      PROVE  SyncIsKept'
  BY <1>6, <1>a DEF Merge, links
<1>7. ASSUME NEW r \in Replica, NEW w \in wires, FromWire(r, w)
      PROVE  SyncIsKept'
  BY <1>7, <1>a DEF FromWire
<1>8. CASE UNCHANGED regVars
  BY <1>8, <1>a DEF regVars, history, links
<1> QED
  BY <1>1, <1>2, <1>3, <1>4, <1>5, <1>6, <1>7, <1>8 DEF RegNext

-----------------------------------------------------------------------------
(* What follows.                                                           *)

\* The conjuncts together are an invariant.
THEOREM RegistersCorrect == RegSpec => []RegInv
<1>1. RegInit => RegInv
  BY DEF RegInit, RegInv, RegTypeOK, Registered, HoldsHighest, Highest, To, SeenWasSent,
         VersionsAreUnique, ClocksLead, Leads, SyncIsKept
<1>2. RegInv /\ [RegNext]_regVars => RegInv'
  BY RegTypeStep, HighestStep, SeenStep, VersionsStep, ClocksStep, SyncStep DEF RegInv
<1> QED
  BY <1>1, <1>2, PTL DEF RegSpec

\* Every variable keeps its type.
THEOREM RegTypeCorrect == RegSpec => []RegTypeOK
<1>1. RegInv => RegTypeOK
  BY DEF RegInv
<1> QED
  BY <1>1, RegistersCorrect, PTL

\* What was seen determines the state.
LEMMA SeenDetermines == RegTypeOK /\ HoldsHighest => Converges
<1> SUFFICES ASSUME RegTypeOK, HoldsHighest, NEW r \in Replica, NEW s \in Replica, seen[r] = seen[s]
             PROVE  entry[r] = entry[s]
  BY DEF Converges
<1>1. ASSUME NEW f \in Ref
      PROVE  entry[r][f] = entry[s][f]
  <2>1. To(f, seen[r]) \in SUBSET Update
    BY DEF RegTypeOK, To
  <2>2. Highest(entry[r][f], To(f, seen[r])) /\ Highest(entry[s][f], To(f, seen[r]))
    BY DEF HoldsHighest
  <2> QED
    BY <2>1, <2>2, HighestUnique
<1>2. entry[r] \in Registered /\ entry[s] \in Registered
  BY DEF RegTypeOK
<1> QED
  BY <1>1, <1>2 DEF Registered

\* Replicas that saw the same updates are in the same state.
THEOREM Convergence == RegSpec => []Converges
<1>1. RegInv => Converges
  BY SeenDetermines DEF RegInv
<1> QED
  BY <1>1, RegistersCorrect, PTL

\* Only mutate makes updates, and its own replica keeps them if its clock leads.
LEMMA OwnWriteIsKept ==
    ASSUME RegInv, [RegNext]_regVars, NEW u \in sent' \ sent, u.replica \notin folded
    PROVE  entry'[u.replica][u.ref] = u
<1>1. PICK r \in Replica, f \in Ref, v \in Content, at \in Time : Mutate(r, f, v, at)
  BY DEF RegNext, regVars, Create, Attach, Detach, ToWire, ApplyRemote, ApplyBatch, Merge, FromWire
<1> DEFINE n == NewUpdate(r, f, v, at)
<1>2. /\ n \in Update /\ n.replica = r /\ n.ref = f
      /\ n.lamport = lamport[r] + 1 /\ n.version = versions[r][f] + 1
  BY UpdateIsTyped DEF RegInv
<1>3. /\ sent' = sent \cup {n}
      /\ entry' = [s \in Replica |->
                     IF s \in Audience(r) \cup {r}
                     THEN [g \in Ref |-> IF g = f THEN Kept(entry[s][g], n) ELSE entry[s][g]]
                     ELSE entry[s]]
  BY <1>1 DEF Mutate
<1>4. u = n
  BY <1>3
<1> HIDE DEF n
<1>5. entry[r][f] # None => entry[r][f].lamport \in Nat /\ entry[r][f].lamport <= lamport[r]
  BY <1>2, <1>4, FieldTypes DEF RegInv, ClocksLead, Leads, RegTypeOK, Registered
<1>6. lamport[r] \in Nat
  BY DEF RegInv, RegTypeOK
<1>7. entry[r][f] = None \/ Beats(n, entry[r][f])
  BY <1>2, <1>5, <1>6 DEF Beats
<1> QED
  BY <1>2, <1>3, <1>4, <1>7 DEF Kept

\* A replica that never folded never loses its own write.
THEOREM WritesCorrect == RegSpec => WritesTakeEffect
<1>1. RegInv /\ [RegNext]_regVars =>
         [\A u \in sent' \ sent : u.replica \notin folded => entry'[u.replica][u.ref] = u]_regVars
  BY OwnWriteIsKept
<1> QED
  BY <1>1, RegistersCorrect, PTL DEF RegSpec, WritesTakeEffect

\* Replicas that live on the bus have each write of one of them at once.
THEOREM LiveCorrect == RegSpec => LiveReplicasAgree
<1>1. ASSUME RegInv, [RegNext]_regVars, NEW u \in sent' \ sent, u.replica \in inSync, NEW s \in inSync
      PROVE  entry'[s] = entry'[u.replica] /\ entry'[s][u.ref] = u
  <2>1. entry'[u.replica][u.ref] = u
    BY <1>1, OwnWriteIsKept DEF RegInv, SyncIsKept
  <2>2. inSync' = inSync
    BY <1>1 DEF RegNext, regVars, history, Create, Attach, Detach, ToWire, Mutate, ApplyRemote,
                ApplyBatch, Merge, FromWire
  <2>3. RegTypeOK' /\ HoldsHighest' /\ SyncIsKept'
    BY <1>1, RegTypeStep, HighestStep, SyncStep DEF RegInv
  <2>4. Converges'
    BY <2>3, SeenDetermines, PTL
  <2>5. seen'[s] = seen'[u.replica] /\ s \in Replica /\ u.replica \in Replica
    BY <1>1, <2>2, <2>3 DEF SyncIsKept, RegTypeOK
  <2> QED
    BY <2>1, <2>4, <2>5 DEF Converges
<1>2. RegInv /\ [RegNext]_regVars =>
         [\A u \in sent' \ sent : u.replica \in inSync =>
             \A s \in inSync : entry'[s] = entry'[u.replica] /\ entry'[s][u.ref] = u]_regVars
  BY <1>1
<1> QED
  BY <1>2, RegistersCorrect, PTL DEF RegSpec, LiveReplicasAgree

-----------------------------------------------------------------------------
(***************************************************************************)
(* The event store.                                                        *)
(***************************************************************************)

USE StoreAssumption

USE DEF StoreAssumption

\* What the numbering of events rests on: the numbers in use are 1 to n, and a
\* number that an operation has prepared is at most the next.
NumberedTo(n) ==
    /\ {e.seq : e \in events} = 1 .. n
    /\ \A w \in Worker : draft[w].seq <= n + 1
Numbered == \E n \in 0 .. MaxEvents : NumberedTo(n)

\* MAX(sequence) is the number of the last event.
LEMMA LastNumber ==
    ASSUME TypeOK, NEW n \in 0 .. MaxEvents, {e.seq : e \in events} = 1 .. n
    PROVE  LastSeq = n
<1> DEFINE Last(m) == /\ m = 0 \/ \E e \in events : e.seq = m
                      /\ \A e \in events : e.seq <= m
<1>1. \A e \in events : e.seq \in 1 .. n
  OBVIOUS
<1>2. n > 0 => \E e \in events : e.seq = n
  <2> SUFFICES ASSUME n > 0 PROVE \E e \in events : e.seq = n
    OBVIOUS
  <2>1. n \in 1 .. n
    OBVIOUS
  <2> QED
    BY <2>1
<1>3. Last(n)
  BY <1>1, <1>2
<1>4. \A m \in 0 .. MaxEvents : Last(m) => m = n
  <2> SUFFICES ASSUME NEW m \in 0 .. MaxEvents, Last(m) PROVE m = n
    OBVIOUS
  <2>1. m > 0 => m \in 1 .. n
    BY <1>1
  <2>2. n > 0 => n <= m
    BY <1>2
  <2> QED
    BY <2>1, <2>2
<1> QED
  BY <1>3, <1>4 DEF LastSeq

\* Every step keeps the types.
LEMMA TypeStep == TypeOK /\ Numbered /\ [Next]_vars => TypeOK'
<1> SUFFICES ASSUME TypeOK, Numbered, [Next]_vars PROVE TypeOK'
  OBVIOUS
<1>n. LastSeq \in 0 .. MaxEvents
  BY LastNumber DEF Numbered, NumberedTo
<1> USE DEF TypeOK, row, agent, procs
<1>1. ASSUME NEW s \in Store, Open(s) PROVE TypeOK'
  BY <1>1 DEF Open, Requeue, Running, Counted
<1>2. ASSUME NEW s \in Store, Ends(s) PROVE TypeOK'
  BY <1>2 DEF Ends, Running, NoDraft, NoValues
<1>3. ASSUME NEW s \in Store, Reap(s) PROVE TypeOK'
  BY <1>3 DEF Reap, Requeue, Overdue, Running, Counted
<1>4. ASSUME NEW s \in Store, NEW t \in Task, Enqueue(s, t) PROVE TypeOK'
  BY <1>4 DEF Enqueue, Running
<1>5. ASSUME NEW w \in Worker, NEW t \in Task, Select(w, t) PROVE TypeOK'
  BY <1>5 DEF Select, NextToken, Running
<1>6. ASSUME NEW w \in Worker, Claim(w) PROVE TypeOK'
  <2>1. claim[w] \in [task : Task, token : Nat \ {0}, done : BOOLEAN]
    BY <1>6 DEF Claim
  <2>4. claim' \in [Worker -> {NoClaim} \cup [task : Task, token : Nat \ {0}, done : BOOLEAN]]
    <3>1. [claim[w] EXCEPT !.done = TRUE] \in [task : Task, token : Nat \ {0}, done : BOOLEAN]
      BY <2>1
    <3> QED
      BY <1>6, <3>1 DEF Claim
  <2>2. CASE Claimable(claim[w].task)
    <3>1. /\ status' \in [Task -> {"NONE", "PENDING", "RUNNING", "COMPLETED", "FAILED"}]
          /\ token' \in [Task -> Nat] /\ attempts' \in [Task -> Nat]
          /\ holder' \in [Task -> Worker \cup {Nobody}]
          /\ live' \subseteq Running'
      <4>1. /\ status' = [status EXCEPT ![claim[w].task] = "RUNNING"]
             /\ holder' = [holder EXCEPT ![claim[w].task] = w]
             /\ token' = [token EXCEPT ![claim[w].task] = claim[w].token]
             /\ live' = live \cup {claim[w].task}
             /\ attempts' = [attempts EXCEPT ![claim[w].task] = attempts[claim[w].task] + 1]
        BY <1>6, <2>2 DEF Claim
      <4> QED
        BY <2>1, <4>1 DEF Running
    <3> QED
      BY <1>6, <2>2, <2>4, <3>1 DEF Claim
  <2>3. CASE ~Claimable(claim[w].task)
    BY <1>6, <2>3, <2>4 DEF Claim, Running
  <2> QED
    BY <2>2, <2>3
<1>14. ASSUME NEW w \in Worker, HandOut(w) PROVE TypeOK'
  <2>1. claim[w] \in [task : Task, token : Nat \ {0}, done : BOOLEAN]
    BY <1>14 DEF HandOut, NoClaim
  <2> QED
    BY <1>14, <2>1 DEF HandOut, Running
<1>15. ASSUME NEW s \in Store, StartReaper(s) PROVE TypeOK'
  BY <1>15 DEF StartReaper, Running
<1>16. ASSUME NEW s \in Store, StopReaper(s) PROVE TypeOK'
  BY <1>16 DEF StopReaper, Running
<1>7. ASSUME NEW w \in Worker, Abandon(w) PROVE TypeOK'
  BY <1>7 DEF Abandon, Running, NoDraft, NoValues
<1>8. ASSUME NEW w \in Worker, PrepareAppend(w) PROVE TypeOK'
  <2>1. LastSeq + 1 \in 1 .. MaxEvents
    BY <1>8, <1>n DEF PrepareAppend
  <2> QED
    BY <1>8, <2>1 DEF PrepareAppend, Running, NoValues
<1>9. ASSUME NEW w \in Worker, NEW k \in Key, NEW v \in Value, PrepareSet(w, k, v)
      PROVE  TypeOK'
  <2>1. LastSeq + 1 \in 1 .. MaxEvents
    BY <1>9, <1>n DEF PrepareSet
  <2>2. state.version + 1 \in Nat /\ [state.values EXCEPT ![k] = v] \in [Key -> Value \cup {Unset}]
    OBVIOUS
  <2> QED
    BY <1>9, <2>1, <2>2 DEF PrepareSet, Running
<1>10. ASSUME NEW w \in Worker, Insert(w) PROVE TypeOK'
  <2>1. draft[w].seq \in 1 .. MaxEvents
    BY <1>10 DEF Insert
  <2> QED
    BY <1>10, <2>1 DEF Insert, Running, NoDraft, NoValues
<1>11. ASSUME NEW w \in Worker, NEW job \in jobs[w],
            NEW outcome \in {"COMPLETED", "FAILED"}, EndJob(w, job, outcome)
       PROVE  TypeOK'
  BY <1>11 DEF EndJob, Holds, End, Running
<1>12. ASSUME NEW t \in Task, RunsOut(t) PROVE TypeOK'
  BY <1>12 DEF RunsOut, Running
<1>13. CASE UNCHANGED vars
  BY <1>13 DEF vars, Running
<1> QED
  BY <1>1, <1>2, <1>3, <1>4, <1>5, <1>6, <1>7, <1>8, <1>9, <1>10, <1>11, <1>12, <1>13,
     <1>14, <1>15, <1>16
     DEF Next

\* A number that is free when it is used is the next one.
LEMMA InsertIsNext ==
    ASSUME TypeOK, NEW n \in 0 .. MaxEvents, NumberedTo(n), NEW w \in Worker, Insert(w)
    PROVE  draft[w].seq = n + 1 /\ n + 1 \in 0 .. MaxEvents
<1>1. draft[w].seq \in 1 .. MaxEvents /\ draft[w].seq <= n + 1
  BY DEF Insert, TypeOK, NumberedTo
<1>2. draft[w].seq \notin 1 .. n
  BY DEF Insert, KeysAreFree, NumberedTo
<1> QED
  BY <1>1, <1>2

\* Every step keeps the numbering.
LEMMA NumberedStep == TypeOK /\ Numbered /\ [Next]_vars => Numbered'
<1> SUFFICES ASSUME TypeOK, NEW n \in 0 .. MaxEvents, NumberedTo(n), [Next]_vars
             PROVE  Numbered'
  BY DEF Numbered
<1>0. ASSUME NumberedTo(n)' PROVE Numbered'
  BY <1>0 DEF Numbered
<1>a. ASSUME UNCHANGED events, \A w \in Worker : draft'[w] = draft[w] \/ draft'[w].seq <= n + 1
      PROVE  Numbered'
  BY <1>0, <1>a DEF NumberedTo
<1>n. LastSeq = n /\ n + 1 <= n + 1
  BY LastNumber DEF NumberedTo
<1>d. DOMAIN draft = Worker
  BY DEF TypeOK
<1> USE DEF row, agent, procs
<1>1. ASSUME NEW s \in Store, Open(s) PROVE Numbered'
  BY <1>a, <1>1 DEF Open
<1>2. ASSUME NEW s \in Store, Ends(s) PROVE Numbered'
  BY <1>a, <1>2 DEF Ends, NoDraft, TypeOK
<1>3. ASSUME NEW s \in Store, Reap(s) PROVE Numbered'
  BY <1>a, <1>3 DEF Reap
<1>4. ASSUME NEW s \in Store, NEW t \in Task, Enqueue(s, t) PROVE Numbered'
  BY <1>a, <1>4 DEF Enqueue
<1>5. ASSUME NEW w \in Worker, NEW t \in Task, Select(w, t) PROVE Numbered'
  BY <1>a, <1>5 DEF Select
<1>6. ASSUME NEW w \in Worker, Claim(w) PROVE Numbered'
  BY <1>a, <1>6 DEF Claim
<1>14. ASSUME NEW w \in Worker, HandOut(w) PROVE Numbered'
  BY <1>a, <1>14 DEF HandOut
<1>15. ASSUME NEW s \in Store, StartReaper(s) PROVE Numbered'
  BY <1>a, <1>15 DEF StartReaper
<1>16. ASSUME NEW s \in Store, StopReaper(s) PROVE Numbered'
  BY <1>a, <1>16 DEF StopReaper
<1>7. ASSUME NEW w \in Worker, Abandon(w) PROVE Numbered'
  BY <1>a, <1>7 DEF Abandon, NoDraft, TypeOK
<1>8. ASSUME NEW w \in Worker, PrepareAppend(w) PROVE Numbered'
  BY <1>a, <1>8, <1>n, <1>d DEF PrepareAppend
<1>9. ASSUME NEW w \in Worker, NEW k \in Key, NEW v \in Value, PrepareSet(w, k, v)
      PROVE  Numbered'
  BY <1>a, <1>9, <1>n, <1>d DEF PrepareSet
<1>10. ASSUME NEW w \in Worker, Insert(w) PROVE Numbered'
  <2>3. draft[w].seq = n + 1 /\ n + 1 \in 0 .. MaxEvents
    BY <1>10, InsertIsNext
  <2>4. {e.seq : e \in events'} = 1 .. (n + 1)
    <3> DEFINE new == [seq |-> draft[w].seq, version |-> draft[w].version,
                       key |-> draft[w].key, value |-> draft[w].value]
    <3>1. events' = events \cup {new} /\ new.seq = n + 1
      BY <1>10, <2>3 DEF Insert
    <3> HIDE DEF new
    <3>2. {e.seq : e \in events'} = {e.seq : e \in events} \cup {n + 1}
      BY <3>1
    <3>3. {e.seq : e \in events} = 1 .. n /\ n \in Nat
      BY DEF NumberedTo
    <3>4. (1 .. n) \cup {n + 1} = 1 .. (n + 1)
      BY <3>3
    <3> QED
      BY <3>2, <3>3, <3>4
  <2>5. \A v \in Worker : draft'[v].seq <= (n + 1) + 1
    BY <1>10 DEF Insert, NoDraft, TypeOK, NumberedTo
  <2> QED
    BY <2>3, <2>4, <2>5 DEF Numbered, NumberedTo
<1>11. ASSUME NEW w \in Worker, NEW job \in jobs[w],
            NEW outcome \in {"COMPLETED", "FAILED"}, EndJob(w, job, outcome)
       PROVE  Numbered'
  BY <1>a, <1>11 DEF EndJob
<1>12. ASSUME NEW t \in Task, RunsOut(t) PROVE Numbered'
  BY <1>a, <1>12 DEF RunsOut
<1>13. CASE UNCHANGED vars
  BY <1>a, <1>13 DEF vars
<1> QED
  BY <1>1, <1>2, <1>3, <1>4, <1>5, <1>6, <1>7, <1>8, <1>9, <1>10, <1>11, <1>12, <1>13,
     <1>14, <1>15, <1>16
     DEF Next

\* The store begins empty.
LEMMA InitTypes == Init => TypeOK /\ Numbered
<1> SUFFICES ASSUME Init PROVE TypeOK /\ NumberedTo(0)
  BY DEF Numbered
<1>1. overlapped \in BOOLEAN
  BY DEF Init
<1>2. draft \in [Worker -> {NoDraft}] /\ claim \in [Worker -> {NoClaim}]
  BY DEF Init
<1>3. TypeOK
  BY <1>1, <1>2 DEF Init, TypeOK, Running, NoValues
<1> QED
  BY <1>3 DEF Init, NumberedTo, NoDraft

\* Every variable has its type.
THEOREM TypeCorrect == Spec => []TypeOK
BY InitTypes, TypeStep, NumberedStep, PTL DEF Spec

\* Events are numbered throughout.
LEMMA NumberedCorrect == Spec => []Numbered
BY InitTypes, TypeStep, NumberedStep, PTL DEF Spec

-----------------------------------------------------------------------------
\* Each claim adds to the attempts what each end or recovery accounts for.
LEMMA AccountedStep ==
    TypeOK /\ AttemptsAreAccounted /\ [Next]_vars => AttemptsAreAccounted'
<1> SUFFICES ASSUME TypeOK, AttemptsAreAccounted, [Next]_vars PROVE AttemptsAreAccounted'
  OBVIOUS
<1> USE DEF TypeOK, AttemptsAreAccounted, row, agent, procs
<1>1. ASSUME NEW s \in Store, Open(s) PROVE AttemptsAreAccounted'
  BY <1>1 DEF Open, Requeue, Running, Counted
<1>2. ASSUME NEW s \in Store, Ends(s) PROVE AttemptsAreAccounted'
  BY <1>2 DEF Ends
<1>3. ASSUME NEW s \in Store, Reap(s) PROVE AttemptsAreAccounted'
  BY <1>3 DEF Reap, Requeue, Overdue, Running, Counted
<1>4. ASSUME NEW s \in Store, NEW t \in Task, Enqueue(s, t) PROVE AttemptsAreAccounted'
  BY <1>4 DEF Enqueue
<1>5. ASSUME NEW w \in Worker, NEW t \in Task, Select(w, t) PROVE AttemptsAreAccounted'
  BY <1>5 DEF Select
<1>6. ASSUME NEW w \in Worker, Claim(w) PROVE AttemptsAreAccounted'
  <2>1. claim[w].task \in Task
    BY <1>6 DEF Claim
  <2>2. CASE Claimable(claim[w].task)
    <3>1. /\ status' = [status EXCEPT ![claim[w].task] = "RUNNING"]
          /\ attempts' = [attempts EXCEPT ![claim[w].task] = attempts[claim[w].task] + 1]
          /\ UNCHANGED recoveries
      BY <1>6, <2>2 DEF Claim
    <3> QED
      BY <2>1, <2>2, <3>1 DEF Claimable
  <2>3. CASE ~Claimable(claim[w].task)
    BY <1>6, <2>3 DEF Claim
  <2> QED
    BY <2>2, <2>3
<1>14. ASSUME NEW w \in Worker, HandOut(w) PROVE AttemptsAreAccounted'
  BY <1>14 DEF HandOut
<1>15. ASSUME NEW s \in Store, StartReaper(s) PROVE AttemptsAreAccounted'
  BY <1>15 DEF StartReaper
<1>16. ASSUME NEW s \in Store, StopReaper(s) PROVE AttemptsAreAccounted'
  BY <1>16 DEF StopReaper
<1>7. ASSUME NEW w \in Worker, Abandon(w) PROVE AttemptsAreAccounted'
  BY <1>7 DEF Abandon
<1>8. ASSUME NEW w \in Worker, PrepareAppend(w) PROVE AttemptsAreAccounted'
  BY <1>8 DEF PrepareAppend
<1>9. ASSUME NEW w \in Worker, NEW k \in Key, NEW v \in Value, PrepareSet(w, k, v)
      PROVE  AttemptsAreAccounted'
  BY <1>9 DEF PrepareSet
<1>10. ASSUME NEW w \in Worker, Insert(w) PROVE AttemptsAreAccounted'
  BY <1>10 DEF Insert
<1>11. ASSUME NEW w \in Worker, NEW job \in jobs[w],
            NEW outcome \in {"COMPLETED", "FAILED"}, EndJob(w, job, outcome)
       PROVE  AttemptsAreAccounted'
  BY <1>11 DEF EndJob, Holds, End, Running
<1>12. ASSUME NEW t \in Task, RunsOut(t) PROVE AttemptsAreAccounted'
  BY <1>12 DEF RunsOut
<1>13. CASE UNCHANGED vars
  BY <1>13 DEF vars
<1> QED
  BY <1>1, <1>2, <1>3, <1>4, <1>5, <1>6, <1>7, <1>8, <1>9, <1>10, <1>11, <1>12, <1>13,
     <1>14, <1>15, <1>16
     DEF Next

\* Whichever processes claim, reap, reopen or die in whatever order, each attempt
\* of a task but the last ended in a counted recovery.
THEOREM AttemptsCorrect == Spec => []AttemptsAreAccounted
<1>1. Init => AttemptsAreAccounted
  BY DEF Init, AttemptsAreAccounted
<1> QED
  BY <1>1, TypeCorrect, AccountedStep, PTL DEF Spec

\* No step touches the status or the attempts of an ended task.
LEMMA EndedStep ==
    ASSUME TypeOK, [Next]_vars, NEW t \in Task, status[t] \in Ended
    PROVE  status'[t] = status[t] /\ attempts'[t] = attempts[t]
<1> DEFINE Stays == status'[t] = status[t] /\ attempts'[t] = attempts[t]
<1> USE DEF TypeOK, Ended, row, agent, procs
<1>1. ASSUME NEW s \in Store, Open(s) PROVE Stays
  BY <1>1 DEF Open, Requeue, Running
<1>2. ASSUME NEW s \in Store, Ends(s) PROVE Stays
  BY <1>2 DEF Ends
<1>3. ASSUME NEW s \in Store, Reap(s) PROVE Stays
  BY <1>3 DEF Reap, Requeue, Overdue, Running
<1>4. ASSUME NEW s \in Store, NEW u \in Task, Enqueue(s, u) PROVE Stays
  BY <1>4 DEF Enqueue
<1>5. ASSUME NEW w \in Worker, NEW u \in Task, Select(w, u) PROVE Stays
  BY <1>5 DEF Select
<1>6. ASSUME NEW w \in Worker, Claim(w) PROVE Stays
  <2>1. CASE Claimable(claim[w].task)
    BY <1>6, <2>1 DEF Claim, Claimable
  <2>2. CASE ~Claimable(claim[w].task)
    BY <1>6, <2>2 DEF Claim
  <2> QED
    BY <2>1, <2>2
<1>14. ASSUME NEW w \in Worker, HandOut(w) PROVE Stays
  BY <1>14 DEF HandOut
<1>15. ASSUME NEW s \in Store, StartReaper(s) PROVE Stays
  BY <1>15 DEF StartReaper
<1>16. ASSUME NEW s \in Store, StopReaper(s) PROVE Stays
  BY <1>16 DEF StopReaper
<1>7. ASSUME NEW w \in Worker, Abandon(w) PROVE Stays
  BY <1>7 DEF Abandon
<1>8. ASSUME NEW w \in Worker, PrepareAppend(w) PROVE Stays
  BY <1>8 DEF PrepareAppend
<1>9. ASSUME NEW w \in Worker, NEW k \in Key, NEW v \in Value, PrepareSet(w, k, v)
      PROVE  Stays
  BY <1>9 DEF PrepareSet
<1>10. ASSUME NEW w \in Worker, Insert(w) PROVE Stays
  BY <1>10 DEF Insert
<1>11. ASSUME NEW w \in Worker, NEW job \in jobs[w],
            NEW outcome \in {"COMPLETED", "FAILED"}, EndJob(w, job, outcome) PROVE Stays
  BY <1>11 DEF EndJob, Holds, End, Running
<1>12. ASSUME NEW u \in Task, RunsOut(u) PROVE Stays
  BY <1>12 DEF RunsOut
<1>13. CASE UNCHANGED vars
  BY <1>13 DEF vars
<1> QED
  BY <1>1, <1>2, <1>3, <1>4, <1>5, <1>6, <1>7, <1>8, <1>9, <1>10, <1>11, <1>12, <1>13,
     <1>14, <1>15, <1>16
     DEF Next

\* A task ends once, whatever stale claims, reapers and recoveries follow.
THEOREM EndedStaysEnded == Spec => EndedIsFinal
<1>1. TypeOK /\ [Next]_vars =>
        [\A t \in Task : status[t] \in Ended =>
            status'[t] = status[t] /\ attempts'[t] = attempts[t]]_vars
  BY EndedStep
<1> QED
  BY <1>1, TypeCorrect, PTL DEF Spec, EndedIsFinal

-----------------------------------------------------------------------------
\* As long as one process at a time has the store open, its lock makes a claim
\* one step, and the token counts the attempts.
Counts ==
    /\ \A r, s \in up : r = s
    /\ \A t \in Task : token[t] = attempts[t]
    /\ \A w \in Worker : \A job \in jobs[w] : job.token = job.attempts
    /\ \A w \in Worker : claim[w] # NoClaim =>
          /\ StoreOf[w] \in up
          /\ ~claim[w].done => /\ status[claim[w].task] = "PENDING"
                               /\ claim[w].token = token[claim[w].task] + 1
    /\ \A v, w \in Worker : claim[v] # NoClaim /\ claim[w] # NoClaim => v = w

TokenInv == overlapped \/ Counts

\* While processes follow each other, tokens count attempts, step by step.
LEMMA TokenStep == TypeOK /\ TokenInv /\ [Next]_vars => TokenInv'
<1> SUFFICES ASSUME TypeOK, TokenInv, [Next]_vars, ~overlapped' PROVE Counts'
  BY DEF TokenInv
<1>a. ~overlapped /\ Counts
  <2>1. overlapped => overlapped'
    BY DEF Next, Open, Ends, StartReaper, StopReaper, Reap, Enqueue, Select, Claim, HandOut, Abandon, PrepareAppend, PrepareSet,
           Insert, EndJob, RunsOut, vars, procs
  <2> QED
    BY <2>1 DEF TokenInv
<1>b. ASSUME NEW s \in Store, Unlocked(s) PROVE \A w \in Worker : claim[w] = NoClaim
  BY <1>a, <1>b DEF Unlocked, Counts
<1> USE DEF Counts, TypeOK, row, agent, procs
<1>1. ASSUME NEW s \in Store, Open(s) PROVE Counts'
  <2>1. up = {}
    BY <1>1 DEF Open
  <2> QED
    BY <1>a, <2>1, <1>1 DEF Open, Requeue, Running
<1>2. ASSUME NEW s \in Store, Ends(s) PROVE Counts'
  BY <1>a, <1>2 DEF Ends
<1>3. ASSUME NEW s \in Store, Reap(s) PROVE Counts'
  BY <1>a, <1>b, <1>3 DEF Reap, Requeue, Overdue, Running
<1>4. ASSUME NEW s \in Store, NEW t \in Task, Enqueue(s, t) PROVE Counts'
  BY <1>a, <1>b, <1>4 DEF Enqueue
<1>5. ASSUME NEW w \in Worker, NEW t \in Task, Select(w, t) PROVE Counts'
  BY <1>a, <1>b, <1>5 DEF Select, NextToken, Unlocked
<1>6. ASSUME NEW w \in Worker, Claim(w) PROVE Counts'
  <2> DEFINE t == claim[w].task
  <2>1. /\ t \in Task /\ Claimable(t) /\ claim[w].token = attempts[t] + 1
       /\ \A v \in Worker : v # w => claim[v] = NoClaim
    BY <1>a, <1>6 DEF Claim, Claimable
  <2>2. /\ token' = [token EXCEPT ![t] = attempts[t] + 1]
       /\ attempts' = [attempts EXCEPT ![t] = attempts[t] + 1]
    BY <2>1, <1>6 DEF Claim
  <2>3. /\ claim' = [claim EXCEPT ![w] = [claim[w] EXCEPT !.done = TRUE]]
        /\ UNCHANGED <<up, jobs>>
    BY <1>6 DEF Claim
  <2>4. claim[w] # NoClaim /\ StoreOf[w] \in up
    BY <1>a, <1>6 DEF Claim
  <2>5. claim'[w].done /\ \A v \in Worker : v # w => claim'[v] = NoClaim
    <3>1. claim[w] \in [task : Task, token : Nat \ {0}, done : BOOLEAN]
      BY <2>4
    <3> QED
      BY <2>1, <2>3, <3>1
  <2>6. \A u \in Task : token'[u] = attempts'[u]
    BY <1>a, <2>1, <2>2
  <2>7. \A v \in Worker : claim'[v] # NoClaim => v = w
    BY <2>5
  <2>8. \A r, s \in up' : r = s
    BY <1>a, <2>3
  <2>9. \A v \in Worker : \A job \in jobs'[v] : job.token = job.attempts
    BY <1>a, <2>3
  <2>10. \A v \in Worker : claim'[v] # NoClaim =>
            /\ StoreOf[v] \in up'
            /\ ~claim'[v].done => /\ status'[claim'[v].task] = "PENDING"
                                 /\ claim'[v].token = token'[claim'[v].task] + 1
    BY <2>3, <2>4, <2>5, <2>7
  <2> QED
    BY <2>6, <2>7, <2>8, <2>9, <2>10
<1>14. ASSUME NEW w \in Worker, HandOut(w) PROVE Counts'
  <2> DEFINE t == claim[w].task
             job == [task |-> t, token |-> token[t], attempts |-> attempts[t]]
  <2>1. t \in Task /\ job.token = job.attempts
    BY <1>a, <1>14 DEF HandOut, NoClaim
  <2>2. /\ claim' = [claim EXCEPT ![w] = NoClaim]
        /\ jobs' = [jobs EXCEPT ![w] = jobs[w] \cup {job}]
        /\ UNCHANGED <<row, up>>
    BY <1>14 DEF HandOut
  <2> HIDE DEF job, t
  <2> QED
    BY <1>a, <2>1, <2>2
<1>15. ASSUME NEW s \in Store, StartReaper(s) PROVE Counts'
  BY <1>a, <1>15 DEF StartReaper
<1>16. ASSUME NEW s \in Store, StopReaper(s) PROVE Counts'
  BY <1>a, <1>16 DEF StopReaper
<1>7. ASSUME NEW w \in Worker, Abandon(w) PROVE Counts'
  BY <1>a, <1>7 DEF Abandon
<1>8. ASSUME NEW w \in Worker, PrepareAppend(w) PROVE Counts'
  BY <1>a, <1>8 DEF PrepareAppend
<1>9. ASSUME NEW w \in Worker, NEW k \in Key, NEW v \in Value, PrepareSet(w, k, v)
      PROVE  Counts'
  BY <1>a, <1>9 DEF PrepareSet
<1>10. ASSUME NEW w \in Worker, Insert(w) PROVE Counts'
  BY <1>a, <1>10 DEF Insert
<1>11. ASSUME NEW w \in Worker, NEW job \in jobs[w],
            NEW outcome \in {"COMPLETED", "FAILED"}, EndJob(w, job, outcome)
       PROVE  Counts'
  BY <1>a, <1>b, <1>11 DEF EndJob, End, Running
<1>12. ASSUME NEW t \in Task, RunsOut(t) PROVE Counts'
  BY <1>a, <1>12 DEF RunsOut
<1>13. CASE UNCHANGED vars
  BY <1>a, <1>13 DEF vars
<1> QED
  BY <1>1, <1>2, <1>3, <1>4, <1>5, <1>6, <1>7, <1>8, <1>9, <1>10, <1>11, <1>12, <1>13,
     <1>14, <1>15, <1>16
     DEF Next

\* As long as processes followed each other, a worker can end or prolong only the
\* attempt that is the task's last.
THEOREM FencingCorrect == Spec => []AttemptIsFenced
<1>1. Init => TokenInv
  BY DEF Init, TokenInv, Counts
<1>2. TypeOK /\ TokenInv => AttemptIsFenced
  BY DEF TypeOK, TokenInv, Counts, AttemptIsFenced, Holds, Running
<1> QED
  BY <1>1, <1>2, TypeCorrect, TokenStep, PTL DEF Spec

-----------------------------------------------------------------------------
\* What a setValue has prepared is either the next version of the state as it
\* is, or a version that is already taken.
IsFresh(d, st) ==
    /\ d.version <= st.version + 1
    /\ d.version = st.version + 1 =>
          d.key \in Key /\ d.values = [st.values EXCEPT ![d.key] = d.value]

Fresh == \A w \in Worker : IsFresh(draft[w], state)

Unique == \A e, f \in events : e.seq = f.seq => e = f

ReplayInv == StateIsReplayed /\ Unique /\ Fresh

Drafts == [seq : 0 .. MaxEvents, version : Nat, key : Key \cup {Unset},
           value : Value \cup {Unset}, values : [Key -> Value \cup {Unset}]]

\* Drafts are typed, and the empty one is no checkpoint.
LEMMA DraftsTyped ==
    /\ NoDraft \in Drafts /\ NoDraft.version = 0
    /\ TypeOK => draft \in [Worker -> Drafts]
<1>1. NoDraft \in Drafts /\ NoDraft.version = 0
  BY DEF NoDraft, NoValues, Drafts
<1>2. \A d \in [seq : 1 .. MaxEvents, version : Nat, key : Key \cup {Unset},
             value : Value \cup {Unset}, values : [Key -> Value \cup {Unset}]] : d \in Drafts
  BY DEF Drafts
<1> QED
  BY <1>1, <1>2 DEF TypeOK

\* Every step keeps the state and its checkpoints together.
LEMMA ReplayStep == TypeOK /\ Numbered /\ ReplayInv /\ [Next]_vars => ReplayInv'
<1> SUFFICES ASSUME TypeOK, NEW n \in 0 .. MaxEvents, NumberedTo(n), ReplayInv, [Next]_vars
             PROVE  ReplayInv'
  BY DEF Numbered
<1>t. /\ draft \in [Worker -> Drafts] /\ NoDraft \in Drafts /\ NoDraft.version = 0
      /\ state \in [version : Nat, values : [Key -> Value \cup {Unset}]]
      /\ events \subseteq [seq : 1 .. MaxEvents, version : Nat,
                            key : Key \cup {Unset}, value : Value \cup {Unset}]
  BY DraftsTyped DEF TypeOK
<1> USE DEF row, agent, procs
<1>a. ASSUME UNCHANGED <<events, state>>, Fresh' PROVE ReplayInv'
  BY <1>a DEF ReplayInv, StateIsReplayed, Checkpoints, Unique
<1>v. state.version \in Nat
  BY <1>t
<1>f. IsFresh(NoDraft, state) /\ \A w \in Worker : IsFresh(draft[w], state)
  BY <1>t DEF IsFresh, ReplayInv, Fresh
<1>b. ASSUME UNCHANGED agent PROVE ReplayInv'
  BY <1>a, <1>b DEF ReplayInv, Fresh
<1>1. ASSUME NEW s \in Store, Open(s) PROVE ReplayInv'
  BY <1>b, <1>1 DEF Open
<1>2. ASSUME NEW s \in Store, Ends(s) PROVE ReplayInv'
  <2>1. Fresh'
    BY <1>t, <1>f, <1>2 DEF Ends, Fresh
  <2> QED
    BY <1>a, <2>1, <1>2 DEF Ends
<1>3. ASSUME NEW s \in Store, Reap(s) PROVE ReplayInv'
  BY <1>b, <1>3 DEF Reap
<1>4. ASSUME NEW s \in Store, NEW t \in Task, Enqueue(s, t) PROVE ReplayInv'
  BY <1>b, <1>4 DEF Enqueue
<1>5. ASSUME NEW w \in Worker, NEW t \in Task, Select(w, t) PROVE ReplayInv'
  BY <1>b, <1>5 DEF Select
<1>6. ASSUME NEW w \in Worker, Claim(w) PROVE ReplayInv'
  BY <1>b, <1>6 DEF Claim
<1>14. ASSUME NEW w \in Worker, HandOut(w) PROVE ReplayInv'
  BY <1>b, <1>14 DEF HandOut
<1>15. ASSUME NEW s \in Store, StartReaper(s) PROVE ReplayInv'
  BY <1>b, <1>15 DEF StartReaper
<1>16. ASSUME NEW s \in Store, StopReaper(s) PROVE ReplayInv'
  BY <1>b, <1>16 DEF StopReaper
<1>7. ASSUME NEW w \in Worker, Abandon(w) PROVE ReplayInv'
  <2>1. Fresh'
    BY <1>t, <1>f, <1>7 DEF Abandon, Fresh
  <2> QED
    BY <1>a, <2>1, <1>7 DEF Abandon
<1>8. ASSUME NEW w \in Worker, PrepareAppend(w) PROVE ReplayInv'
  <2>1. Fresh'
    <3> DEFINE d == [seq |-> LastSeq + 1, version |-> 0, key |-> Unset,
                     value |-> Unset, values |-> NoValues]
    <3>1. IsFresh(d, state)
      BY <1>t DEF IsFresh
    <3> HIDE DEF d
    <3>2. draft' = [draft EXCEPT ![w] = d] /\ UNCHANGED state
      BY <1>8 DEF PrepareAppend, d
    <3> QED
      BY <1>t, <1>f, <3>1, <3>2 DEF Fresh
  <2> QED
    BY <1>a, <2>1, <1>8 DEF PrepareAppend
<1>9. ASSUME NEW w \in Worker, NEW k \in Key, NEW v \in Value, PrepareSet(w, k, v)
      PROVE  ReplayInv'
  <2>1. Fresh'
    <3> DEFINE d == [seq |-> LastSeq + 1, version |-> state.version + 1, key |-> k,
                     value |-> v, values |-> [state.values EXCEPT ![k] = v]]
    <3>1. IsFresh(d, state)
      BY <1>t DEF IsFresh
    <3> HIDE DEF d
    <3>2. draft' = [draft EXCEPT ![w] = d] /\ UNCHANGED state
      BY <1>9 DEF PrepareSet, d
    <3> QED
      BY <1>t, <1>f, <3>1, <3>2 DEF Fresh
  <2> QED
    BY <1>a, <2>1, <1>9 DEF PrepareSet
<1>10. ASSUME NEW w \in Worker, Insert(w) PROVE ReplayInv'
  <2> DEFINE d == draft[w]
              new == [seq |-> d.seq, version |-> d.version, key |-> d.key, value |-> d.value]
  <2>1. d.seq = n + 1
    BY <1>10, InsertIsNext
  <2>2. \A e \in events : e.seq <= n
    BY DEF NumberedTo
  <2>3. /\ events' = events \cup {new}
       /\ draft' = [draft EXCEPT ![w] = NoDraft]
       /\ d \in Drafts
    BY <1>t, <1>10 DEF Insert
  <2>4. Unique'
    BY <2>1, <2>2, <2>3 DEF ReplayInv, Unique
  <2>5. CASE d.version = 0
    <3>1. Checkpoints' = Checkpoints /\ state' = state
      BY <2>3, <2>5, <1>10 DEF Checkpoints, Insert
    <3>2. StateIsReplayed'
      BY <3>1 DEF ReplayInv, StateIsReplayed
    <3>3. Fresh'
      BY <1>t, <1>f, <2>3, <3>1 DEF Fresh
    <3> QED
      BY <2>4, <3>2, <3>3 DEF ReplayInv
  <2>6. CASE d.version > 0
    <3>1. /\ d.version = state.version + 1 /\ d.key \in Key
          /\ d.values = [state.values EXCEPT ![d.key] = d.value]
      <4>1. d.version \notin {e.version : e \in Checkpoints}
        BY <2>6, <1>10 DEF Insert, KeysAreFree, Checkpoints
      <4>2. d.version \notin 1 .. state.version /\ d.version <= state.version + 1
        BY <1>f, <4>1 DEF ReplayInv, StateIsReplayed, IsFresh
      <4>3. d.version \in Nat
        BY <2>3 DEF Drafts
      <4>4. d.version = state.version + 1
        BY <1>v, <2>6, <4>2, <4>3
      <4> QED
        BY <1>f, <4>4 DEF IsFresh
    <3>2. state' = [version |-> d.version, values |-> d.values]
      BY <2>6, <1>10 DEF Insert
    <3>3. Checkpoints' = Checkpoints \cup {new} /\ new.version = state.version + 1
      BY <2>3, <2>6, <3>1 DEF Checkpoints
    <3>n. new.key = d.key /\ new.value = d.value /\ new.seq = n + 1
      BY <2>1
    <3>s. /\ state'.version = state.version + 1
          /\ state'.values = [state.values EXCEPT ![d.key] = d.value]
      BY <3>1, <3>2
    <3> HIDE DEF new
    <3>4. Fresh'
      <4>1. ASSUME NEW v \in Worker PROVE IsFresh(draft[v], state')
        <5>1. draft[v].version <= state.version + 1 /\ draft[v].version \in Nat
          BY <1>t, <1>f DEF IsFresh, Drafts
        <5>2. state'.version = state.version + 1
          BY <3>1, <3>2
        <5> QED
          BY <1>t, <5>1, <5>2 DEF IsFresh
      <4>2. IsFresh(NoDraft, state')
        BY <1>t, <3>1, <3>2 DEF IsFresh
      <4> QED
        BY <1>t, <2>3, <4>1, <4>2 DEF Fresh
    <3>5. {e.version : e \in Checkpoints'} = 1 .. state'.version
      <4>1. {e.version : e \in Checkpoints'}
               = {e.version : e \in Checkpoints} \cup {state.version + 1}
        BY <3>3
      <4>2. {e.version : e \in Checkpoints} = 1 .. state.version
        BY DEF ReplayInv, StateIsReplayed
      <4>3. (1 .. state.version) \cup {state.version + 1} = 1 .. (state.version + 1)
        BY <1>v
      <4> QED
        BY <3>s, <4>1, <4>2, <4>3
    <3>6. ASSUME NEW k \in Key
          PROVE  \/ /\ state'.values[k] = Unset
                    /\ \A e \in Checkpoints' : e.key # k
                 \/ \E e \in Checkpoints' :
                       /\ e.key = k /\ e.value = state'.values[k]
                       /\ \A f \in Checkpoints' : f.key = k => f.seq <= e.seq
      <4>1. CASE k = d.key
        <5>1. new.key = k /\ new.value = state'.values[k] /\ new.seq = n + 1
          BY <1>t, <4>1, <3>1, <3>n, <3>s
        <5>2. \A f \in Checkpoints' : f.seq <= n + 1
          <6>1. \A f \in Checkpoints : f.seq \in Nat /\ f.seq <= n
            BY <1>t, <2>2 DEF Checkpoints
          <6> QED
            BY <6>1, <3>3, <3>n
        <5> QED
          BY <5>1, <5>2, <3>3
      <4>2. CASE k # d.key
        <5>1. state'.values[k] = state.values[k] /\ new.key # k
          BY <1>t, <4>2, <3>1, <3>n, <3>s
        <5> QED
          BY <5>1, <3>3 DEF ReplayInv, StateIsReplayed
      <4> QED
        BY <4>1, <4>2
    <3> QED
      BY <2>4, <3>4, <3>5, <3>6 DEF ReplayInv, StateIsReplayed
  <2>7. d.version \in Nat
    BY <2>3 DEF Drafts
  <2> QED
    BY <2>5, <2>6, <2>7
<1>11. ASSUME NEW w \in Worker, NEW job \in jobs[w],
            NEW outcome \in {"COMPLETED", "FAILED"}, EndJob(w, job, outcome)
       PROVE  ReplayInv'
  BY <1>b, <1>11 DEF EndJob
<1>12. ASSUME NEW t \in Task, RunsOut(t) PROVE ReplayInv'
  BY <1>b, <1>12 DEF RunsOut
<1>13. CASE UNCHANGED vars
  BY <1>b, <1>13 DEF vars
<1> QED
  BY <1>1, <1>2, <1>3, <1>4, <1>5, <1>6, <1>7, <1>8, <1>9, <1>10, <1>11, <1>12, <1>13,
     <1>14, <1>15, <1>16
     DEF Next

\* The state is replayed throughout.
LEMMA ReplayCorrect == Spec => []ReplayInv
<1>1. Init => ReplayInv
  <2> SUFFICES ASSUME Init PROVE ReplayInv
    OBVIOUS
  <2>1. StateIsReplayed /\ Unique
    BY DEF Init, StateIsReplayed, Checkpoints, Unique, NoValues
  <2>2. IsFresh(NoDraft, state)
    BY DEF Init, IsFresh, NoDraft
  <2> QED
    BY <2>1, <2>2 DEF Init, ReplayInv, Fresh
<1> QED
  BY <1>1, TypeCorrect, NumberedCorrect, ReplayStep, PTL DEF Spec

\* However processes interleave, the state of the agent is that of its checkpoints.
THEOREM StateCorrect == Spec => []StateIsReplayed
BY ReplayCorrect, PTL DEF ReplayInv

\* However processes interleave, the events are numbered without gap or repetition.
THEOREM NumberingCorrect == Spec => []EventsAreNumbered
<1>1. Numbered /\ ReplayInv => EventsAreNumbered
  BY DEF Numbered, NumberedTo, ReplayInv, Unique, EventsAreNumbered
<1> QED
  BY <1>1, NumberedCorrect, ReplayCorrect, PTL
=============================================================================
