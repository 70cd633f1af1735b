------------------------ MODULE ManagedProcessProofs ------------------------
(* Proofs about the managed process. The invariant says, of a process whose   *)
(* start and stop were called in order, which child can still be open, when a *)
(* restart can be pending (never with a child open, and only one) and what    *)
(* the calls under way can have left to do: at the bottom of the stack the    *)
(* child of a start, or a restart to schedule or to arm; above it signals.    *)
EXTENDS ManagedProcessProps, FiniteSetTheorems, SequenceTheorems, TLAPS

\* Only the first call under way can be a start or a crash, and when it has come
\* to a child or a timer nothing is above it.
InTurn ==
    \A i \in 1 .. Len(stack) : stack[i] \notin Signals =>
        /\ i = 1 /\ Quiet /\ timers = {}
        /\ stack[i] \in {"spawn", "arm"} => Len(stack) = 1
        /\ stack[i] = "spawn" => state = "STARTING"
        /\ stack[i] = "arm" => state = "RESTARTING"

Orderly ==
    /\ \A c \in Child : c # proc => child[c] \in Closed \cup {"none"}
    /\ timers # {} => state = "RESTARTING" /\ Quiet /\ stack = <<>> /\ timers = {restartTimer}
    /\ InTurn
    /\ state \in {"STOPPED", "FAILED"} => Live = {}

Ordered == ~overlapped /\ ~interrupted

\* A signal that is left to send has a child to be sent to.
Known == \A i \in 1 .. Len(stack) : stack[i] \in Signals => proc \in Child

Inv == TypeOK /\ Known /\ (Ordered => Orderly)

Statuses == Pending \cup Over \cup Closed \cup {"none", "alive"}

\* What is added to the stack comes last.
LEMMA Pushed ==
    ASSUME NEW s \in Seq(Rest), NEW r \in Rest
    PROVE  /\ Append(s, r) \in Seq(Rest)
           /\ Len(Append(s, r)) = Len(s) + 1 /\ Len(s) \in Nat
           /\ Append(s, r)[Len(s) + 1] = r
           /\ \A i \in 1 .. Len(s) : Append(s, r)[i] = s[i]
BY AppendProperties, LenProperties

\* What goes on is taken off the end.
LEMMA Popped ==
    ASSUME NEW s \in Seq(Rest), s # <<>>
    PROVE  /\ Front(s) \in Seq(Rest)
           /\ Len(Front(s)) = Len(s) - 1 /\ Len(s) \in Nat /\ Len(s) >= 1
           /\ \A i \in 1 .. Len(s) - 1 : Front(s)[i] = s[i]
           /\ Last(s) = s[Len(s)] /\ Last(s) \in Rest
<1>1. Len(s) \in Nat /\ Len(s) >= 1
  BY EmptySeq, LenProperties
<1>2. Len(s) - 1 \in 0 .. Len(s)
  BY <1>1
<1>3. Front(s) = SubSeq(s, 1, Len(s) - 1) /\ Last(s) = s[Len(s)]
  BY DEF Front, Last
<1>4. s[Len(s)] \in Rest
  BY <1>1, ElementOfSeq
<1>5. \A i \in 1 .. Len(s) - 1 : s[i] \in Rest
  BY <1>1, ElementOfSeq
<1> DEFINE m == Len(s) - 1
<1> HIDE DEF m
<1>6. m \in Nat /\ \A i \in 1 .. m : s[i] \in Rest
  BY <1>1, <1>5 DEF m
<1>7. /\ SubSeq(s, 1, m) \in Seq(Rest) /\ Len(SubSeq(s, 1, m)) = m
      /\ \A i \in 1 .. m : SubSeq(s, 1, m)[i] = s[i]
  BY <1>6, SMTT(30)
<1> QED
  BY <1>1, <1>3, <1>4, <1>7 DEF m

\* The process begins typed.
LEMMA TypeInit == Init => TypeOK
<1> SUFFICES ASSUME Init
             PROVE  TypeOK
  OBVIOUS
<1>1. 0 \in 0 .. MaxRestarts /\ 0 \in 0 .. MaxStarts /\ 0 \in 0 .. MaxStops /\ 0 \in 0 .. 0
  BY ManagedAssumption DEF ManagedAssumption
<1>2. child \in [Child -> Statuses] /\ forces \in [Child -> Nat]
  BY <1>1 DEF Init, Statuses
<1>3. state \in CanStart /\ stack \in Seq(Rest)
  BY DEF Init, CanStart
<1> QED
  BY <1>1, <1>2, <1>3 DEF Init, TypeOK, Statuses

\* What doSpawn does keeps the types.
LEMMA SpawnType ==
    ASSUME TypeOK, DoSpawn
    PROVE  /\ state' \in CanStart \cup CanStop \cup {"FAILED"}
           /\ proc' \in {0} \cup Child
           /\ child' \in [Child -> Statuses]
<1>1. CASE state' = "FAILED" /\ UNCHANGED <<proc, child>>
  BY <1>1 DEF TypeOK, Statuses
<1>2. CASE \E c \in Child, what \in Pending :
              child' = [child EXCEPT ![c] = what] /\ proc' = c /\ UNCHANGED state
  BY <1>2 DEF TypeOK, Statuses
<1> QED
  BY <1>1, <1>2 DEF DoSpawn

\* Every step keeps the types.
LEMMA TypeStep ==
    ASSUME TypeOK, Known, [Next]_vars
    PROVE  TypeOK'
<1>a. MaxRestarts \in Nat /\ MaxStarts \in Nat /\ MaxStops \in Nat
  BY ManagedAssumption DEF ManagedAssumption
<1>b. child \in [Child -> Statuses] /\ restartCount \in Nat /\ starts \in Nat /\ stops \in Nat
  BY <1>a DEF TypeOK, Statuses
<1>s. stack \in Seq(Rest) /\ Rest = {"term", "kill", "spawn", "schedule", "arm"}
  BY DEF TypeOK, Rest, Signals
<1>1. CASE Start
  <2>1. state' \in CanStart \cup CanStop \cup {"FAILED"} /\ stack' \in Seq(Rest)
    BY <1>1, <1>s, Pushed DEF Start, CanStop
  <2>4. starts' \in 0 .. MaxStarts /\ stopRequested' \in BOOLEAN
    <3>1. starts < MaxStarts /\ starts' = starts + 1 /\ stopRequested' = FALSE
      BY <1>1 DEF Start
    <3>2. starts' \in 0 .. MaxStarts
      BY <1>a, <1>b, <3>1
    <3>3. stopRequested' \in BOOLEAN
      BY <3>1
    <3> QED
      BY <3>2, <3>3
  <2>5. overlapped' \in BOOLEAN
    BY <1>1 DEF Start
  <2> QED
    BY <1>1, <2>1, <2>4, <2>5 DEF Start, TypeOK, Statuses
<1>11. CASE Spawn
  <2>1. /\ state' \in CanStart \cup CanStop \cup {"FAILED"}
        /\ proc' \in {0} \cup Child /\ child' \in [Child -> Statuses]
    BY <1>11, SpawnType DEF Spawn
  <2>2. stack' \in Seq(Rest)
    BY <1>11, <1>s, Popped DEF Spawn, Resumes
  <2> QED
    BY <1>11, <2>1, <2>2 DEF Spawn, TypeOK, Statuses, calls
<1>2. CASE ScheduleRestart
  <2>0. Front(stack) \in Seq(Rest)
    BY <1>2, <1>s, Popped DEF ScheduleRestart, Resumes
  <2>1. stack' \in Seq(Rest)
    <3>1. Append(Front(stack), "arm") \in Seq(Rest)
      BY <2>0, <1>s, Pushed
    <3> QED
      BY <1>2, <2>0, <3>1 DEF ScheduleRestart
  <2>2. state' \in CanStart \cup CanStop \cup {"FAILED"}
    BY <1>2 DEF ScheduleRestart, TypeOK, CanStart
  <2>3. restartCount' \in 0 .. MaxRestarts /\ restartCount <= restartCount'
    BY <1>2, <1>a, <1>b DEF ScheduleRestart, TypeOK, MayRestart, Counted
  <2>4. timers' \subseteq 0 .. restartCount' /\ restartTimer' \in timers' \cup {0}
    <3>1. timers' = timers /\ restartTimer' = restartTimer
      BY <1>2 DEF ScheduleRestart
    <3> QED
      BY <1>a, <1>b, <2>3, <3>1 DEF TypeOK
  <2>5. child' \in [Child -> Statuses] /\ forces' \in [Child -> Nat]
    BY <1>2, <1>b DEF ScheduleRestart, TypeOK, calls
  <2> QED
    BY <1>2, <2>1, <2>2, <2>3, <2>4, <2>5 DEF ScheduleRestart, TypeOK, Statuses, calls
<1>12. CASE ArmRestart
  <2>1. stack' \in Seq(Rest)
    BY <1>12, <1>s, Popped DEF ArmRestart, Resumes
  <2>2. timers' \subseteq 0 .. restartCount' /\ restartTimer' \in timers' \cup {0}
    BY <1>12, <1>b DEF ArmRestart, TypeOK
  <2> QED
    BY <1>12, <2>1, <2>2 DEF ArmRestart, TypeOK, Statuses, calls
<1>3. ASSUME NEW t \in 1 .. MaxRestarts, RestartTimer(t)
      PROVE  TypeOK'
  <2>1. /\ state' \in CanStart \cup CanStop \cup {"FAILED"}
        /\ proc' \in {0} \cup Child /\ child' \in [Child -> Statuses]
    <3>1. CASE Wanted
      BY <1>3, <3>1, SpawnType DEF RestartTimer, TypeOK
    <3>2. CASE ~Wanted
      BY <1>3, <1>b, <3>2 DEF RestartTimer, TypeOK
    <3> QED
      BY <3>1, <3>2
  <2>2. timers' \subseteq 0 .. restartCount /\ restartTimer' = 0
    BY <1>3 DEF RestartTimer, TypeOK
  <2> QED
    BY <1>3, <2>1, <2>2 DEF RestartTimer, TypeOK, Statuses, calls
<1>4. ASSUME NEW c \in Child, ForceTimer(c)
      PROVE  TypeOK'
  <2>1. forces' \in [Child -> Nat]
    <3>1. forces[c] \in Nat /\ forces[c] > 0
      BY <1>4 DEF ForceTimer, TypeOK
    <3>2. forces[c] - 1 \in Nat
      BY <3>1
    <3> QED
      BY <1>4, <3>2 DEF ForceTimer, TypeOK
  <2>2. doomed' \subseteq Child
    BY <1>4 DEF ForceTimer, TypeOK, Killed
  <2> QED
    BY <1>4, <2>1, <2>2 DEF ForceTimer, TypeOK, calls
<1>t. ASSUME NEW signal \in Signals, Send(signal), proc \in Child
      PROVE  forces' \in [Child -> Nat] /\ doomed' \subseteq Child
  <2>1. forces \in [Child -> Nat] /\ forces[proc] \in Nat
    BY <1>t DEF TypeOK
  <2>2. forces[proc] + 1 \in Nat
    BY <2>1
  <2> QED
    BY <1>t, <2>1, <2>2 DEF Send, TypeOK
<1>5. ASSUME NEW signal \in Signals, Stop(signal)
      PROVE  TypeOK'
  <2>1. stops' \in 0 .. MaxStops /\ stops' = stops + 1
    BY <1>5, <1>a, <1>b DEF Stop, TypeOK
  <2>2. timers' \subseteq 0 .. restartCount
    BY <1>5 DEF Stop, TypeOK, PendingAfterStop
  <2>3. state' \in {"STOPPED", "STOPPING"} /\ interrupted' \in BOOLEAN
    BY <1>5 DEF Stop
  <2>4. forces' \in [Child -> Nat] /\ doomed' \subseteq Child
    <3>1. CASE ~Gone /\ state = "STOPPING"
      <4>1. proc \in Child /\ Send(signal)
        BY <1>5, <3>1 DEF Gone, TypeOK, Stop
      <4> QED
        BY <1>t, <4>1
    <3>2. CASE ~(~Gone /\ state = "STOPPING")
      BY <1>5, <3>2 DEF Stop, TypeOK
    <3> QED
      BY <3>1, <3>2
  <2>5. stack' \in Seq(Rest)
    <3>1. Append(stack, signal) \in Seq(Rest)
      BY <1>s, Pushed DEF Signals
    <3> QED
      BY <1>5, <1>s, <3>1 DEF Stop
  <2> QED
    BY <1>5, <2>1, <2>2, <2>3, <2>4, <2>5 DEF Stop, TypeOK, CanStart
<1>13. ASSUME NEW signal \in Signals, Signal(signal)
       PROVE  TypeOK'
  <2>1. stack' \in Seq(Rest)
    BY <1>13, <1>s, Popped DEF Signal, Resumes
  <2>2. proc \in Child
    <3>1. Len(stack) \in 1 .. Len(stack) /\ stack[Len(stack)] = signal
      BY <1>13, <1>s, Popped DEF Signal, Resumes
    <3> QED
      BY <3>1 DEF Known
  <2>3. forces' \in [Child -> Nat] /\ doomed' \subseteq Child
    BY <1>13, <1>t, <2>2 DEF Signal
  <2> QED
    BY <1>13, <2>1, <2>3 DEF Signal, TypeOK, calls
<1>6. ASSUME NEW c \in Child, Spawned(c)
      PROVE  TypeOK'
  BY <1>6 DEF Spawned, TypeOK, calls, OnSpawn, CanStop
<1>7. ASSUME NEW c \in Child, SpawnError(c)
      PROVE  TypeOK'
  BY <1>7 DEF SpawnError, TypeOK, calls, Over
<1>8. ASSUME NEW c \in Child, Close(c)
      PROVE  TypeOK'
  <2>1. Came[child[c]] \in Closed
    BY <1>8 DEF Close, Came, Closed, Over
  <2>2. child' \in [Child -> Statuses]
    BY <1>8, <1>b, <2>1 DEF Close, Statuses
  <2>3. forces' \in [Child -> Nat]
    BY <1>8, <1>b DEF Close, TypeOK
  <2>4. stack' \in Seq(Rest)
    <3>1. <<>> \in Seq(Rest) /\ <<"schedule">> \in Seq(Rest)
      BY <1>s
    <3> QED
      BY <1>8, <3>1 DEF Close
  <2> QED
    BY <1>8, <2>2, <2>3, <2>4 DEF Close, TypeOK, calls, CanStart, Statuses
<1>9. ASSUME NEW c \in Child, Dies(c)
      PROVE  TypeOK'
  BY <1>9 DEF Dies, TypeOK, calls, Over
<1>10. CASE UNCHANGED vars
  BY <1>10 DEF vars, calls, TypeOK
<1> QED
  BY <1>1, <1>2, <1>3, <1>4, <1>5, <1>6, <1>7, <1>8, <1>9, <1>10, <1>11, <1>12, <1>13
     DEF Next, Resume, Timeout, Event

\* What is left to do after a step was left before, or is added by one action.
LEMMA StackStep ==
    ASSUME TypeOK, [Next]_vars, NEW i \in 1 .. Len(stack')
    PROVE  \/ i \in 1 .. Len(stack) /\ stack'[i] = stack[i]
           \/ Start /\ stack'[i] = "spawn"
           \/ ScheduleRestart /\ stack'[i] = "arm"
           \/ stack'[i] = "schedule"
           \/ \E signal \in Signals : Stop(signal) /\ ~Gone /\ stack'[i] = signal
<1>s. stack \in Seq(Rest)
  BY DEF TypeOK
<1>1. CASE stack' = stack \/ stack' = <<>>
  BY <1>1
<1>2. ASSUME stack # <<>>, stack' = Front(stack)
      PROVE  i \in 1 .. Len(stack) /\ stack'[i] = stack[i]
  <2>1. /\ Len(stack') = Len(stack) - 1 /\ Len(stack) \in Nat
        /\ \A j \in 1 .. Len(stack) - 1 : stack'[j] = stack[j]
    BY <1>2, <1>s, Popped
  <2> QED
    BY <2>1
<1>3. ASSUME NEW r \in Rest, stack' = Append(stack, r)
      PROVE  (i \in 1 .. Len(stack) /\ stack'[i] = stack[i]) \/ stack'[i] = r
  <2>1. /\ Len(stack') = Len(stack) + 1 /\ Len(stack) \in Nat /\ stack'[Len(stack) + 1] = r
        /\ \A j \in 1 .. Len(stack) : stack'[j] = stack[j]
    BY <1>3, <1>s, Pushed
  <2> QED
    BY <2>1
<1>4. CASE Start
  BY <1>4, <1>3 DEF Start, Rest, Signals
<1>5. CASE Spawn
  BY <1>5, <1>2 DEF Spawn, Resumes
<1>6. CASE ScheduleRestart
  <2>1. stack # <<>>
    BY <1>6 DEF ScheduleRestart, Resumes
  <2>2. CASE stack' = Append(Front(stack), "arm")
    <3> DEFINE f == Front(stack)
    <3>1. /\ f \in Seq(Rest) /\ Len(f) = Len(stack) - 1 /\ Len(stack) \in Nat
          /\ \A j \in 1 .. Len(stack) - 1 : f[j] = stack[j]
      BY <1>s, <2>1, Popped
    <3> HIDE DEF f
    <3>2. "arm" \in Rest
      BY DEF Rest
    <3>3. /\ Len(Append(f, "arm")) = Len(f) + 1 /\ Append(f, "arm")[Len(f) + 1] = "arm"
          /\ \A j \in 1 .. Len(f) : Append(f, "arm")[j] = f[j]
      BY <3>1, <3>2, Pushed
    <3>4. stack' = Append(f, "arm")
      BY <2>2 DEF f
    <3>5. i \in 1 .. Len(f) + 1
      BY <3>3, <3>4
    <3>6. CASE i = Len(f) + 1
      BY <1>6, <3>3, <3>4, <3>6
    <3>7. CASE i \in 1 .. Len(f)
      BY <3>1, <3>3, <3>4, <3>7
    <3> QED
      BY <3>1, <3>5, <3>6, <3>7
  <2> QED
    BY <1>6, <1>2, <2>1, <2>2 DEF ScheduleRestart
<1>7. CASE ArmRestart
  BY <1>7, <1>2 DEF ArmRestart, Resumes
<1>8. ASSUME NEW signal \in Signals, Signal(signal)
      PROVE  i \in 1 .. Len(stack) /\ stack'[i] = stack[i]
  BY <1>8, <1>2 DEF Signal, Resumes
<1>9. ASSUME NEW signal \in Signals, Stop(signal)
      PROVE  (i \in 1 .. Len(stack) /\ stack'[i] = stack[i]) \/ (~Gone /\ stack'[i] = signal)
  <2>1. CASE stack' = stack
    BY <2>1
  <2>2. CASE ~Gone /\ stack' = Append(stack, signal)
    BY <1>3, <2>2 DEF Rest
  <2> QED
    BY <1>9, <2>1, <2>2 DEF Stop
<1>10. ASSUME Timeout \/ (\E c \in Child : Event(c) \/ Dies(c)) \/ UNCHANGED vars
       PROVE  stack' = stack \/ stack' = <<>> \/ stack' = <<"schedule">>
  BY <1>10 DEF Timeout, RestartTimer, ForceTimer, Event, Spawned, SpawnError, Close, Dies, vars
<1>11. CASE stack' = <<"schedule">>
  BY <1>11
<1> QED
  BY <1>1, <1>4, <1>5, <1>6, <1>7, <1>8, <1>9, <1>10, <1>11 DEF Next, Resume

\* A call is left to send a signal only when it has found a child.
LEMMA KnownStep ==
    ASSUME TypeOK, Known, [Next]_vars
    PROVE  Known'
<1>1. proc \in Child => proc' \in Child
  <2>1. DoSpawn => proc' = proc \/ proc' \in Child
    BY DEF DoSpawn
  <2>2. proc' = proc \/ proc' \in Child
    BY <2>1 DEF Next, Resume, Timeout, Event, Start, Spawn, ScheduleRestart, ArmRestart, RestartTimer,
           ForceTimer, Stop, Signal, Spawned, SpawnError, Close, Dies, vars
  <2> QED
    BY <2>2
<1>2. SUFFICES ASSUME NEW i \in 1 .. Len(stack'), stack'[i] \in Signals
               PROVE  proc \in Child
  BY <1>1 DEF Known
<1>3. CASE i \in 1 .. Len(stack) /\ stack'[i] = stack[i]
  BY <1>2, <1>3 DEF Known
<1>4. CASE ~Gone
  BY <1>4 DEF Gone, TypeOK
<1> QED
  BY <1>2, <1>3, <1>4, StackStep DEF Signals

\* Every variable keeps its type, restarts stay within the limit.
THEOREM TypeCorrect == Spec => []TypeOK
<1>1. Init => TypeOK /\ Known
  BY TypeInit DEF Init, Known
<1>2. TypeOK /\ Known /\ [Next]_vars => (TypeOK /\ Known)'
  BY TypeStep, KnownStep
<1> QED
  BY <1>1, <1>2, PTL DEF Spec

-----------------------------------------------------------------------------
(* Only a process that was not told to stop, or is told to start, gets a      *)
(* child.                                                                     *)

\* A start that is under way has not been stopped, but for a listener of it.
Undisturbed == \A i \in 1 .. Len(stack) : stack[i] = "spawn" => ~stopRequested \/ interrupted

\* Stop sets the history when it disturbs a start.
LEMMA UndisturbedStep ==
    ASSUME TypeOK, Undisturbed, [Next]_vars
    PROVE  Undisturbed'
<1> SUFFICES ASSUME NEW i \in 1 .. Len(stack'), stack'[i] = "spawn"
             PROVE  ~stopRequested' \/ interrupted'
  BY DEF Undisturbed
<1>1. CASE Start
  BY <1>1 DEF Start
<1>2. (i \in 1 .. Len(stack) /\ stack[i] = "spawn") \/ Start
  BY StackStep DEF Signals
<1>3. interrupted => interrupted'
  BY DEF Next, Resume, Timeout, Event, Start, Spawn, ScheduleRestart, ArmRestart, RestartTimer,
         ForceTimer, Stop, Signal, Spawned, SpawnError, Close, Dies, vars
<1>4. ASSUME NEW signal \in Signals, Stop(signal), i \in 1 .. Len(stack), stack[i] = "spawn"
      PROVE  interrupted'
  <2>1. DOMAIN stack = 1 .. Len(stack)
    BY LenProperties DEF TypeOK
  <2> QED
    BY <1>4, <2>1 DEF Stop
<1>5. stopRequested' = stopRequested \/ Start \/ \E signal \in Signals : Stop(signal)
  BY DEF Next, Resume, Timeout, Event, Spawn, ScheduleRestart, ArmRestart, RestartTimer,
         ForceTimer, Signal, Spawned, SpawnError, Close, Dies, vars
<1> QED
  BY <1>1, <1>2, <1>3, <1>4, <1>5 DEF Undisturbed

\* The two actions that make a child do so only where no stop is requested.
LEMMA NoChildAfterStop ==
    ASSUME TypeOK, Undisturbed, [Next]_vars,
           NEW c \in Child, child[c] = "none", child'[c] # "none"
    PROVE  ~stopRequested' \/ interrupted
<1>0. child \in [Child -> Statuses] /\ stack \in Seq(Rest)
  BY DEF TypeOK, Statuses
<1>1. CASE Spawn
  <2>1. Len(stack) \in 1 .. Len(stack) /\ stack[Len(stack)] = "spawn"
    BY <1>0, <1>1, Popped DEF Spawn, Resumes
  <2> QED
    BY <1>1, <2>1 DEF Spawn, Undisturbed
<1>2. ASSUME NEW t \in 1 .. MaxRestarts, RestartTimer(t)
      PROVE  ~stopRequested'
  BY <1>2 DEF RestartTimer, Wanted
<1>3. ASSUME child' = child
      PROVE  FALSE
  BY <1>3
<1>4. ASSUME NEW b \in Child, Event(b) \/ Dies(b)
      PROVE  FALSE
  <2>1. \A x \in Child : x # b => child'[x] = child[x]
    BY <1>0, <1>4 DEF Event, Spawned, SpawnError, Close, Dies
  <2>2. child[b] # "none"
    BY <1>4 DEF Event, Spawned, SpawnError, Close, Dies, Over
  <2> QED
    BY <2>1, <2>2
<1> QED
  BY <1>1, <1>2, <1>3, <1>4
     DEF Next, Resume, Timeout, Start, ScheduleRestart, ArmRestart, ForceTimer, Stop, Signal, vars

\* A process that was told to stop gets no child before it is told to start.
THEOREM StopIsKept == Spec => StoppedStaysDown
<1>1. Init => Undisturbed
  BY DEF Init, Undisturbed
<1>2. TypeOK /\ Undisturbed /\ [Next]_vars => Undisturbed'
  BY UndisturbedStep
<1>3. TypeOK /\ Undisturbed /\ [Next]_vars =>
        [(\E c \in Child : child[c] = "none" /\ child'[c] # "none")
            => ~stopRequested' \/ interrupted]_vars
  BY NoChildAfterStop
<1> QED
  BY <1>1, <1>2, <1>3, TypeCorrect, PTL DEF Spec, StoppedStaysDown

-----------------------------------------------------------------------------
(* At most one child. Each lemma says how one kind of step keeps Orderly.     *)

\* Whoever is not closed is the current child, and nothing is pending beside it.
LEMMA Dying ==
    ASSUME TypeOK, Orderly, NEW c \in Child, c \in Live \/ child[c] \in Pending \cup Over
    PROVE  c = proc /\ ~Quiet /\ timers = {}
<1>1. child[c] \notin Closed \cup {"none"}
  BY DEF Live, Pending, Over, Closed
<1> QED
  BY <1>1 DEF Orderly, Quiet

\* A child comes when there is none that is open, and no restart is pending.
LEMMA SpawnKeepsOrder ==
    ASSUME TypeOK, Quiet, state \notin {"STOPPED", "FAILED"}, DoSpawn,
           timers' = {}, stack' = <<>>
    PROVE  Orderly'
<1>0. child \in [Child -> Statuses]
  BY DEF TypeOK, Statuses
<1>1. InTurn'
  BY DEF InTurn
<1>2. CASE state' = "FAILED" /\ UNCHANGED <<proc, child>>
  BY <1>1, <1>2 DEF Orderly, Quiet, Live, Closed
<1>3. CASE \E c \in Child, what \in Pending :
              child' = [child EXCEPT ![c] = what] /\ proc' = c /\ state' = state
  BY <1>0, <1>1, <1>3 DEF Orderly, Quiet
<1> QED
  BY <1>2, <1>3 DEF DoSpawn

\* A call that comes to its child or its timer is the only one under way.
LEMMA Alone ==
    ASSUME TypeOK, Orderly, NEW r \in {"spawn", "schedule", "arm"}, Resumes(r)
    PROVE  /\ Len(stack) = 1 /\ Quiet /\ timers = {}
           /\ Front(stack) = <<>>
           /\ r = "spawn" => state = "STARTING"
           /\ r = "arm" => state = "RESTARTING"
<1>1. stack \in Seq(Rest) /\ stack # <<>>
  BY DEF TypeOK, Resumes
<1>2. Len(stack) \in 1 .. Len(stack) /\ stack[Len(stack)] = r
  BY <1>1, Popped DEF Resumes
<1>3. /\ Len(stack) = 1 /\ Quiet /\ timers = {}
      /\ r = "spawn" => state = "STARTING"
      /\ r = "arm" => state = "RESTARTING"
  BY <1>2 DEF Orderly, InTurn, Signals
<1>4. Len(Front(stack)) = 0 /\ Front(stack) \in Seq(Rest)
  BY <1>1, <1>3, Popped
<1>5. Front(stack) = <<>>
  BY <1>4, EmptySeq
<1> QED
  BY <1>3, <1>5

\* Histories are kept.
LEMMA Kept ==
    ASSUME [Next]_vars
    PROVE  (overlapped => overlapped') /\ (interrupted => interrupted')
<1>1. overlapped => overlapped'
  BY DEF Next, Resume, Timeout, Event, Start, Spawn, ScheduleRestart, ArmRestart, RestartTimer,
         ForceTimer, Stop, Signal, Spawned, SpawnError, Close, Dies, vars
<1>2. interrupted => interrupted'
  BY DEF Next, Resume, Timeout, Event, Start, Spawn, ScheduleRestart, ArmRestart, RestartTimer,
         ForceTimer, Stop, Signal, Spawned, SpawnError, Close, Dies, vars
<1> QED
  BY <1>1, <1>2

\* Every step of a process called in order keeps the order.
LEMMA OrderStep ==
    ASSUME TypeOK, Ordered => Orderly, [Next]_vars, Ordered'
    PROVE  Orderly'
<1>0. child \in [Child -> Statuses] /\ Orderly /\ ~overlapped /\ stack \in Seq(Rest)
  BY Kept DEF TypeOK, Statuses, Ordered
<1>1. CASE Start
  <2>1. Quiet /\ stack = <<>> /\ state \in {"PENDING", "STOPPED"}
    BY <1>1 DEF Start, Ordered
  <2>2. timers = {} /\ timers' = {} /\ UNCHANGED <<child, proc>> /\ state' = "STARTING"
    BY <1>0, <1>1, <2>1 DEF Start, Orderly
  <2>3. Quiet'
    BY <2>1, <2>2 DEF Quiet
  <2>4. stack' = <<"spawn">>
    BY <1>1, <2>1 DEF Start
  <2>5. InTurn'
    BY <2>2, <2>3, <2>4 DEF InTurn
  <2> QED
    BY <1>0, <2>2, <2>5 DEF Orderly
<1>11. CASE Spawn
  <2>1. Quiet /\ timers = {} /\ Front(stack) = <<>> /\ state = "STARTING"
    BY <1>0, <1>11, Alone DEF Spawn
  <2> QED
    BY <1>11, <2>1, SpawnKeepsOrder DEF Spawn
<1>2. CASE ScheduleRestart
  <2>1. Quiet /\ timers' = {} /\ Front(stack) = <<>> /\ UNCHANGED <<child, proc>>
    BY <1>0, <1>2, Alone DEF ScheduleRestart
  <2>2. Quiet' /\ Live' = {}
    BY <2>1 DEF Quiet, Live, Closed
  <2>3. stack' = <<>> \/ (stack' = <<"arm">> /\ state' = "RESTARTING")
    BY <1>2, <2>1 DEF ScheduleRestart
  <2>4. InTurn'
    BY <2>1, <2>2, <2>3 DEF InTurn
  <2> QED
    BY <1>0, <2>1, <2>2, <2>4 DEF Orderly
<1>12. CASE ArmRestart
  <2>1. Quiet /\ timers = {} /\ Front(stack) = <<>> /\ state = "RESTARTING"
    BY <1>0, <1>12, Alone DEF ArmRestart
  <2>2. /\ stack' = <<>> /\ timers' = {restartTimer'} /\ UNCHANGED <<child, proc, state>>
    BY <1>12, <2>1 DEF ArmRestart
  <2>3. Quiet' /\ InTurn'
    BY <2>1, <2>2 DEF Quiet, InTurn
  <2> QED
    BY <1>0, <2>1, <2>2, <2>3 DEF Orderly
<1>3. ASSUME NEW t \in 1 .. MaxRestarts, RestartTimer(t)
      PROVE  Orderly'
  <2>1. Quiet /\ state = "RESTARTING" /\ timers' = {} /\ stack' = <<>>
    BY <1>0, <1>3 DEF RestartTimer, Orderly, Idle
  <2>2. CASE Wanted
    BY <1>3, <2>1, <2>2, SpawnKeepsOrder DEF RestartTimer
  <2>3. CASE ~Wanted
    <3>1. UNCHANGED <<state, proc, child>>
      BY <1>3, <2>3 DEF RestartTimer
    <3> QED
      BY <1>0, <2>1, <3>1 DEF Orderly, InTurn
  <2> QED
    BY <2>2, <2>3
<1>4. ASSUME NEW c \in Child, ForceTimer(c)
      PROVE  Orderly'
  <2>1. UNCHANGED <<state, timers, restartTimer, stack, child, proc>>
    BY <1>4 DEF ForceTimer
  <2> QED
    BY <1>0, <2>1 DEF Orderly, InTurn, Quiet, Live
<1>5. ASSUME NEW signal \in Signals, Stop(signal)
      PROVE  Orderly'
  <2>1. UNCHANGED <<child, proc>> /\ Quiet' = Quiet /\ Live' = Live
    BY <1>5 DEF Stop, Quiet, Live
  <2>2. timers' = {}
    BY <1>0, <1>5 DEF Stop, PendingAfterStop, Orderly
  <2>3. state' \in {"STOPPED", "STOPPING"} /\ (state' = "STOPPED" => Gone)
    BY <1>5 DEF Stop
  <2>4. ASSUME Gone
        PROVE  Live = {}
    <3>1. Live \subseteq {proc}
      BY <1>0 DEF Orderly, Live, Closed
    <3>2. proc \notin Live
      BY <2>4 DEF Gone, HasExitCode, Live, Child
    <3> QED
      BY <3>1, <3>2
  <2>5. \A i \in 1 .. Len(stack) : stack[i] \notin {"spawn", "arm"}
    <3>1. DOMAIN stack = 1 .. Len(stack)
      BY <1>0, LenProperties
    <3> QED
      BY <1>5, <3>1 DEF Stop, Ordered
  <2>6. \A i \in 1 .. Len(stack') : stack'[i] \notin Signals =>
            i \in 1 .. Len(stack) /\ stack'[i] = stack[i]
    <3>1. CASE stack' = stack
      BY <3>1
    <3>2. CASE stack' = Append(stack, signal)
      <4>1. signal \in Rest
        BY DEF Rest
      <4>2. /\ Len(stack') = Len(stack) + 1 /\ Len(stack) \in Nat /\ stack'[Len(stack) + 1] = signal
            /\ \A i \in 1 .. Len(stack) : stack'[i] = stack[i]
        BY <1>0, <3>2, <4>1, Pushed
      <4> QED
        BY <4>2
    <3> QED
      BY <1>5, <3>1, <3>2 DEF Stop
  <2>7. InTurn'
    BY <1>0, <2>1, <2>2, <2>5, <2>6 DEF Orderly, InTurn
  <2> QED
    BY <1>0, <2>1, <2>2, <2>3, <2>4, <2>7 DEF Orderly
<1>13. ASSUME NEW signal \in Signals, Signal(signal)
       PROVE  Orderly'
  <2>1. UNCHANGED <<state, timers, restartTimer, child, proc>> /\ stack # <<>> /\ stack' = Front(stack)
    BY <1>13 DEF Signal, Resumes
  <2>2. timers = {} /\ Quiet' = Quiet /\ Live' = Live
    BY <1>0, <2>1 DEF Orderly, Quiet, Live
  <2>3. /\ Len(stack') = Len(stack) - 1 /\ Len(stack) \in Nat
        /\ \A i \in 1 .. Len(stack) - 1 : stack'[i] = stack[i]
    BY <1>0, <2>1, Popped
  <2>4. InTurn
    BY <1>0 DEF Orderly
  <2>5. InTurn'
    <3> SUFFICES ASSUME NEW i \in 1 .. Len(stack'), stack'[i] \notin Signals
                 PROVE  /\ i = 1 /\ Quiet' /\ timers' = {}
                        /\ stack'[i] \in {"spawn", "arm"} => Len(stack') = 1
                        /\ stack'[i] = "spawn" => state' = "STARTING"
                        /\ stack'[i] = "arm" => state' = "RESTARTING"
      BY DEF InTurn
    <3>1. i \in 1 .. Len(stack) - 1 /\ i \in 1 .. Len(stack) /\ stack'[i] = stack[i]
      BY <2>3
    <3>2. /\ i = 1 /\ Quiet /\ timers = {}
          /\ stack[i] \in {"spawn", "arm"} => Len(stack) = 1
          /\ stack[i] = "spawn" => state = "STARTING"
          /\ stack[i] = "arm" => state = "RESTARTING"
      BY <2>4, <3>1 DEF InTurn
    <3>3. stack[i] \notin {"spawn", "arm"}
      BY <2>3, <3>1, <3>2
    <3> QED
      BY <2>1, <2>2, <3>1, <3>2, <3>3
  <2> QED
    BY <1>0, <2>1, <2>2, <2>5 DEF Orderly
<1>e. ASSUME stack' = <<>>
      PROVE  InTurn'
  BY <1>e DEF InTurn
<1>6. ASSUME NEW c \in Child, Spawned(c)
      PROVE  Orderly'
  <2>1. c = proc /\ timers = {} /\ stack' = <<>>
    BY <1>0, <1>6, Dying DEF Spawned, Pending, Idle
  <2> QED
    BY <1>0, <1>6, <1>e, <2>1 DEF Spawned, Orderly, OnSpawn
<1>7. ASSUME NEW c \in Child, SpawnError(c)
      PROVE  Orderly'
  <2>1. c = proc /\ timers = {} /\ stack' = <<>>
    BY <1>0, <1>7, Dying DEF SpawnError, Pending, Idle
  <2>2. Live' = {}
    <3>1. child'[c] = "errored" /\ \A b \in Child : b # c => child'[b] \in Closed \cup {"none"}
      BY <1>0, <1>7, <2>1 DEF SpawnError, Orderly
    <3> QED
      BY <3>1 DEF Live, Closed
  <2> QED
    BY <1>0, <1>7, <1>e, <2>1, <2>2 DEF SpawnError, Orderly
<1>8. ASSUME NEW c \in Child, Close(c)
      PROVE  Orderly'
  <2>1. c = proc /\ timers = {}
    BY <1>0, <1>8, Dying DEF Close
  <2>2. Came[child[c]] \in Closed
    BY <1>8 DEF Close, Came, Closed, Over
  <2>3. \A b \in Child : child'[b] \in Closed \cup {"none"}
    BY <1>0, <1>8, <2>1, <2>2 DEF Close, Orderly
  <2>4. Quiet' /\ Live' = {} /\ timers' = {}
    BY <1>8, <2>1, <2>3 DEF Close, Quiet, Live, Closed
  <2>5. InTurn'
    <3>1. stack' = <<>> \/ stack' = <<"schedule">>
      BY <1>8 DEF Close
    <3> QED
      BY <1>e, <2>4, <3>1 DEF InTurn
  <2> QED
    BY <2>3, <2>4, <2>5 DEF Orderly
<1>9. ASSUME NEW c \in Child, Dies(c)
      PROVE  Orderly'
  <2>1. c = proc /\ timers = {} /\ stack' = <<>>
    BY <1>0, <1>9, Dying DEF Dies, Live
  <2>2. Live' \subseteq Live
    BY <1>0, <1>9 DEF Dies, Live
  <2> QED
    BY <1>0, <1>9, <1>e, <2>1, <2>2 DEF Dies, Orderly
<1>10. CASE UNCHANGED vars
  BY <1>0, <1>10 DEF vars, Orderly, InTurn, Quiet, Live
<1> QED
  BY <1>1, <1>2, <1>3, <1>4, <1>5, <1>6, <1>7, <1>8, <1>9, <1>10, <1>11, <1>12, <1>13
     DEF Next, Resume, Timeout, Event

\* The invariant, of which the next theorem is a part.
THEOREM ProcessCorrect == Spec => []Inv
<1>1. Init => Inv
  <2> SUFFICES ASSUME Init
               PROVE  Inv
    OBVIOUS
  <2>1. TypeOK /\ Known
    BY TypeInit DEF Init, Known
  <2>2. Orderly
    BY DEF Init, Orderly, InTurn, Live, Quiet
  <2> QED
    BY <2>1, <2>2 DEF Inv
<1>2. Inv /\ [Next]_vars => Inv'
  BY TypeStep, KnownStep, OrderStep DEF Inv
<1> QED
  BY <1>1, <1>2, PTL DEF Spec

\* A process whose start and stop are called in order has at most one child that
\* lives, the one it knows of, and none while a restart is pending or when it has
\* ended.
THEOREM OneChildCorrect == Spec => []OneChild
<1>1. Inv => OneChild
  <2> SUFFICES ASSUME TypeOK, Orderly
               PROVE  /\ Live \subseteq {proc}
                      /\ timers # {} \/ state \in {"STOPPED", "FAILED"} => Live = {}
    BY DEF Inv, OneChild, Ordered
  <2>1. Live \subseteq {proc}
    BY DEF Orderly, Live, Closed
  <2>2. timers # {} => Live = {}
    BY DEF Orderly, Quiet, Live, Closed
  <2> QED
    BY <2>1, <2>2 DEF Orderly
<1> QED
  BY <1>1, ProcessCorrect, PTL

-----------------------------------------------------------------------------
(* Children, pending restarts and calls that are to make one are counted.     *)

Counts ==
    /\ IsFiniteSet(Born) /\ Cardinality(Born) \in Nat
    /\ IsFiniteSet(timers) /\ Cardinality(timers) \in Nat
    /\ starts \in Nat /\ restartCount \in Nat

\* All that is counted is finite.
LEMMA Finite == TypeOK => Counts
<1> SUFFICES ASSUME TypeOK
             PROVE  Counts
  OBVIOUS
<1>1. IsFiniteSet(Child) /\ IsFiniteSet(0 .. restartCount) /\ starts \in Nat /\ restartCount \in Nat
  <2>1. MaxStarts + MaxRestarts \in Int /\ restartCount \in Nat /\ starts \in Nat
    BY ManagedAssumption DEF TypeOK, ManagedAssumption
  <2> QED
    BY <2>1, FS_Interval DEF Child
<1>2. Born \in SUBSET Child /\ timers \in SUBSET (0 .. restartCount)
  BY DEF Born, TypeOK
<1>3. IsFiniteSet(Born) /\ IsFiniteSet(timers)
  BY <1>1, <1>2, FS_Subset
<1> QED
  BY <1>1, <1>3, FS_CardinalityType DEF Counts

\* The places of a stack where a child or a timer is still to come.
InStack(s) == {i \in 1 .. Len(s) : s[i] \in {"spawn", "arm"}}

\* They are finitely many, and those of the stack are what is promised.
LEMMA StackFinite ==
    ASSUME NEW s \in Seq(Rest)
    PROVE  IsFiniteSet(InStack(s)) /\ Cardinality(InStack(s)) \in Nat
<1>1. IsFiniteSet(1 .. Len(s))
  BY LenProperties, FS_Interval
<1>2. InStack(s) \in SUBSET (1 .. Len(s))
  BY DEF InStack
<1> QED
  BY <1>1, <1>2, FS_Subset, FS_CardinalityType

\* What is pushed adds itself.
LEMMA StackPushed ==
    ASSUME NEW s \in Seq(Rest), NEW r \in Rest
    PROVE  Cardinality(InStack(Append(s, r))) =
               Cardinality(InStack(s)) + IF r \in {"spawn", "arm"} THEN 1 ELSE 0
<1> DEFINE t == Append(s, r)
<1>1. /\ Len(t) = Len(s) + 1 /\ Len(s) \in Nat /\ t[Len(s) + 1] = r
      /\ \A i \in 1 .. Len(s) : t[i] = s[i]
  BY Pushed
<1> HIDE DEF t
<1>2. IsFiniteSet(InStack(s)) /\ Cardinality(InStack(s)) \in Nat
  BY StackFinite
<1>3. CASE r \in {"spawn", "arm"}
  <2>1. InStack(t) = InStack(s) \cup {Len(s) + 1} /\ Len(s) + 1 \notin InStack(s)
    BY <1>1, <1>3 DEF InStack
  <2>2. Cardinality(InStack(t)) = Cardinality(InStack(s)) + 1
    BY <1>2, <2>1, FS_AddElement
  <2> QED
    BY <1>3, <2>2 DEF t
<1>4. CASE r \notin {"spawn", "arm"}
  <2>1. InStack(t) = InStack(s)
    BY <1>1, <1>4 DEF InStack
  <2> QED
    BY <1>2, <1>4, <2>1 DEF t
<1> QED
  BY <1>3, <1>4

\* What goes on takes itself away.
LEMMA StackPopped ==
    ASSUME NEW s \in Seq(Rest), s # <<>>
    PROVE  Cardinality(InStack(Front(s))) =
               Cardinality(InStack(s)) - IF Last(s) \in {"spawn", "arm"} THEN 1 ELSE 0
<1> DEFINE f == Front(s)
<1>1. /\ Len(f) = Len(s) - 1 /\ Len(s) \in Nat /\ Len(s) >= 1 /\ Last(s) = s[Len(s)]
      /\ \A i \in 1 .. Len(s) - 1 : f[i] = s[i]
  BY Popped
<1> HIDE DEF f
<1>2. IsFiniteSet(InStack(s)) /\ Cardinality(InStack(s)) \in Nat
  BY StackFinite
<1>3. CASE Last(s) \in {"spawn", "arm"}
  <2>1. InStack(f) = InStack(s) \ {Len(s)} /\ Len(s) \in InStack(s)
    BY <1>1, <1>3 DEF InStack
  <2>2. Cardinality(InStack(f)) = Cardinality(InStack(s)) - 1
    BY <1>2, <2>1, FS_RemoveElement
  <2> QED
    BY <1>3, <2>2 DEF f
<1>4. CASE Last(s) \notin {"spawn", "arm"}
  <2>1. InStack(f) = InStack(s)
    BY <1>1, <1>4 DEF InStack
  <2> QED
    BY <1>2, <1>4, <2>1 DEF f
<1> QED
  BY <1>3, <1>4

\* doSpawn makes one child at most.
LEMMA SpawnMakesOne ==
    ASSUME TypeOK, TypeOK', DoSpawn
    PROVE  Cardinality(Born') <= Cardinality(Born) + 1
<1>0. child \in [Child -> Statuses] /\ IsFiniteSet(Born) /\ Cardinality(Born) \in Nat
  BY Finite DEF TypeOK, Statuses, Counts
<1>1. CASE child' = child
  <2>1. Born' = Born
    BY <1>1 DEF Born
  <2> QED
    BY <1>0, <2>1
<1>2. CASE \E c \in Child, what \in Pending : child' = [child EXCEPT ![c] = what]
  <2>1. PICK c \in Child : \E what \in Pending : child' = [child EXCEPT ![c] = what]
    BY <1>2
  <2>2. Born' = Born \cup {c}
    BY <1>0, <2>1 DEF Born, Pending
  <2>3. Cardinality(Born \cup {c}) = IF c \in Born THEN Cardinality(Born) ELSE Cardinality(Born) + 1
    BY <1>0, FS_AddElement
  <2> QED
    BY <1>0, <2>2, <2>3
<1> QED
  BY <1>1, <1>2 DEF DoSpawn

\* What is counted after a step, by what the step adds.
LEMMA CountStep ==
    ASSUME TypeOK, TypeOK', RestartsAreCounted, [Next]_vars
    PROVE  RestartsAreCounted'
<1> DEFINE Born0 == Cardinality(Born)
           Born1 == Cardinality(Born')
           Timers0 == Cardinality(timers)
           Timers1 == Cardinality(timers')
           Stack0 == Cardinality(InStack(stack))
           Stack1 == Cardinality(InStack(stack'))
<1>n. /\ Born0 \in Nat /\ Born1 \in Nat /\ Timers0 \in Nat /\ Timers1 \in Nat
      /\ Stack0 \in Nat /\ Stack1 \in Nat
      /\ starts \in Nat /\ restartCount \in Nat
  <2>1. Counts /\ Counts'
    BY Finite, PTL
  <2>2. stack \in Seq(Rest) /\ stack' \in Seq(Rest)
    BY DEF TypeOK
  <2>3. Stack0 \in Nat /\ Stack1 \in Nat
    BY <2>2, StackFinite
  <2> QED
    BY <2>1, <2>3 DEF Counts
<1>f. IsFiniteSet(timers)
  BY Finite DEF Counts
<1>p. Promised = InStack(stack) /\ Promised' = InStack(stack')
  <2>1. DOMAIN stack = 1 .. Len(stack) /\ DOMAIN stack' = 1 .. Len(stack')
    BY LenProperties DEF TypeOK
  <2> QED
    BY <2>1 DEF Promised, InStack
<1>i. Born0 + Timers0 + Stack0 <= starts + restartCount
  BY <1>p DEF RestartsAreCounted
<1> SUFFICES Born1 + Timers1 + Stack1 <= starts' + restartCount'
  BY <1>p DEF RestartsAreCounted
<1>0. child \in [Child -> Statuses] /\ stack \in Seq(Rest)
      /\ Rest = {"term", "kill", "spawn", "schedule", "arm"}
  BY DEF TypeOK, Statuses, Rest, Signals
<1>s. ASSUME \A c \in Child : child'[c] = "none" <=> child[c] = "none"
      PROVE  Born1 = Born0
  <2>1. Born' = Born
    BY <1>s DEF Born
  <2> QED
    BY <2>1
<1>t. ASSUME timers' = timers
      PROVE  Timers1 = Timers0
  BY <1>t
<1>k. ASSUME stack' = stack
      PROVE  Stack1 = Stack0
  BY <1>k
<1>r. ASSUME NEW r \in Rest, Resumes(r), stack' = Front(stack)
      PROVE  Stack1 = Stack0 - IF r \in {"spawn", "arm"} THEN 1 ELSE 0
  BY <1>0, <1>r, StackPopped DEF Resumes
<1> HIDE DEF Born0, Born1, Timers0, Timers1, Stack0, Stack1
<1>1. CASE Start
  <2>1. Born1 = Born0 /\ Timers1 = Timers0 /\ starts' = starts + 1 /\ restartCount' = restartCount
    BY <1>1, <1>s, <1>t DEF Start
  <2>2. Stack1 = Stack0 + 1
    BY <1>0, <1>1, StackPushed DEF Start, Stack0, Stack1
  <2> QED
    BY <1>i, <1>n, <2>1, <2>2
<1>2. CASE Spawn
  <2>1. Born1 <= Born0 + 1
    BY <1>2, SpawnMakesOne DEF Spawn, Born0, Born1
  <2>2. Timers1 = Timers0 /\ starts' = starts /\ restartCount' = restartCount
    BY <1>2, <1>t DEF Spawn, calls
  <2>3. Stack1 = Stack0 - 1
    BY <1>0, <1>2, <1>r DEF Spawn
  <2> QED
    BY <1>i, <1>n, <2>1, <2>2, <2>3
<1>3. CASE ScheduleRestart
  <2>1. Born1 = Born0 /\ Timers1 = Timers0 /\ starts' = starts
    BY <1>3, <1>s, <1>t DEF ScheduleRestart, calls
  <2>2. CASE stack' = Front(stack) /\ restartCount' = restartCount
    <3>1. Stack1 = Stack0
      BY <1>0, <1>3, <1>n, <1>r, <2>2 DEF ScheduleRestart
    <3> QED
      BY <1>i, <1>n, <2>1, <2>2, <3>1
  <2>3. CASE stack' = Append(Front(stack), "arm") /\ restartCount' = restartCount + 1
    <3>1. stack # <<>> /\ Last(stack) = "schedule"
      BY <1>3 DEF ScheduleRestart, Resumes
    <3>2. Cardinality(InStack(Front(stack))) = Stack0 /\ Front(stack) \in Seq(Rest)
      BY <1>0, <1>n, <3>1, StackPopped, Popped DEF Stack0
    <3>3. Stack1 = Stack0 + 1
      BY <1>0, <2>3, <3>2, StackPushed DEF Stack1
    <3> QED
      BY <1>i, <1>n, <2>1, <2>3, <3>3
  <2> QED
    BY <1>3, <2>2, <2>3 DEF ScheduleRestart, Counted
<1>4. CASE ArmRestart
  <2>1. Born1 = Born0 /\ starts' = starts /\ restartCount' = restartCount
    BY <1>4, <1>s DEF ArmRestart, calls
  <2>2. Timers1 <= Timers0 + 1
    <3>1. timers' = timers \cup {restartCount}
      BY <1>4 DEF ArmRestart
    <3>2. Cardinality(timers \cup {restartCount}) =
              IF restartCount \in timers THEN Cardinality(timers) ELSE Cardinality(timers) + 1
      BY <1>f, FS_AddElement
    <3>3. Timers1 = IF restartCount \in timers THEN Timers0 ELSE Timers0 + 1
      BY <3>1, <3>2 DEF Timers0, Timers1
    <3> QED
      BY <1>n, <3>3
  <2>3. Stack1 = Stack0 - 1
    BY <1>0, <1>4, <1>r DEF ArmRestart
  <2> QED
    BY <1>i, <1>n, <2>1, <2>2, <2>3
<1>5. ASSUME NEW signal \in Signals, Signal(signal)
      PROVE  Born1 + Timers1 + Stack1 <= starts' + restartCount'
  <2>1. Born1 = Born0 /\ Timers1 = Timers0 /\ starts' = starts /\ restartCount' = restartCount
    BY <1>5, <1>s, <1>t DEF Signal, calls
  <2>2. Stack1 = Stack0
    BY <1>0, <1>5, <1>n, <1>r DEF Signal, Signals
  <2> QED
    BY <1>i, <1>n, <2>1, <2>2
<1>6. ASSUME NEW r \in 1 .. MaxRestarts, RestartTimer(r)
      PROVE  Born1 + Timers1 + Stack1 <= starts' + restartCount'
  <2>1. Timers1 = Timers0 - 1
    BY <1>6, <1>f, FS_RemoveElement DEF RestartTimer, Timers0, Timers1
  <2>2. Born1 <= Born0 + 1
    <3>1. CASE Wanted
      BY <1>6, <3>1, SpawnMakesOne DEF RestartTimer, Born0, Born1
    <3>2. CASE ~Wanted
      <4>1. Born1 = Born0
        BY <1>6, <1>s, <3>2 DEF RestartTimer
      <4> QED
        BY <1>n, <4>1
    <3> QED
      BY <3>1, <3>2
  <2>3. Stack1 = Stack0 /\ UNCHANGED <<starts, restartCount>>
    BY <1>6, <1>k DEF RestartTimer, calls
  <2> QED
    BY <1>i, <1>n, <2>1, <2>2, <2>3
<1>7. ASSUME NEW signal \in Signals, Stop(signal)
      PROVE  Born1 + Timers1 + Stack1 <= starts' + restartCount'
  <2>1. Born1 = Born0 /\ UNCHANGED <<starts, restartCount>>
    BY <1>7, <1>s DEF Stop
  <2>2. Timers1 <= Timers0
    <3>1. timers' \in SUBSET timers
      BY <1>7 DEF Stop, PendingAfterStop
    <3> QED
      BY <1>f, <3>1, FS_Subset DEF Timers0, Timers1
  <2>3. Stack1 = Stack0
    <3>1. CASE stack' = stack
      BY <1>k, <3>1
    <3>2. CASE stack' = Append(stack, signal)
      BY <1>0, <1>n, <3>2, StackPushed DEF Signals, Stack0, Stack1
    <3> QED
      BY <1>7, <3>1, <3>2 DEF Stop
  <2> QED
    BY <1>i, <1>n, <2>1, <2>2, <2>3
<1>8. ASSUME UNCHANGED <<timers, starts, restartCount>>,
             stack' = stack \/ (stack = <<>> /\ stack' = <<"schedule">>),
             \A c \in Child : child'[c] = "none" <=> child[c] = "none"
      PROVE  Born1 + Timers1 + Stack1 <= starts' + restartCount'
  <2>1. Born1 = Born0 /\ Timers1 = Timers0
    BY <1>8, <1>s, <1>t
  <2>2. Stack1 = Stack0
    <3>1. CASE stack' = stack
      BY <1>k, <3>1
    <3>2. CASE stack = <<>> /\ stack' = <<"schedule">>
      <4>1. InStack(stack') = InStack(stack)
        BY <3>2 DEF InStack
      <4> QED
        BY <4>1 DEF Stack0, Stack1
    <3> QED
      BY <1>8, <3>1, <3>2
  <2> QED
    BY <1>8, <1>i, <1>n, <2>1, <2>2
<1>9. ASSUME NEW c \in Child, Event(c) \/ Dies(c)
      PROVE  Born1 + Timers1 + Stack1 <= starts' + restartCount'
  <2>1. UNCHANGED <<timers, starts, restartCount>>
        /\ (stack' = stack \/ (stack = <<>> /\ stack' = <<"schedule">>))
    BY <1>9 DEF Event, Spawned, SpawnError, Close, Dies, calls, Idle
  <2>2. child[c] # "none" /\ child'[c] # "none" /\ \A x \in Child : x # c => child'[x] = child[x]
    BY <1>0, <1>9 DEF Event, Spawned, SpawnError, Close, Dies, Over, Came
  <2> QED
    BY <1>8, <2>1, <2>2
<1>10. ASSUME NEW c \in Child, ForceTimer(c)
       PROVE  Born1 + Timers1 + Stack1 <= starts' + restartCount'
  BY <1>8, <1>10 DEF ForceTimer, calls
<1>11. CASE UNCHANGED vars
  BY <1>8, <1>11 DEF vars, calls
<1> QED
  BY <1>1, <1>2, <1>3, <1>4, <1>5, <1>6, <1>7, <1>9, <1>10, <1>11 DEF Next, Resume, Timeout

\* Whoever calls start and stop: there are no more children, pending restarts and
\* promised children than calls of start and restarts counted.
THEOREM CountCorrect == Spec => []RestartsAreCounted
<1>1. Init => RestartsAreCounted
  <2> SUFFICES ASSUME Init
               PROVE  RestartsAreCounted
    OBVIOUS
  <2>1. Born = {} /\ timers = {} /\ Promised = {} /\ starts = 0 /\ restartCount = 0
    BY DEF Init, Born, Promised
  <2> QED
    BY <2>1, FS_EmptySet DEF RestartsAreCounted
<1>2. TypeOK /\ TypeOK' /\ RestartsAreCounted /\ [Next]_vars => RestartsAreCounted'
  BY CountStep
<1> QED
  BY <1>1, <1>2, TypeCorrect, PTL DEF Spec
=============================================================================
