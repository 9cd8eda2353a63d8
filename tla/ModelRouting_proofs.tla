------------------------- MODULE ModelRouting_proofs -------------------------
(***************************************************************************)
(* Proofs about ModelRouting, for every set of providers, calls and routes *)
(* and every threshold and timeout.                                        *)
(***************************************************************************)
EXTENDS ModelRouting, TLAPS

\* The inductive invariant: the types, the agreement of a circuit's fields,
\* and the quiet that probing needs (which is what keeps a circuit that
\* leaves OPEN from carrying a young failure).
IInv == TypeOK /\ CircuitConsistent /\ ProbingIsQuiet

\* The same facts, of one circuit.
Sound(c) ==
    /\ c \in Circuit
    /\ c.state = "closed" => c.failure_count < FailureThreshold
    /\ c.state # "closed" => c.failure_count = FailureThreshold /\ c.elapsed # Never
    /\ c.state = "half_open" => c.elapsed = RecoveryTimeout

\* IInv says of the breakers exactly that each circuit is sound; the proofs
\* below use it in this form.
LEMMA InvariantPerCircuit ==
    IInv <=> /\ circuit \in [Providers -> Circuit]
             /\ \A p \in Providers : Sound(circuit[p])
             /\ call \in [Calls -> CallState]
             /\ healthy \subseteq Providers
BY DEF IInv, TypeOK, CircuitConsistent, ProbingIsQuiet, Sound

\* Each method of ProviderCircuit (is_available when it lets a call through,
\* record_success, record_failure) takes a sound circuit to a sound circuit.
LEMMA MethodsKeepSound ==
    ASSUME NEW c, Sound(c)
    PROVE  /\ IsAvailable(c) => Sound(AfterCheck(c))
           /\ Sound(RecordSuccess(c))
           /\ Sound(RecordFailure(c))
<1>1. IsAvailable(c) => Sound(AfterCheck(c))
  BY TimeoutAssumption DEF Sound, Circuit, CircuitStates, IsAvailable, AfterCheck, Never
<1>2. Sound(RecordSuccess(c))
  BY ThresholdAssumption DEF Sound, Circuit, CircuitStates, RecordSuccess, Never
<1>3. Sound(RecordFailure(c))
  BY ThresholdAssumption, TimeoutAssumption
  DEF Sound, Circuit, CircuitStates, RecordFailure, CountedUp, Never
<1>4. QED
  BY <1>1, <1>2, <1>3

\* The passing of time takes a sound circuit to a sound circuit.
LEMMA TimeKeepsSound ==
    ASSUME NEW c, Sound(c)
    PROVE  Sound([c EXCEPT !.elapsed =
                    IF @ = Never \/ @ = RecoveryTimeout THEN @ ELSE @ + 1])
BY TimeoutAssumption DEF Sound, Circuit, CircuitStates, Never

\* The breakers start CLOSED and no call is running.
LEMMA InitEstablishes == Init => IInv
<1> SUFFICES ASSUME Init PROVE IInv
  OBVIOUS
<1> DEFINE Fresh == [state |-> "closed", failure_count |-> 0, elapsed |-> Never]
<1>0. Sound(Fresh)
  BY ThresholdAssumption DEF Sound, Circuit, CircuitStates, Never
<1>1. \A p \in Providers : Sound(circuit[p])
  BY <1>0 DEF Init
<1>2. circuit \in [Providers -> Circuit]
  BY <1>0 DEF Init, Sound
<1>3. call \in [Calls -> CallState]
  BY DEF Init, CallState, IdleCall
<1>4. QED
  BY <1>1, <1>2, <1>3, InvariantPerCircuit DEF Init

\* Every step keeps every circuit sound.
LEMMA NextPreserves == IInv /\ [Next]_vars => IInv'
<1> SUFFICES ASSUME IInv, [Next]_vars PROVE IInv'
  OBVIOUS
<1> USE InvariantPerCircuit
<1>p. /\ circuit' \in [Providers -> Circuit]
      /\ \A p \in Providers : Sound(circuit'[p])
      /\ call' \in [Calls -> CallState]
      /\ healthy' \subseteq Providers
      => IInv'
  BY DEF IInv, TypeOK, CircuitConsistent, ProbingIsQuiet, Sound
<1>1. ASSUME NEW k \in Calls, NEW route \in Routes, StartCall(k, route)
      PROVE  IInv'
  <2>1. PICK i \in DOMAIN route :
          /\ Chosen(route, i)
          /\ circuit' = [circuit EXCEPT ![route[i]] = AfterCheck(circuit[route[i]])]
          /\ call' = [call EXCEPT ![k] =
                        [pc       |-> "invoking",
                         provider |-> route[i],
                         probe    |-> AfterCheck(circuit[route[i]]).state = "half_open"]]
    BY <1>1 DEF StartCall
  <2>2. route[i] \in Providers /\ IsAvailable(circuit[route[i]])
    BY <2>1, ProviderAssumption DEF Chosen, Usable
  <2>3. Sound(AfterCheck(circuit[route[i]]))
    BY <2>2, MethodsKeepSound
  <2>4. \A p \in Providers : Sound(circuit'[p])
    BY <2>1, <2>2, <2>3
  <2>5. circuit' \in [Providers -> Circuit]
    BY <2>1, <2>2, <2>3 DEF Sound
  <2>6. call' \in [Calls -> CallState]
    BY <2>1, <2>2 DEF CallState
  <2>7. QED
    BY <2>4, <2>5, <2>6, <1>1, <1>p DEF StartCall
<1>2. ASSUME NEW k \in Calls, NEW route \in Routes, Refuse(k, route)
      PROVE  IInv'
  <2>1. call' \in [Calls -> CallState]
    BY <1>2 DEF Refuse, CallState
  <2>2. QED
    BY <2>1, <1>2, <1>p DEF Refuse
<1>3. ASSUME NEW k \in Calls, CallSucceeds(k)
      PROVE  IInv'
  <2>1. call[k].provider \in Providers
    BY <1>3 DEF CallSucceeds
  <2>2. Sound(RecordSuccess(circuit[call[k].provider]))
    BY <2>1, MethodsKeepSound
  <2>3. \A p \in Providers : Sound(circuit'[p])
    BY <1>3, <2>1, <2>2 DEF CallSucceeds
  <2>4. circuit' \in [Providers -> Circuit]
    BY <1>3, <2>1, <2>2 DEF CallSucceeds, Sound
  <2>5. call' \in [Calls -> CallState]
    BY <1>3 DEF CallSucceeds, CallState, IdleCall
  <2>6. QED
    BY <2>3, <2>4, <2>5, <1>3, <1>p DEF CallSucceeds
<1>4. ASSUME NEW k \in Calls, CallFails(k)
      PROVE  IInv'
  <2>1. call[k].provider \in Providers \cup {NoProvider}
    BY <1>4 DEF CallState
  <2>2. \A p \in Providers : Sound(RecordFailure(circuit[p]))
    BY MethodsKeepSound
  <2>3. \A p \in Providers : Sound(circuit'[p])
    BY <1>4, <2>2 DEF CallFails
  <2>4. circuit' \in [Providers -> Circuit]
    BY <1>4, <2>2 DEF CallFails, Sound
  <2>5. call' \in [Calls -> CallState]
    BY <1>4 DEF CallFails, CallState, IdleCall
  <2>6. QED
    BY <2>3, <2>4, <2>5, <1>4, <1>p DEF CallFails
<1>5. ASSUME NEW k \in Calls, CallCancelled(k)
      PROVE  IInv'
  <2>1. call' \in [Calls -> CallState]
    BY <1>5 DEF CallCancelled, CallState, IdleCall
  <2>2. QED
    BY <2>1, <1>5, <1>p DEF CallCancelled
<1>6. ASSUME Tick
      PROVE  IInv'
  <2>1. \A p \in Providers : Sound(circuit'[p])
    BY <1>6, TimeKeepsSound DEF Tick
  <2>2. circuit' \in [Providers -> Circuit]
    BY <1>6, <2>1 DEF Tick, Sound
  <2>3. QED
    BY <2>1, <2>2, <1>6, <1>p DEF Tick
<1>7. ASSUME NEW p \in Providers, Outage(p) \/ Repair(p)
      PROVE  IInv'
  BY <1>7, <1>p DEF Outage, Repair
<1>8. CASE UNCHANGED vars
  BY <1>8, <1>p DEF vars
<1>9. QED
  BY <1>1, <1>2, <1>3, <1>4, <1>5, <1>6, <1>7, <1>8 DEF Next

\* Every reachable state satisfies the invariant.
THEOREM InvariantHolds == Spec => []IInv
<1>1. QED
  BY InitEstablishes, NextPreserves, PTL DEF Spec

\* The types hold in every reachable state, for every instance.
THEOREM TypeCorrect == Spec => []TypeOK
<1>1. IInv => TypeOK
  BY DEF IInv
<1>2. QED
  BY <1>1, InvariantHolds, PTL

\* No order of late answers makes a circuit contradict itself: an OPEN circuit
\* always knows when it failed, so it can always be probed again.
THEOREM CircuitsConsistent == Spec => []CircuitConsistent
<1>1. IInv => CircuitConsistent
  BY DEF IInv
<1>2. QED
  BY <1>1, InvariantHolds, PTL

\* A provider under probe has been free of recorded failures for the whole
\* recovery timeout.
THEOREM ProbingQuiet == Spec => []ProbingIsQuiet
<1>1. IInv => ProbingIsQuiet
  BY DEF IInv
<1>2. QED
  BY <1>1, InvariantHolds, PTL

\* Every call goes to the first entry of its route that has a key and is not
\* inside a recovery window.
THEOREM PriorityRouting == Spec => RoutesByPriority
<1> DEFINE First(k, route) ==
             \E i \in DOMAIN route :
               /\ call'[k].provider = route[i]
               /\ circuit[route[i]].state = "open" =>
                    circuit[route[i]].elapsed = RecoveryTimeout
               /\ \A j \in 1..(i - 1) :
                    route[j] \in Configured =>
                      /\ circuit[route[j]].state = "open"
                      /\ circuit[route[j]].elapsed < RecoveryTimeout
           Step == \A k \in Calls, route \in Routes :
                     StartCall(k, route) => First(k, route)
<1>1. ASSUME IInv, NEW k \in Calls, NEW route \in Routes, StartCall(k, route)
      PROVE  First(k, route)
  <2>1. PICK i \in DOMAIN route :
          /\ Chosen(route, i)
          /\ call' = [call EXCEPT ![k] =
                        [pc       |-> "invoking",
                         provider |-> route[i],
                         probe    |-> AfterCheck(circuit[route[i]]).state = "half_open"]]
    BY <1>1 DEF StartCall
  <2>2. \A p \in Providers : Sound(circuit[p])
    BY <1>1, InvariantPerCircuit
  <2>3. DOMAIN route = 1..Len(route) /\ \A j \in DOMAIN route : route[j] \in Providers
    BY ProviderAssumption
  <2>4. call'[k].provider = route[i]
    BY <2>1, <1>1 DEF IInv, TypeOK
  <2>5. circuit[route[i]].state = "open" => circuit[route[i]].elapsed = RecoveryTimeout
    BY <2>1, <2>2, <2>3, TimeoutAssumption
    DEF Chosen, Usable, IsAvailable, Sound, Circuit, Never
  <2>6. ASSUME NEW j \in 1..(i - 1), route[j] \in Configured
        PROVE  /\ circuit[route[j]].state = "open"
               /\ circuit[route[j]].elapsed < RecoveryTimeout
    <3>1. j \in DOMAIN route /\ ~(i <= j)
      BY <2>3
    <3>2. ~IsAvailable(circuit[route[j]])
      BY <3>1, <2>1, <2>6 DEF Chosen, Usable
    <3>3. Sound(circuit[route[j]])
      BY <3>1, <2>2, <2>3
    <3>4. QED
      BY <3>2, <3>3, TimeoutAssumption DEF IsAvailable, Sound, Circuit, Never
  <2>7. QED
    BY <2>4, <2>5, <2>6
<1>2. IInv /\ [Next]_vars => [Step]_vars
  BY <1>1
<1>3. QED
  BY <1>2, InvariantHolds, PTL DEF Spec, RoutesByPriority
=============================================================================
