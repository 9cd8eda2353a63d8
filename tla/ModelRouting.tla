---------------------------- MODULE ModelRouting ----------------------------
(***************************************************************************)
(* LLM routing: the per-provider circuit breakers of                       *)
(* llm/circuit_breaker.py, the priority walk of ModelManager               *)
(* (llm/manager.py) and the call protocol of BaseAgent.__call__            *)
(* (agents/base.py), which awaits the provider between choosing a circuit  *)
(* and reporting to it.                                                    *)
(*                                                                         *)
(* Any number of agents of one process share the breakers.  A breaker      *)
(* method runs without an await, so it is one atomic step; the call to the *)
(* provider is the only point at which agents interleave.                  *)
(*                                                                         *)
(* Time is the number of ticks since the last recorded failure, saturated  *)
(* at RecoveryTimeout, and failure_count stops at FailureThreshold: the    *)
(* code only ever compares the one with recovery_timeout and the other     *)
(* with failure_threshold, so nothing above either can be told apart.      *)
(***************************************************************************)
EXTENDS Integers, Sequences

CONSTANTS
    Providers,          \* ProviderName
    Routes,             \* the values of ROUTING_TABLE: sequences of providers
    Configured,         \* providers with an API key
    Calls,              \* agent calls that may be running at the same time
    FailureThreshold,   \* DEFAULT_FAILURE_THRESHOLD
    RecoveryTimeout,    \* DEFAULT_RECOVERY_TIMEOUT, in ticks
    NoProvider          \* "no provider chosen"

ASSUME ThresholdAssumption == FailureThreshold \in Nat \ {0}
ASSUME TimeoutAssumption   == RecoveryTimeout \in Nat \ {0}
ASSUME ProviderAssumption  == /\ Configured \subseteq Providers
                              /\ Routes \subseteq Seq(Providers)
                              /\ NoProvider \notin Providers

VARIABLES
    circuit,    \* _circuits: provider -> ProviderCircuit
    call,       \* call -> the local state of BaseAgent.__call__
    healthy     \* the providers that are answering (the environment)

vars == <<circuit, call, healthy>>

Never == -1     \* last_failure_time is None

CircuitStates == {"closed", "open", "half_open"}

Circuit == [state         : CircuitStates,
            failure_count : 0..FailureThreshold,
            elapsed       : {Never} \cup 0..RecoveryTimeout]

\* probe: the circuit was HALF_OPEN when the call was let through.
CallState == [pc       : {"idle", "invoking", "unavailable"},
              provider : Providers \cup {NoProvider},
              probe    : BOOLEAN]

IdleCall == [pc |-> "idle", provider |-> NoProvider, probe |-> FALSE]

Init ==
    /\ circuit = [p \in Providers |->
                    [state |-> "closed", failure_count |-> 0, elapsed |-> Never]]
    /\ call = [k \in Calls |-> IdleCall]
    /\ healthy = Providers

-----------------------------------------------------------------------------
\* ProviderCircuit

IsAvailable(c) ==
    \/ c.state # "open"
    \/ c.elapsed # Never /\ c.elapsed >= RecoveryTimeout

\* is_available leaves HALF_OPEN behind when it lets an OPEN circuit through.
AfterCheck(c) == [c EXCEPT !.state = IF @ = "open" THEN "half_open" ELSE @]

\* A mutant: a probe that succeeds is not taken for a recovery.
RecordSuccessKeepsProbing(c) ==
    IF c.state = "half_open" THEN c
    ELSE [state |-> "closed", failure_count |-> 0, elapsed |-> Never]

\* A mutant: the counter survives a success.
RecordSuccessKeepsCount(c) == [c EXCEPT !.state = "closed", !.elapsed = Never]

RecordSuccess(c) == [state |-> "closed", failure_count |-> 0, elapsed |-> Never]

\* failure_count += 1
CountedUp(n) == IF n < FailureThreshold THEN n + 1 ELSE FailureThreshold

\* A mutant: a failed probe is counted but leaves the circuit HALF_OPEN.
RecordFailureKeepsProbing(c) ==
    [state |-> IF c.state = "closed" /\ c.failure_count + 1 >= FailureThreshold
               THEN "open" ELSE c.state,
     failure_count |-> CountedUp(c.failure_count),
     elapsed |-> 0]

RecordFailure(c) ==
    [state |-> IF \/ c.state = "half_open"
                  \/ c.state = "closed" /\ c.failure_count + 1 >= FailureThreshold
               THEN "open" ELSE c.state,
     failure_count |-> CountedUp(c.failure_count),
     elapsed |-> 0]

-----------------------------------------------------------------------------
\* ModelManager.get_model_with_config, called by BaseAgent.__call__

Usable(route) ==
    {i \in DOMAIN route : /\ route[i] \in Configured
                          /\ IsAvailable(circuit[route[i]])}

\* A mutant: the walk keeps the last usable entry.
ChosenLast(route, i) == i \in Usable(route) /\ \A j \in Usable(route) : j <= i

Chosen(route, i) == i \in Usable(route) /\ \A j \in Usable(route) : i <= j

\* The entries skipped before i answer FALSE and so keep their circuits.
StartCall(k, route) ==
    /\ call[k].pc # "invoking"
    /\ \E i \in DOMAIN route :
         LET c == circuit[route[i]]
         IN  /\ Chosen(route, i)
             /\ circuit' = [circuit EXCEPT ![route[i]] = AfterCheck(c)]
             /\ call' = [call EXCEPT ![k] =
                           [pc       |-> "invoking",
                            provider |-> route[i],
                            probe    |-> AfterCheck(c).state = "half_open"]]
    /\ UNCHANGED healthy

\* LLM_ALL_PROVIDERS_UNAVAILABLE
Refuse(k, route) ==
    /\ call[k].pc = "idle"
    /\ Usable(route) = {}
    /\ call' = [call EXCEPT ![k].pc = "unavailable"]
    /\ UNCHANGED <<circuit, healthy>>

-----------------------------------------------------------------------------
\* The end of BaseAgent.__call__

\* The provider answers: manager.record_success.
CallSucceeds(k) ==
    /\ call[k].pc = "invoking"
    /\ call[k].provider \in healthy
    /\ circuit' = [circuit EXCEPT ![call[k].provider] = RecordSuccess(@)]
    /\ call' = [call EXCEPT ![k] = IdleCall]
    /\ UNCHANGED healthy

\* Either except clause: manager.record_failure, then LLMProviderError.
CallFails(k) ==
    /\ call[k].pc = "invoking"
    /\ call[k].provider \notin healthy
    /\ circuit' = [circuit EXCEPT ![call[k].provider] = RecordFailure(@)]
    /\ call' = [call EXCEPT ![k] = IdleCall]
    /\ UNCHANGED healthy

\* CancelledError (the client went away) passes both except clauses: the
\* breaker hears nothing of the call.
CallCancelled(k) ==
    /\ call[k].pc = "invoking"
    /\ call' = [call EXCEPT ![k] = IdleCall]
    /\ UNCHANGED <<circuit, healthy>>

-----------------------------------------------------------------------------
\* The environment

\* time.monotonic() advances for every circuit at once.
Tick ==
    /\ circuit' = [p \in Providers |->
                     [circuit[p] EXCEPT !.elapsed =
                        IF @ = Never \/ @ = RecoveryTimeout THEN @ ELSE @ + 1]]
    /\ circuit' # circuit
    /\ UNCHANGED <<call, healthy>>

Outage(p) ==
    /\ p \in healthy
    /\ healthy' = healthy \ {p}
    /\ UNCHANGED <<circuit, call>>

Repair(p) ==
    /\ p \notin healthy
    /\ healthy' = healthy \cup {p}
    /\ UNCHANGED <<circuit, call>>

-----------------------------------------------------------------------------
Next ==
    \/ \E k \in Calls, route \in Routes : StartCall(k, route) \/ Refuse(k, route)
    \/ \E k \in Calls : CallSucceeds(k) \/ CallFails(k) \/ CallCancelled(k)
    \/ Tick
    \/ \E p \in Providers : Outage(p) \/ Repair(p)

Spec == Init /\ [][Next]_vars

(***************************************************************************)
(* Users keep sending requests of every task type, no provider has all its *)
(* calls cancelled for ever, and time passes.  Starts and answers need     *)
(* strong fairness: another request takes the slot, or a cancellation      *)
(* frees it, so they are enabled again and again rather than continuously. *)
(***************************************************************************)
Answer(k, p) == call[k].provider = p /\ (CallSucceeds(k) \/ CallFails(k))

Fairness ==
    /\ \A k \in Calls, route \in Routes : SF_vars(StartCall(k, route))
    /\ \A k \in Calls, p \in Providers : SF_vars(Answer(k, p))
    /\ WF_vars(Tick)

FairSpec == Spec /\ Fairness

-----------------------------------------------------------------------------
\* Types of the breaker records (ProviderCircuit.__init__) and of the agents'
\* local state.
TypeOK ==
    /\ circuit \in [Providers -> Circuit]
    /\ call \in [Calls -> CallState]
    /\ healthy \subseteq Providers

(***************************************************************************)
(* The three fields of a circuit agree whatever order late answers arrive  *)
(* in: a CLOSED circuit is below the threshold, and one that is not CLOSED *)
(* has reached it and knows when it last failed.  The branch of            *)
(* is_available that returns False for an OPEN circuit without a failure   *)
(* time (circuit_breaker.py:112) would block the provider for ever.        *)
(***************************************************************************)
CircuitConsistent ==
    \A p \in Providers :
      /\ circuit[p].state = "closed" => circuit[p].failure_count < FailureThreshold
      /\ circuit[p].state # "closed" => /\ circuit[p].failure_count = FailureThreshold
                                        /\ circuit[p].elapsed # Never

(***************************************************************************)
(* Once a provider is being probed, no failure of it has been recorded for *)
(* the whole recovery timeout: the failure of any call, late ones of the   *)
(* previous outage included, ends the probing and restarts the timeout.    *)
(***************************************************************************)
ProbingIsQuiet ==
    \A p \in Providers :
      circuit[p].state = "half_open" => circuit[p].elapsed = RecoveryTimeout

(***************************************************************************)
(* No fallback too early, no call into an outage: a call that starts on    *)
(* entry i of its route leaves behind only entries without an API key or   *)
(* with a failure younger than the recovery timeout, and its own provider  *)
(* has had no such failure while its circuit was not CLOSED.               *)
(***************************************************************************)
RoutesByPriority ==
    [][\A k \in Calls, route \in Routes : StartCall(k, route) =>
         \E i \in DOMAIN route :
           /\ call'[k].provider = route[i]
           /\ circuit[route[i]].state = "open" =>
                circuit[route[i]].elapsed = RecoveryTimeout
           /\ \A j \in 1..(i - 1) :
                route[j] \in Configured =>
                  /\ circuit[route[j]].state = "open"
                  /\ circuit[route[j]].elapsed < RecoveryTimeout]_vars

(***************************************************************************)
(* Traffic returns: a provider that heads some route, has a key and stays  *)
(* up from some time on ends with its circuit CLOSED for good, whatever    *)
(* calls, failures and cancellations the outage left in flight.            *)
(***************************************************************************)
TrafficReturns ==
    \A p \in Configured :
      (\E route \in Routes : Len(route) > 0 /\ route[1] = p) =>
        (<>[](p \in healthy) => <>[](circuit[p].state = "closed"))

(***************************************************************************)
(* What circuit_breaker.py says of HALF_OPEN: "allow exactly one probe     *)
(* request" (line 120), "try one request to see if the provider has        *)
(* recovered" (lines 32-33).  The code lets every caller through, and no   *)
(* run checks it.                                                          *)
(***************************************************************************)
OneProbeAtATime ==
    \A p \in Providers : \A j, k \in Calls :
      /\ call[j].pc = "invoking" /\ call[j].probe /\ call[j].provider = p
      /\ call[k].pc = "invoking" /\ call[k].probe /\ call[k].provider = p
      => j = k
=============================================================================
