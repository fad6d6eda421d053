---------------------------- MODULE CircuitBreaker ----------------------------
(***************************************************************************)
(* The circuit breaker of one dependency, the calls that go through it and *)
(* the operator who resets it.                                             *)
(*                                                                         *)
(* A call's code before the await on the dependency is one step, and so is *)
(* its code after it; between the two any number of other calls may run.   *)
(* A call that fails has used up the attempts of its caller's retries.     *)
(***************************************************************************)
EXTENDS Integers, FiniteSets

CONSTANTS BreakerCalls,       \* calls that may be in flight at once
          FailureThreshold,   \* failureThreshold
          SuccessThreshold,   \* successThreshold
          HalfOpenMaxProbes,  \* halfOpenMaxProbes
          MaxResets           \* bound: manual resets

ASSUME BreakerAssumption ==
    /\ FailureThreshold \in Nat \ {0} /\ SuccessThreshold \in Nat \ {0}
    /\ HalfOpenMaxProbes \in Nat \ {0} /\ MaxResets \in Nat
ASSUME BreakerCallsAssumption == IsFiniteSet(BreakerCalls)

VARIABLES circuit,   \* the entry of the map circuits
          flight,    \* each call
          resets     \* manual resets so far

breakerVars == <<circuit, flight, resets>>

CircuitStates == {"CLOSED", "OPEN", "HALF_OPEN"}

\* failures matters up to the threshold only and is counted up to it;
\* rested: recoveryTimeMs have passed since openedAt.
CircuitStats == [state : CircuitStates, failures : 0..FailureThreshold, successes : Nat,
                 probesInFlight : Nat, rested : BOOLEAN]

\* getOrCreate; getState answers CLOSED for a circuit that is not in the map.
NewCircuit == [state |-> "CLOSED", failures |-> 0, successes |-> 0, probesInFlight |-> 0,
               rested |-> FALSE]

\* detached: reset removed from the map the circuit that the call holds on to.
BreakerCall == [at : {"idle", "calling"}, probe : BOOLEAN, detached : BOOLEAN]
NoCall == [at |-> "idle", probe |-> FALSE, detached |-> FALSE]

BreakerTypeOK ==
    /\ circuit \in CircuitStats
    /\ flight \in [BreakerCalls -> BreakerCall]
    /\ resets \in 0..MaxResets

BreakerInit ==
    /\ circuit = NewCircuit
    /\ flight = [c \in BreakerCalls |-> NoCall]
    /\ resets = 0

Probes == {c \in BreakerCalls : flight[c].at = "calling" /\ flight[c].probe /\ ~flight[c].detached}

-----------------------------------------------------------------------------
\* execute up to the await: an OPEN circuit that rested becomes HALF_OPEN, even if
\* the call is then rejected because the probes are all out.
Admitting ==
    IF circuit.state = "OPEN" /\ circuit.rested THEN [circuit EXCEPT !.state = "HALF_OPEN"]
                                                ELSE circuit

\* The call goes to the dependency, as a probe if the circuit is HALF_OPEN.
CallThrough(c) ==
    /\ flight[c].at = "idle" /\ Admitting.state # "OPEN"
    /\ LET probe == Admitting.state = "HALF_OPEN"
       IN  /\ probe => Admitting.probesInFlight < HalfOpenMaxProbes
           /\ circuit' = [Admitting EXCEPT !.probesInFlight = IF probe THEN @ + 1 ELSE @]
           /\ flight' = [flight EXCEPT ![c] = [at |-> "calling", probe |-> probe, detached |-> FALSE]]
    /\ UNCHANGED resets

\* The call is rejected without touching the dependency.
CallRejected(c) ==
    /\ flight[c].at = "idle"
    /\ \/ Admitting.state = "OPEN"
       \/ Admitting.state = "HALF_OPEN" /\ Admitting.probesInFlight >= HalfOpenMaxProbes
    /\ circuit' = Admitting
    /\ UNCHANGED <<flight, resets>>

\* The finally block: a probe gives its slot back.
SlotFreed(c, k) ==
    IF flight[c].probe /\ k.probesInFlight > 0 THEN [k EXCEPT !.probesInFlight = @ - 1] ELSE k

OnSuccess(k) ==
    IF k.state # "HALF_OPEN" THEN [k EXCEPT !.failures = 0]
    ELSE IF k.successes + 1 < SuccessThreshold
         THEN [k EXCEPT !.failures = 0, !.successes = @ + 1]
         ELSE [k EXCEPT !.failures = 0, !.successes = 0, !.state = "CLOSED"]

\* In any state but HALF_OPEN, OPEN included, a failure at the threshold (re)opens.
OnFailure(k) ==
    LET counted == [k EXCEPT !.failures = IF @ < FailureThreshold THEN @ + 1 ELSE @]
    IN  IF k.state = "HALF_OPEN"
        THEN [counted EXCEPT !.state = "OPEN", !.successes = 0, !.rested = FALSE]
        ELSE IF counted.failures >= FailureThreshold
             THEN [counted EXCEPT !.state = "OPEN", !.rested = FALSE]
             ELSE counted

\* The circuit a detached call changes is no longer anyone's.
Settles(c, after) ==
    /\ circuit' = IF flight[c].detached THEN circuit ELSE after
    /\ flight' = [flight EXCEPT ![c] = NoCall]
    /\ UNCHANGED resets

CallSucceeds(c) ==
    /\ flight[c].at = "calling"
    /\ Settles(c, SlotFreed(c, OnSuccess(circuit)))

\* Mutant: a probe that failed keeps its slot.
CallFailsKeepsSlot(c) ==
    /\ flight[c].at = "calling"
    /\ Settles(c, OnFailure(circuit))

CallFails(c) ==
    /\ flight[c].at = "calling"
    /\ Settles(c, SlotFreed(c, OnFailure(circuit)))

\* reset: the circuit leaves the map; the calls in flight keep the old one.
Reset ==
    /\ resets < MaxResets
    /\ circuit' = NewCircuit
    /\ flight' = [c \in BreakerCalls |->
                    IF flight[c].at = "calling" THEN [flight[c] EXCEPT !.detached = TRUE]
                                                ELSE flight[c]]
    /\ resets' = resets + 1

\* Date.now() (external) reaches openedAt + recoveryTimeMs.
RecoveryTimePasses ==
    /\ circuit.state = "OPEN" /\ ~circuit.rested
    /\ circuit' = [circuit EXCEPT !.rested = TRUE]
    /\ UNCHANGED <<flight, resets>>

CallerStep(c) == CallThrough(c) \/ CallRejected(c) \/ CallSucceeds(c) \/ CallFails(c)

BreakerNext ==
    \/ \E c \in BreakerCalls : CallerStep(c)
    \/ Reset \/ RecoveryTimePasses

BreakerSpec == BreakerInit /\ [][BreakerNext]_breakerVars

-----------------------------------------------------------------------------
\* probesInFlight counts exactly the probes at the dependency, over any number of
\* openings, and never exceeds halfOpenMaxProbes: no stampede, no slot lost.  The
\* calls that a manual reset cut off are not counted.
ProbesBounded ==
    /\ circuit.probesInFlight = Cardinality(Probes)
    /\ Cardinality(Probes) <= HalfOpenMaxProbes

\* A recovery takes successThreshold successes: it starts from none, each counts once,
\* and a circuit leaves HALF_OPEN for CLOSED with the last of them or by a manual
\* reset.  Successes of calls that began before the recovery count as well, as
\* onSuccess does not ask which call it is told of.
RecoveryTakesSuccesses ==
    [][/\ circuit.state # "HALF_OPEN" /\ circuit'.state = "HALF_OPEN" => circuit'.successes = 0
       /\ circuit'.successes > circuit.successes =>
             /\ circuit.state = "HALF_OPEN" /\ circuit'.successes = circuit.successes + 1
             /\ \E c \in BreakerCalls : CallSucceeds(c)
       /\ circuit.state = "HALF_OPEN" /\ circuit'.state = "CLOSED" =>
             \/ Reset
             \/ /\ circuit.successes + 1 = SuccessThreshold
                /\ \E c \in BreakerCalls : CallSucceeds(c)]_breakerVars
=============================================================================
