--------------------------- MODULE CircuitBreaker ---------------------------
(***************************************************************************)
(* The archive reader's failover: FallbackExecutor sends a call to the     *)
(* primary source and, when that fails, to the fallback; a CircuitBreaker  *)
(* shared by all calls of a kind (block data, transaction index) sends     *)
(* them straight to the fallback after too many failures, and lets the     *)
(* primary be tried again after a recovery timeout.                        *)
(*                                                                         *)
(* The breaker is behind a read-write lock; should_use_fallback reads it   *)
(* under the read lock, gives that up, and takes the write lock to go      *)
(* half-open, so other calls run in between.  A reader without a fallback  *)
(* hands its calls to the primary and is not modelled.                     *)
(***************************************************************************)
EXTENDS Integers, FiniteSets

CONSTANTS
  Callers,           \* tasks that call the reader
  Kinds,             \* the executors of an ArchiveReader: "block", "index" or both
  FailureThreshold,  \* failure_threshold
  RecoveryTimeout,   \* recovery_timeout, in ticks
  MaxOutages         \* how often the primary goes down

VARIABLES breaker,   \* per kind: state, failure_count, time since opened_at
          caller,    \* per caller: what it waits for, of which kind
          up,        \* is the primary working
          outages,   \* how often it may still fail
          streak     \* per kind: failures recorded since the last success

vars == <<breaker, caller, up, outages, streak>>

Free == [pc |-> "free", kind |-> CHOOSE k \in Kinds : TRUE]

NewBreaker == [state |-> "Closed", failures |-> 0, age |-> 0]

(* with_fallback gives each executor a new breaker of its own *)
Init ==
  /\ breaker = [k \in Kinds |-> NewBreaker]
  /\ caller = [c \in Callers |-> Free]
  /\ up = TRUE /\ outages = MaxOutages
  /\ streak = [k \in Kinds |-> 0]

-----------------------------------------------------------------------------
(* CircuitBreaker *)

(* Has the open breaker waited its recovery timeout *)
Recovering(b) == b.age >= RecoveryTimeout

(* should_use_fallback, under the read lock *)
ShouldUseFallback(b) ==
  IF b.state = "Open" THEN IF Recovering(b) THEN "promote" ELSE "fallback" ELSE "primary"

(* ... and under the write lock *)
HalfOpen(b) == IF b.state = "Open" THEN [b EXCEPT !.state = "HalfOpen"] ELSE b

Bad_record_success(b) == IF b.state = "HalfOpen" THEN NewBreaker ELSE b
record_success(b) ==
  IF b.state = "HalfOpen" THEN NewBreaker
  ELSE [b EXCEPT !.failures = 0]

Opened(b) == [b EXCEPT !.state = "Open", !.age = 0]

(* the count itself is unbounded; beyond the threshold it does not matter  *)
Counted(b) == [b EXCEPT !.failures = IF @ < FailureThreshold THEN @ + 1 ELSE @]

record_failure(b) ==
  IF b.state = "HalfOpen" \/ (b.state = "Closed" /\ b.failures + 1 >= FailureThreshold)
    THEN Opened(Counted(b)) ELSE Counted(b)

-----------------------------------------------------------------------------
(* FallbackExecutor::execute, up to its first await *)
Call(c, k) ==
  /\ caller[c].pc = "free"
  /\ caller' = [caller EXCEPT ![c] =
       [pc |-> ShouldUseFallback(breaker[k]), kind |-> k]]
  /\ UNCHANGED <<breaker, up, outages, streak>>

(* the methods that read block data, and those that read the index *)
CallBlockData(c) == "block" \in Kinds /\ Call(c, "block")
CallIndex(c) == "index" \in Kinds /\ Call(c, "index")

Promote(c) ==
  /\ caller[c].pc = "promote"
  /\ breaker' = [breaker EXCEPT ![caller[c].kind] = HalfOpen(@)]
  /\ caller' = [caller EXCEPT ![c].pc = "primary"]
  /\ UNCHANGED <<up, outages, streak>>

(* The primary answers, as it is at that moment *)
PrimaryAnswers(c) ==
  /\ caller[c].pc = "primary"
  /\ caller' = [caller EXCEPT ![c].pc = IF up THEN "succeeded" ELSE "failed"]
  /\ UNCHANGED <<breaker, up, outages, streak>>

RecordSuccess(c) ==
  /\ caller[c].pc = "succeeded"
  /\ breaker' = [breaker EXCEPT ![caller[c].kind] = record_success(@)]
  /\ streak' = [streak EXCEPT ![caller[c].kind] = 0]
  /\ caller' = [caller EXCEPT ![c] = Free]
  /\ UNCHANGED <<up, outages>>

RecordFailure(c) ==
  /\ caller[c].pc = "failed"
  /\ breaker' = [breaker EXCEPT ![caller[c].kind] = record_failure(@)]
  /\ streak' = [streak EXCEPT ![caller[c].kind] = IF @ < FailureThreshold THEN @ + 1 ELSE @]
  /\ caller' = [caller EXCEPT ![c].pc = "fallback"]
  /\ UNCHANGED <<up, outages>>

(* The fallback answers *)
FallbackAnswers(c) ==
  /\ caller[c].pc = "fallback"
  /\ caller' = [caller EXCEPT ![c] = Free]
  /\ UNCHANGED <<breaker, up, outages, streak>>

GoDown == up /\ outages > 0 /\ up' = FALSE /\ outages' = outages - 1 /\ UNCHANGED <<breaker, caller, streak>>
ComeUp == ~up /\ up' = TRUE /\ UNCHANGED <<breaker, caller, outages, streak>>

Tick ==
  /\ \E k \in Kinds : breaker[k].state = "Open" /\ breaker[k].age < RecoveryTimeout
  /\ breaker' = [k \in Kinds |-> IF breaker[k].state = "Open" /\ breaker[k].age < RecoveryTimeout
                                   THEN [breaker[k] EXCEPT !.age = @ + 1] ELSE breaker[k]]
  /\ UNCHANGED <<caller, up, outages, streak>>

Step(c) == \/ Promote(c) \/ PrimaryAnswers(c) \/ RecordSuccess(c) \/ RecordFailure(c) \/ FallbackAnswers(c)

Next == \/ \E c \in Callers : CallBlockData(c) \/ CallIndex(c) \/ Step(c)
        \/ GoDown \/ ComeUp \/ Tick

Spec == Init /\ [][Next]_vars

(* what is weakly fair, by number: calls keep coming and end, time passes, the
   primary is repaired                                                     *)
Fair(i) ==
  \/ i = 1 /\ Tick
  \/ i = 2 /\ ComeUp
  \/ i = 3 /\ \E c \in Callers : Step(c)
  \/ i = 4 /\ \E c \in Callers : CallBlockData(c)
  \/ i = 5 /\ \E c \in Callers : CallIndex(c)

-----------------------------------------------------------------------------
States == [state : {"Closed", "Open", "HalfOpen"}, failures : 0 .. FailureThreshold,
           age : 0 .. RecoveryTimeout]

TypeOK ==
  /\ breaker \in [Kinds -> States]
  /\ \A c \in Callers : caller[c].pc \in {"free", "promote", "primary", "succeeded", "failed", "fallback"}
  /\ \A k \in Kinds : breaker[k].state = "Closed" => breaker[k].failures < FailureThreshold

(* A closed breaker opens only on FailureThreshold failures recorded in a  *)
(* row, with calls that overlap: a success in between starts the count     *)
(* again ("Number of consecutive failures", CircuitBreakerState).          *)
OpensOnStreak ==
  \A k \in Kinds : breaker[k].state = "Closed" /\ breaker'[k].state = "Open" =>
                     streak'[k] = FailureThreshold

=============================================================================
