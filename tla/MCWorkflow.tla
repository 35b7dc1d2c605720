------------------------------ MODULE MCWorkflow ------------------------------
(***************************************************************************)
(* Instances of StepExecutor for TLC.  One tick stands for the backoff of  *)
(* a retry; deadlines and delays are a few ticks, so that each can pass    *)
(* before, between and after the handlers' awaits.                         *)
(***************************************************************************)
EXTENDS StepExecutor, TLC

\* No step is delayed.
NoDelay == [s \in Steps |-> 0]

\* The second step is delayed, as the first revocation of a leaver is.
GraceOnSecond == [s \in Steps |-> IF s = 2 THEN 2 ELSE 0]

\* Every step and compensation times out after one tick, or after two.
OneTick == [s \in AllSteps |-> 1]
TwoTicks == [s \in AllSteps |-> 2]

\* Retry budgets.  The count of attempts starts at one and is compared after it was
\* incremented, so that maxRetries = 2 is what allows one retry.
NoRetry  == [s \in AllSteps |-> 0]
OneRetry == [s \in AllSteps |-> 2]

\* Errors of handlers and losses of messages do not mix in the engine run: the
\* budget of one of the two is used up before the run starts.
OneKindOfFault ==
  /\ Init
  /\ spent \in {[failures |-> MaxFailures, redeliveries |-> 0, losses |-> 0, evictions |-> 0],
                [failures |-> 0, redeliveries |-> 0, losses |-> MaxLosses, evictions |-> 0]}
EngineSpec == OneKindOfFault /\ [][Next]_vars /\ Fairness

\* Executors are interchangeable.
ExecutorSymmetry == Permutations(Executors)

=============================================================================
