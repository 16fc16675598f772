----------------------------- MODULE BatchRuns ------------------------------
(***************************************************************************)
(* apps/workbench: the batch of the Simulation Lab (simulate/page.tsx),    *)
(* which sends one scenario many times at once and sums up how long the    *)
(* answers took.                                                           *)
(*                                                                         *)
(* A request that is answered has a latency, also when the services behind *)
(* the route failed, and 0 when the answer names none; one that is not has *)
(* -1.  Selecting a scenario and running a simulation leave a batch alone; *)
(* the button is disabled during a simulation, and so a batch waits for    *)
(* its end.                                                                *)
(***************************************************************************)
EXTENDS Integers, Sequences, FiniteSets, SequencesExt

CONSTANTS
    BatchN,         \* how many requests a batch sends
    Latencies       \* how long an answer may take

ASSUME BatchConstants == BatchN \in Nat \ {0} /\ Latencies \subseteq Nat

Jobs == 1..BatchN

VARIABLES
    batchState,     \* "idle", "running", "done"
    waiting,        \* requests without an answer
    latencies,      \* per request: what came of it
    batchResult     \* what is shown

batchVars == <<batchState, waiting, latencies, batchResult>>

NoBatch == [errors |-> 0, at |-> <<>>]

BatchInit ==
    /\ batchState = "idle" /\ waiting = {}
    /\ latencies = [j \in Jobs |-> -1] /\ batchResult = NoBatch

-----------------------------------------------------------------------------
\* One batch at a time: the button is disabled while it runs.
runBatch ==
    /\ batchState # "running"
    /\ batchState' = "running" /\ batchResult' = NoBatch
    /\ waiting' = Jobs /\ latencies' = [j \in Jobs |-> -1]

JobAnswered(j, ms) ==
    /\ j \in waiting
    /\ waiting' = waiting \ {j}
    /\ latencies' = [latencies EXCEPT ![j] = ms]
    /\ UNCHANGED <<batchState, batchResult>>

JobFails(j) ==
    /\ j \in waiting
    /\ waiting' = waiting \ {j}
    /\ UNCHANGED <<batchState, latencies, batchResult>>

Ok == SortSeq(SelectSeq(latencies, LAMBDA ms : ms >= 0), <)

\* Mutant of pct: the rank is taken of the number of answers, not of the last place.
pct_of_all(ok, p) ==
    LET i == (2 * p * Len(ok) + 100) \div 200 IN IF i < Len(ok) THEN ok[i + 1] ELSE 0

\* Math.round; a rank past the end has no value and 0 is shown.
pct(ok, p) ==
    LET i == (2 * p * (Len(ok) - 1) + 100) \div 200
    IN  IF ok # <<>> /\ i < Len(ok) THEN ok[i + 1] ELSE 0

\* min and max are the first and the last.
Percentages == {0, 50, 95, 99, 100}

BatchReturns ==
    /\ batchState = "running" /\ waiting = {}
    /\ batchState' = "done"
    /\ batchResult' = [errors |-> Len(SelectSeq(latencies, LAMBDA ms : ms < 0)),
                       at |-> [p \in Percentages |-> pct(Ok, p)]]
    /\ UNCHANGED <<waiting, latencies>>

\* The page is left; nothing is shown of what is still answered.
BatchLeft ==
    /\ batchState # "idle"
    /\ batchState' = "idle" /\ waiting' = {} /\ batchResult' = NoBatch
    /\ latencies' = [j \in Jobs |-> -1]

BatchNext ==
    \/ runBatch \/ BatchReturns \/ BatchLeft
    \/ \E j \in Jobs : JobFails(j) \/ \E ms \in Latencies : JobAnswered(j, ms)

-----------------------------------------------------------------------------
\* Properties.

\* In whatever order the answers come and whichever fail: the batch counts every request
\* once, as an answer or an error, and a percentile is the latency of an answer with as many
\* answers before and after it as the percentage says, up to half a place; 0 stands for it
\* when there is no answer at all.
BatchIsSummarised ==
    batchState = "done" =>
        LET answered == {j \in Jobs : latencies[j] >= 0}
            n == Cardinality(answered)
        IN  /\ batchResult.errors + n = BatchN
            /\ \A p \in Percentages :
                LET v == batchResult.at[p]
                    below == Cardinality({j \in answered : latencies[j] < v})
                    upTo == Cardinality({j \in answered : latencies[j] <= v})
                IN  IF n = 0 THEN v = 0
                    ELSE /\ \E j \in answered : latencies[j] = v
                         /\ 200 * below <= 2 * p * (n - 1) + 100
                         /\ 2 * p * (n - 1) <= 200 * (upTo - 1) + 100
=============================================================================
