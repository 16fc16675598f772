-------------------------- MODULE MCAttestationLog --------------------------
(***************************************************************************)
(* Instances of AttestationLog for TLC.                                    *)
(***************************************************************************)
EXTENDS AttestationLog

CONSTANT NumCalls

MCCalls == 1..NumCalls

OneProc == [c \in MCCalls |-> 1]

\* Odd calls run in one orchestrator, even calls in the other.
TwoProcs == [c \in MCCalls |-> 1 + (c % 2)]

UniqueIds == [c \in MCCalls |-> c]

NoRows == <<>>

\* Two rows an earlier run left in the file; their calls are numbered
\* past those of the run.
EarlierRows ==
    << [call |-> NumCalls + 1, id |-> NumCalls + 1, prev |-> GENESIS, key |-> 1],
       [call |-> NumCalls + 2, id |-> NumCalls + 2, prev |-> NumCalls + 1, key |-> 1] >>
=============================================================================
