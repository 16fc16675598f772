----------------------------- MODULE TraceRows ------------------------------
(***************************************************************************)
(* apps/workbench: the rows of a case's timeline, which the analyst        *)
(* expands, and the chips of the events their summaries cite               *)
(* (reasoning-trace-viewer.tsx).                                           *)
(*                                                                         *)
(* What is expanded and what a chip has loaded is state that React keeps   *)
(* for a key: while a row or a chip with that key is rendered, it lives on *)
(* whatever else is rendered for it.  The key of a row that was read back  *)
(* has its place in the list, that of a live one its time.                 *)
(*                                                                         *)
(* A step is its number in the order of time, all of one action and kind,  *)
(* and no two look alike (TraceView has those that do).  Reads may fail or *)
(* overtake one another there: here a read may return any of the steps.    *)
(***************************************************************************)
EXTENDS Naturals, Sequences, FiniteSets, SequencesExt

CONSTANTS
    Cites       \* per step: the events its summary cites, in their order

ASSUME RowConstants ==
    /\ Cites \in Seq(Seq(Nat \ {0}))
    /\ \A n \in DOMAIN Cites : IsInjective(Cites[n])

Cited == DOMAIN Cites
Events == UNION { ToSet(Cites[n]) : n \in Cited }

Paths == {"classifier", "llm", "hybrid"}

VARIABLES
    path,       \* executionPath of the case
    got,        \* the steps read back last
    streamed,   \* the steps that came over the socket
    open,       \* keys of the rows that are expanded
    chips,      \* per chip that is rendered: was its event asked for, and which is shown
    requests    \* <<chip, event>>: requests of chips that are rendered

rowVars == <<path, got, streamed, open, chips, requests>>

-----------------------------------------------------------------------------
\* What is rendered.

\* The timeline is there unless the classifier alone decided.
TimelineShown(p) == p # "classifier"

Index(read, n) == Cardinality({m \in read : m < n})

\* The rows that were read back, and those of the steps that are live only, by their keys.
TimelineRows(read, arrived) ==
    LET at(n) == IF n \in read THEN <<"http", Index(read, n)>> ELSE <<"live", n>>
    IN  [k \in { at(n) : n \in read \cup arrived } |-> CHOOSE n \in read \cup arrived : at(n) = k]

\* Mutant of ChipKey: the chips of a row are numbered.
ChipKey_place(n, j) == j

ChipKey(n, j) == Cites[n][j]

\* The chips of the expanded rows, with the events they name.
Chips(rows, expanded) ==
    UNION { { <<k, ChipKey(rows[k], j), Cites[rows[k]][j]>> : j \in DOMAIN Cites[rows[k]] } :
            k \in expanded }

Chip(c) == <<c[1], c[2]>>

NewChip == [asked |-> FALSE, shows |-> 0]

\* A chip that was there keeps its state, and what it asked for.
Render(expanded, rows) ==
    LET there == { Chip(c) : c \in Chips(rows, expanded) }
    IN  /\ open' = expanded
        /\ chips' = [c \in there |-> IF c \in DOMAIN chips THEN chips[c] ELSE NewChip]
        /\ requests' = { r \in requests : r[1] \in there }

RowsInit ==
    /\ path \in Paths /\ got = {} /\ streamed = {}
    /\ open = {} /\ chips = <<>> /\ requests = {}

-----------------------------------------------------------------------------
\* Rows whose key is gone are closed.
Follow(read, arrived) ==
    LET rows == TimelineRows(read, arrived) IN Render(open \cap DOMAIN rows, rows)

StepCame(n) ==
    /\ n \notin streamed
    /\ streamed' = streamed \cup {n}
    /\ Follow(got, streamed \cup {n})
    /\ UNCHANGED <<path, got>>

TraceRead(read) ==
    /\ got' = read
    /\ Follow(read, streamed)
    /\ UNCHANGED <<path, streamed>>

\* The case gets another path: the panel of another kind takes the place of this one.
PathLearned(p) ==
    /\ p # path
    /\ path' = p
    /\ open' = {} /\ chips' = <<>> /\ requests' = {}
    /\ UNCHANGED <<got, streamed>>

\* The button of a row.
Toggle(k) ==
    /\ TimelineShown(path) /\ k \in DOMAIN TimelineRows(got, streamed)
    /\ Render(IF k \in open THEN open \ {k} ELSE open \cup {k}, TimelineRows(got, streamed))
    /\ UNCHANGED <<path, got, streamed>>

\* The pointer rests on a chip: it asks for its event, the first time.
load(c) ==
    /\ c \in Chips(TimelineRows(got, streamed), open) /\ ~chips[Chip(c)].asked
    /\ chips' = [chips EXCEPT ![Chip(c)].asked = TRUE]
    /\ requests' = requests \cup {<<Chip(c), c[3]>>}
    /\ UNCHANGED <<path, got, streamed, open>>

\* The control plane has the event of the last hour only; an error has no operation to show.
\* The chip does not ask again.
EventAnswered(r, found) ==
    /\ r \in requests
    /\ requests' = requests \ {r}
    /\ chips' = [chips EXCEPT ![r[1]].shows = IF found THEN r[2] ELSE 0]
    /\ UNCHANGED <<path, got, streamed, open>>

RowsNext ==
    \/ \E n \in Cited : StepCame(n)
    \/ \E read \in SUBSET Cited : TraceRead(read)
    \/ \E p \in Paths : PathLearned(p)
    \/ \E k \in DOMAIN TimelineRows(got, streamed) : Toggle(k)
    \/ \E c \in Chips(TimelineRows(got, streamed), open) : load(c)
    \/ \E r \in requests : \E found \in BOOLEAN : EventAnswered(r, found)

-----------------------------------------------------------------------------
\* Properties.

\* A chip shows the event it names or none, also one whose row became another step's while
\* its request was under way.
ChipsShowTheirEvent ==
    \A c \in Chips(TimelineRows(got, streamed), open) : chips[Chip(c)].shows \in {0, c[3]}
=============================================================================
