--------------------------- MODULE CaseDeskProofs ---------------------------
(***************************************************************************)
(* The route that triages a case and the page that posts to it, for any    *)
(* requests, tabs and failures.                                            *)
(***************************************************************************)
EXTENDS CaseDesk, TLAPS

-----------------------------------------------------------------------------
\* The route.

Statuses == {"missing", "idle", "running", "complete", "failed"}
Row == [status : Statuses, verdict : Requests \cup {None}]
Places == {"new", "read", "resume", "baseline", "enrich", "mark", "fetch", "settled", "catch",
           "stored", "marked_failed", "waiting", "answered", "gone"}

RouteTypes ==
    /\ row \in Row /\ cache \in Requests \cup {None} /\ in_flight \in Requests \cup {None}
    /\ schema \in {"unset", "ready", "broken"}
    /\ pc \in [Requests -> Places] /\ seen \in [Requests -> Row]
    /\ run \in [Requests -> {"none", "pending", "ok", "error"}]
    /\ joined \in [Requests -> Requests \cup {None}]
    /\ answer \in [Requests -> Requests \cup {None}]
    /\ asked \subseteq Requests /\ late \subseteq Requests
    /\ faults \in Nat /\ (schema = "broken" => faults # 0)

HasVerdict(stored) == stored.status = "complete" /\ stored.verdict # None

\* The verdict was there before the process, and no request of it has gone further than to
\* read it.
Quiet ==
    /\ HasVerdict(row) /\ asked = {}
    /\ \A r \in Requests :
        /\ pc[r] \in {"new", "gone", "read", "resume", "answered"}
        /\ pc[r] = "resume" => HasVerdict(seen[r])

\* A verdict that is known to the process, or is about to be stored and cached.
Reached(v) == pc[v] \in {"settled", "stored"} \/ cache # None \/ Quiet

\* Where nothing failed to be stored, every verdict the route can come by was reached.
VerdictsReached ==
    /\ HasVerdict(row) => Reached(row.verdict)
    /\ \A r \in Requests :
        /\ pc[r] = "resume" /\ HasVerdict(seen[r]) => Reached(seen[r].verdict)
        /\ pc[r] = "answered" /\ answer[r] # None => Reached(answer[r])
        /\ run[r] = "ok" => \/ pc[r] \in {"settled", "stored", "gone"}
                            \/ pc[r] = "answered" /\ cache # None

\* Requests await runs of their own process.
RunsAreLive ==
    /\ in_flight # None => pc[in_flight] \notin {"new", "gone"}
    /\ \A r \in Requests : pc[r] = "waiting" => joined[r] # None /\ pc[joined[r]] \notin {"new", "gone"}

\* A late request finds a verdict.
LateIsAnswered ==
    /\ late # {} => cache # None \/ Quiet
    /\ \A r \in late : pc[r] \in {"read", "resume", "answered"} /\ r \notin asked
    /\ \A r \in asked : pc[r] # "new"

RouteInv ==
    /\ RouteTypes
    /\ faults = 0 => VerdictsReached /\ RunsAreLive /\ LateIsAnswered

\* What the page's server render and its GET do to the route's state.
PageReads ==
    /\ row' \in {row, Snapshot} /\ schema' \in {schema, "ready"}
    /\ schema = "broken" => schema' = "broken"
    /\ UNCHANGED <<cache, in_flight, pc, seen, run, joined, answer, asked, late, faults>>

\* A step of the desk is a step of the route, or a read of the page.
LEMMA StepsOfTheRoute ==
    ASSUME RouteTypes, [DeskNext]_deskVars
    PROVE  [Next]_vars \/ PageReads
  <1>1. ASSUME PageNext PROVE [Next]_vars \/ PageReads
    <2>1. CASE OpenCase
      BY <2>1 DEF OpenCase, ensureCaseSchema, PageReads, history, bounds
    <2>2. CASE GetStatus
      BY <2>2 DEF GetStatus, ensureCaseSchema, PageReads, history, bounds
    <2>3. ASSUME NEW r \in TabRequests, Fire(r) PROVE Next
      BY <2>3, PageConstants DEF Fire, Next
    <2>4. CASE ServerStep
      BY <2>4, PageConstants DEF ServerStep, Next
    <2>5. ASSUME NEW r \in TabRequests, TriageAnswered(r) PROVE UNCHANGED vars
      BY <2>5 DEF TriageAnswered
    <2>6. CASE \/ EffectReturns \/ Leave \/ Reload \/ GetFails \/ StatusArrives
               \/ OverrideRecorded \/ OverrideRefused \/ MarkerExpires \/ TerminalStep \/ evictIfNeeded \/ handleApprove
               \/ handleOverrideSubmit \/ OverrideFails
      BY <2>6 DEF EffectReturns, Leave, Reload, GetFails, StatusArrives,
                  OverrideRecorded, OverrideRefused, MarkerExpires, TerminalStep, evictIfNeeded, handleApprove,
                  handleOverrideSubmit, OverrideFails
    <2> QED BY <1>1, <2>1, <2>2, <2>3, <2>4, <2>5, <2>6
          DEF PageNext, Events, VerdictDialog, Effects, Answers
  <1>2. CASE UNCHANGED deskVars
    BY <1>2 DEF deskVars, pageVars
  <1> QED BY <1>1, <1>2 DEF DeskNext

\* What a step of a request leaves in place.
LEMMA RouteTypesKept ==
    ASSUME RouteTypes, [Next]_vars \/ PageReads
    PROVE  RouteTypes'
  <1> USE TriageConstants DEF RouteTypes, memory, history, bounds, Answer, Finally
  <1>0. \A r \in Requests : seen[r] \in Row /\ CachedVerdict(r) \in Requests \cup {None}
    BY DEF CachedVerdict, Row
  <1>1. Snapshot \in Row /\ Failed \in Row /\ [row EXCEPT !.status = "running"] \in Row
    BY DEF Snapshot, Failed, Row, Statuses
  <1>2. ASSUME NEW r \in Requests, Arrive(r) PROVE RouteTypes'
    BY <1>2 DEF Arrive, Places
  <1>3. ASSUME NEW r \in Requests, GetCase(r) PROVE RouteTypes'
    BY <1>0, <1>1, <1>3 DEF GetCase, Places, ensureCaseSchema
  <1>4. ASSUME NEW r \in Requests, AnswerKnown(r) PROVE RouteTypes'
    BY <1>0, <1>1, <1>4 DEF AnswerKnown, Places
  <1>5. ASSUME NEW r \in Requests, Join(r) PROVE RouteTypes'
    BY <1>0, <1>1, <1>5 DEF Join, Places
  <1>6. ASSUME NEW r \in Requests, AnswerJoined(r) PROVE RouteTypes'
    BY <1>0, <1>1, <1>6 DEF AnswerJoined, Places
  <1>7. ASSUME NEW r \in Requests, Enrich(r) PROVE RouteTypes'
    BY <1>0, <1>1, <1>7 DEF Enrich, Places
  <1>8. ASSUME NEW r \in Requests, baselineDeviation(r) PROVE RouteTypes'
    BY <1>0, <1>1, <1>8 DEF baselineDeviation, Places
  <1>9. ASSUME NEW r \in Requests, Launch(r) PROVE RouteTypes'
    BY <1>0, <1>1, <1>9 DEF Launch, Places
  <1>10. ASSUME NEW r \in Requests, MarkRunning(r) PROVE RouteTypes'
    BY <1>0, <1>1, <1>10 DEF MarkRunning, Places
  <1>11. ASSUME NEW r \in Requests, InvestigationReturns(r) PROVE RouteTypes'
    BY <1>0, <1>1, <1>11 DEF InvestigationReturns, Places
  <1>12. ASSUME NEW r \in Requests, InvestigationFails(r) PROVE RouteTypes'
    BY <1>0, <1>1, <1>12 DEF InvestigationFails, Places
  <1>13. ASSUME NEW r \in Requests, MarkComplete(r) PROVE RouteTypes'
    BY <1>0, <1>1, <1>13 DEF MarkComplete, Places, Completed, Row, Statuses
  <1>14. ASSUME NEW r \in Requests, MarkFailed(r) PROVE RouteTypes'
    BY <1>0, <1>1, <1>14 DEF MarkFailed, Places
  <1>15. ASSUME NEW r \in Requests, Finish(r) PROVE RouteTypes'
    BY <1>0, <1>1, <1>15 DEF Finish, Places
  <1>16. ASSUME NEW r \in Requests, StatementFails(r) PROVE RouteTypes'
    BY <1>0, <1>1, <1>16 DEF StatementFails, Places
  <1>17. CASE SchemaFails
    BY <1>17 DEF SchemaFails
  <1>18. CASE Restart
    BY <1>18 DEF Restart, Places
  <1>19. CASE PageReads
    BY <1>1, <1>19 DEF PageReads
  <1>20. CASE UNCHANGED vars
    BY <1>20 DEF vars
  <1> QED BY <1>2, <1>3, <1>4, <1>5, <1>6, <1>7, <1>8, <1>9, <1>10, <1>11, <1>12, <1>13, <1>14, <1>15, <1>16, <1>17, <1>18, <1>19, <1>20 DEF Next, Handle

\* While the verdict of an earlier process is all there is, nothing is launched.
LEMMA QuietStays ==
    ASSUME RouteTypes, Quiet, NEW r \in Requests, Arrive(r) \/ Handle(r)
    PROVE  Quiet'
  <1> USE DEF RouteTypes, Quiet, memory, history, bounds, Answer
  <1>1. CASE Arrive(r)
    BY <1>1 DEF Arrive
  <1>2. CASE GetCase(r)
    BY <1>2 DEF GetCase
  <1>3. CASE AnswerKnown(r)
    BY <1>3 DEF AnswerKnown
  <1>4. pc[r] = "resume" => CachedVerdict(r) # None
    BY DEF CachedVerdict, HasVerdict
  <1> QED BY <1>1, <1>2, <1>3, <1>4 DEF Handle, Join, AnswerJoined, Enrich, baselineDeviation,
          Launch, MarkRunning, InvestigationReturns, InvestigationFails, MarkComplete, MarkFailed,
          Finish

\* What was reached stays so: a verdict that is settled is stored, and then cached.
LEMMA ReachedStays ==
    ASSUME RouteTypes, NEW r \in Requests, Arrive(r) \/ Handle(r), NEW v \in Requests, Reached(v)
    PROVE  Reached(v)'
  <1> USE TriageConstants DEF RouteTypes, Reached, memory, history, bounds, Answer
  <1>1. CASE Quiet
    BY <1>1, QuietStays
  <1>2. CASE cache # None
    BY <1>2 DEF Arrive, Handle, GetCase, AnswerKnown, Join, AnswerJoined, Enrich, baselineDeviation,
          Launch, MarkRunning, InvestigationReturns, InvestigationFails, MarkComplete, MarkFailed,
          Finish
  <1>3. CASE pc[v] \in {"settled", "stored"}
    BY <1>3 DEF Arrive, Handle, GetCase, AnswerKnown, Join, AnswerJoined, Enrich, baselineDeviation,
          Launch, MarkRunning, InvestigationReturns, InvestigationFails, MarkComplete, MarkFailed,
          Finish
  <1> QED BY <1>1, <1>2, <1>3

\* The verdicts the route can come by after a step of a request.
LEMMA VerdictsStayReached ==
    ASSUME RouteTypes, VerdictsReached, RunsAreLive, NEW r \in Requests, Arrive(r) \/ Handle(r)
    PROVE  VerdictsReached'
  <1>1. /\ (Quiet => Quiet')
        /\ \A v \in Requests : Reached(v) => Reached(v)'
    BY QuietStays, ReachedStays DEF Reached
  <1> USE TriageConstants DEF RouteTypes, VerdictsReached, RunsAreLive, Reached, HasVerdict, Row,
          memory, history, bounds, Answer
  <1>2. CASE Arrive(r)
    BY <1>1, <1>2 DEF Arrive
  <1>3. CASE GetCase(r)
    BY <1>1, <1>3 DEF GetCase
  <1>4. CASE AnswerKnown(r)
    BY <1>1, <1>4 DEF AnswerKnown, CachedVerdict
  <1>5. CASE Join(r)
    BY <1>1, <1>5 DEF Join
  <1>6. CASE AnswerJoined(r)
    BY <1>1, <1>6 DEF AnswerJoined, Settled
  <1>7. CASE Enrich(r)
    BY <1>1, <1>7 DEF Enrich
  <1>8. CASE baselineDeviation(r)
    BY <1>1, <1>8 DEF baselineDeviation
  <1>9. CASE Launch(r)
    BY <1>1, <1>9 DEF Launch, Snapshot
  <1>10. CASE MarkRunning(r)
    BY <1>1, <1>10 DEF MarkRunning
  <1>11. CASE InvestigationReturns(r)
    BY <1>1, <1>11 DEF InvestigationReturns
  <1>12. CASE InvestigationFails(r)
    BY <1>1, <1>12 DEF InvestigationFails
  <1>13. CASE MarkComplete(r)
    BY <1>1, <1>13 DEF MarkComplete, Completed
  <1>14. CASE MarkFailed(r)
    BY <1>1, <1>14 DEF MarkFailed, Failed
  <1>15. CASE Finish(r)
    BY <1>1, <1>15 DEF Finish, Finally
  <1> QED BY <1>2, <1>3, <1>4, <1>5, <1>6, <1>7, <1>8, <1>9, <1>10, <1>11, <1>12, <1>13, <1>14, <1>15 DEF Handle

\* Requests go on awaiting runs of their own process.
LEMMA RunsStayLive ==
    ASSUME RouteTypes, RunsAreLive, NEW r \in Requests, Arrive(r) \/ Handle(r)
    PROVE  RunsAreLive'
  <1> USE TriageConstants DEF RouteTypes, RunsAreLive, memory, history, bounds, Answer
  <1>1. CASE Arrive(r)
    BY <1>1 DEF Arrive
  <1>2. CASE GetCase(r)
    BY <1>2 DEF GetCase
  <1>3. CASE AnswerKnown(r)
    BY <1>3 DEF AnswerKnown, CachedVerdict
  <1>4. CASE Join(r)
    BY <1>4 DEF Join
  <1>5. CASE AnswerJoined(r)
    BY <1>5 DEF AnswerJoined, Settled
  <1>6. CASE Enrich(r)
    BY <1>6 DEF Enrich
  <1>7. CASE baselineDeviation(r)
    BY <1>7 DEF baselineDeviation
  <1>8. CASE Launch(r)
    BY <1>8 DEF Launch, Snapshot
  <1>9. CASE MarkRunning(r)
    BY <1>9 DEF MarkRunning
  <1>10. CASE InvestigationReturns(r)
    BY <1>10 DEF InvestigationReturns
  <1>11. CASE InvestigationFails(r)
    BY <1>11 DEF InvestigationFails
  <1>12. CASE MarkComplete(r)
    BY <1>12 DEF MarkComplete, Completed
  <1>13. CASE MarkFailed(r)
    BY <1>13 DEF MarkFailed, Failed
  <1>14. CASE Finish(r)
    BY <1>14 DEF Finish, Finally
  <1> QED BY <1>1, <1>2, <1>3, <1>4, <1>5, <1>6, <1>7, <1>8, <1>9, <1>10, <1>11, <1>12, <1>13, <1>14 DEF Handle

\* A late request comes when a verdict is known, and is answered with one.
LEMMA LateStaysAnswered ==
    ASSUME RouteTypes, VerdictsReached, LateIsAnswered, NEW r \in Requests, Arrive(r) \/ Handle(r)
    PROVE  LateIsAnswered'
  <1>1. (Quiet => Quiet') /\ (cache # None \/ Quiet => cache' # None \/ Quiet')
    <2>1. cache # None => cache' # None
      BY TriageConstants DEF memory, Arrive, Handle, GetCase, AnswerKnown, Join, AnswerJoined, Enrich, baselineDeviation, Launch, MarkRunning, InvestigationReturns, InvestigationFails, MarkComplete, MarkFailed, Finish
    <2> QED BY <2>1, QuietStays
  <1>2. cache # None \/ Quiet => ~(pc[r] = "resume" /\ CachedVerdict(r) = None)
    BY DEF Quiet, CachedVerdict, HasVerdict
  <1>3. (\E v \in Requests : Known(v)) => cache # None \/ Quiet
    BY TriageConstants DEF Known, VerdictsReached, Reached, RouteTypes
  <1> USE DEF RouteTypes, LateIsAnswered, memory, history, bounds, Answer
  <1>4. CASE Arrive(r)
    BY <1>1, <1>2, <1>3, <1>4 DEF Arrive
  <1>5. CASE GetCase(r)
    BY <1>1, <1>2, <1>3, <1>5 DEF GetCase
  <1>6. CASE AnswerKnown(r)
    BY <1>1, <1>2, <1>3, <1>6 DEF AnswerKnown
  <1>7. CASE Join(r)
    BY <1>1, <1>2, <1>3, <1>7 DEF Join
  <1>8. CASE AnswerJoined(r)
    BY <1>1, <1>2, <1>3, <1>8 DEF AnswerJoined
  <1>9. CASE Enrich(r)
    BY <1>1, <1>2, <1>3, <1>9 DEF Enrich
  <1>10. CASE baselineDeviation(r)
    BY <1>1, <1>2, <1>3, <1>10 DEF baselineDeviation
  <1>11. CASE Launch(r)
    BY <1>1, <1>2, <1>3, <1>11 DEF Launch
  <1>12. CASE MarkRunning(r)
    BY <1>1, <1>2, <1>3, <1>12 DEF MarkRunning
  <1>13. CASE InvestigationReturns(r)
    BY <1>1, <1>2, <1>3, <1>13 DEF InvestigationReturns
  <1>14. CASE InvestigationFails(r)
    BY <1>1, <1>2, <1>3, <1>14 DEF InvestigationFails
  <1>15. CASE MarkComplete(r)
    BY <1>1, <1>2, <1>3, <1>15 DEF MarkComplete
  <1>16. CASE MarkFailed(r)
    BY <1>1, <1>2, <1>3, <1>16 DEF MarkFailed
  <1>17. CASE Finish(r)
    BY <1>1, <1>2, <1>3, <1>17 DEF Finish
  <1> QED BY <1>4, <1>5, <1>6, <1>7, <1>8, <1>9, <1>10, <1>11, <1>12, <1>13, <1>14, <1>15, <1>16, <1>17 DEF Handle

\* A new process has no requests; what it finds in the row is all it knows.
LEMMA RestartKeeps ==
    ASSUME RouteTypes, VerdictsReached, Restart
    PROVE  VerdictsReached' /\ RunsAreLive' /\ LateIsAnswered'
  <1>1. /\ UNCHANGED <<row, seen, run, joined, answer>> /\ asked' = {} /\ late' = {}
        /\ \A r \in Requests : pc'[r] = IF pc[r] = "new" THEN "new" ELSE "gone"
        /\ cache' = None /\ in_flight' = None
    BY DEF Restart
  <1>2. HasVerdict(row') => Quiet'
    BY <1>1 DEF Quiet, HasVerdict
  <1>3. VerdictsReached'
    BY <1>1, <1>2 DEF VerdictsReached, Reached, HasVerdict
  <1>4. RunsAreLive' /\ LateIsAnswered'
    BY <1>1 DEF RunsAreLive, LateIsAnswered
  <1> QED BY <1>3, <1>4

\* Opening the page stores at most a row without a verdict where there was none.
LEMMA PageReadsKeeps ==
    ASSUME RouteTypes, VerdictsReached, RunsAreLive, LateIsAnswered, PageReads
    PROVE  VerdictsReached' /\ RunsAreLive' /\ LateIsAnswered'
  <1>1. /\ UNCHANGED <<cache, in_flight, pc, seen, run, joined, answer, asked, late>>
        /\ row' = row \/ (~HasVerdict(row) /\ ~HasVerdict(row'))
    BY DEF PageReads, Snapshot, HasVerdict
  <1>2. HasVerdict(row') => row' = row
    BY <1>1
  <1>3. Quiet => Quiet'
    BY <1>1 DEF Quiet, HasVerdict
  <1>4. VerdictsReached'
    BY <1>1, <1>2, <1>3 DEF VerdictsReached, Reached, HasVerdict
  <1>5. RunsAreLive' /\ LateIsAnswered'
    BY <1>1, <1>3 DEF RunsAreLive, LateIsAnswered
  <1> QED BY <1>4, <1>5

\* No request has come yet.
LEMMA RouteInit ==
    ASSUME DeskInit
    PROVE  RouteInv
  BY TriageConstants DEF DeskInit, PageInit, Init, RouteInv, RouteTypes, Row, Statuses, Places,
     VerdictsReached, HasVerdict, RunsAreLive, LateIsAnswered

\* Every step keeps the route's invariant; it promises nothing once a statement failed.
LEMMA RouteStep ==
    ASSUME RouteInv, [DeskNext]_deskVars
    PROVE  RouteInv'
  <1>1. RouteTypes /\ ([Next]_vars \/ PageReads)
    BY StepsOfTheRoute DEF RouteInv
  <1>2. RouteTypes'
    BY <1>1, RouteTypesKept
  <1>3. ASSUME faults' = 0 PROVE (VerdictsReached /\ RunsAreLive /\ LateIsAnswered)'
    <2>1. faults = 0 /\ ~SchemaFails /\ \A r \in Requests : ~StatementFails(r)
      <3>1. schema = "broken" => faults # 0
        BY <1>1 DEF RouteTypes
      <3>2. faults \in Nat
        BY <1>1 DEF RouteTypes
      <3>3. ~SchemaFails /\ \A r \in Requests : ~StatementFails(r)
        BY <1>3, <3>1, <3>2 DEF SchemaFails, StatementFails
      <3> QED BY <1>1, <1>3, <3>3 DEF Next, vars, PageReads, bounds, Arrive, Handle, GetCase,
              AnswerKnown, Join, AnswerJoined, Enrich, baselineDeviation, Launch, MarkRunning,
              InvestigationReturns, InvestigationFails, MarkComplete, MarkFailed, Finish, Restart
    <2>2. VerdictsReached /\ RunsAreLive /\ LateIsAnswered
      BY <2>1 DEF RouteInv
    <2>3. ASSUME NEW r \in Requests, Arrive(r) \/ Handle(r)
          PROVE  (VerdictsReached /\ RunsAreLive /\ LateIsAnswered)'
      BY <1>1, <2>2, <2>3, VerdictsStayReached, RunsStayLive, LateStaysAnswered
    <2>4. CASE Restart
      BY <1>1, <2>2, <2>4, RestartKeeps
    <2>5. CASE PageReads
      BY <1>1, <2>2, <2>5, PageReadsKeeps
    <2>6. CASE UNCHANGED vars
      BY <2>2, <2>6 DEF vars, VerdictsReached, RunsAreLive, LateIsAnswered, Reached, Quiet
    <2> QED BY <1>1, <2>1, <2>3, <2>4, <2>5, <2>6 DEF Next
  <1> QED BY <1>2, <1>3 DEF RouteInv

\* As long as no statement fails, a request that comes after a verdict was answered and the
\* handler that reached it has ended starts no investigation in the same process.
THEOREM LateRequestsAreAnswered == DeskSpec => []NoneAfterVerdict
  <1>1. DeskInit => RouteInv
    BY RouteInit
  <1>2. RouteInv /\ [DeskNext]_deskVars => RouteInv'
    BY RouteStep
  <1>3. RouteInv => NoneAfterVerdict
    BY DEF RouteInv, LateIsAnswered, NoneAfterVerdict
  <1> QED BY <1>1, <1>2, <1>3, PTL DEF DeskSpec

-----------------------------------------------------------------------------
\* The page.

Entry ==
    [there : BOOLEAN, status : {"idle", "running", "complete", "failed"},
     started : {"never", "fresh", "stale"}, verdict : Requests \cup {None},
     terminal : BOOLEAN, disposition : {"none", "approved", "override"}]

PageTypes ==
    /\ entry \in Entry /\ checked \in BOOLEAN /\ firedRef \in BOOLEAN /\ due \in BOOLEAN
    /\ fired \in BOOLEAN
    /\ check \in [at : {"none", "sent", "failed", "read"}, row : Row]

\* The load that has a request pending has fired, a marker that runs was set, and a mount
\* that has fired finds no reason to forget that it did.
PageInv ==
    /\ PageTypes
    /\ posts # {} => fired
    /\ entry.status = "running" => entry.started # "never"
    /\ firedRef => checked
    /\ checked => check.at = "none"
    /\ due /\ Shown /\ firedRef /\ Wanted => ~(entry.status = "running" /\ entry.started = "stale")

\* What a step does to the case in the store: a verdict and a decision stay.
Kept(e) ==
    /\ e \in Entry
    /\ entry.verdict # None => e.verdict # None
    /\ entry.disposition # "none" => e.disposition = entry.disposition

\* The writes of the store.
LEMMA Writes ==
    ASSUME entry \in Entry
    PROVE  /\ Kept(initCase) /\ Kept(startTriage) /\ Kept(failTriage)
           /\ \A v \in Requests : Kept(setVerdict(v))
           /\ entry.disposition = "none" => Kept(setApproved) /\ Kept(setOverride)
           /\ Kept([entry EXCEPT !.terminal = TRUE]) /\ Kept([entry EXCEPT !.started = "stale"])
  BY TriageConstants DEF Kept, Entry, initCase, startTriage, failTriage, setVerdict, setApproved,
     setOverride, Write

\* Every step of the desk keeps the case, or has it evicted.
LEMMA CaseIsKept ==
    ASSUME RouteTypes, PageTypes, [DeskNext]_deskVars
    PROVE  Kept(entry') \/ entry' = NoEntry
  <1>1. entry \in Entry /\ Kept(entry)
    BY DEF PageTypes, Kept
  <1>2. CASE OpenCase
    BY <1>1, <1>2, Writes DEF OpenCase
  <1>3. CASE StatusArrives
    <2>1. check.row.verdict \in Requests \cup {None}
      BY DEF PageTypes, Row
    <2> QED BY <1>1, <1>3, <2>1, Writes DEF StatusArrives, Store
  <1>4. ASSUME NEW r \in TabRequests, Fire(r) PROVE Kept(entry')
    BY <1>1, <1>4, Writes DEF Fire
  <1>5. ASSUME NEW r \in TabRequests, TriageAnswered(r) PROVE Kept(entry')
    <2>1. answer[r] \in Requests \cup {None}
      BY PageConstants DEF RouteTypes
    <2> QED BY <1>1, <1>5, <2>1, Writes DEF TriageAnswered, Store
  <1>6. CASE MarkerExpires
    BY <1>1, <1>6, Writes DEF MarkerExpires
  <1>7. CASE TerminalStep
    BY <1>1, <1>7, Writes DEF TerminalStep, Store
  <1>8. CASE handleApprove \/ handleOverrideSubmit
    BY <1>1, <1>8, Writes DEF handleApprove, handleOverrideSubmit, CanDecide, Store
  <1>9. CASE evictIfNeeded
    BY <1>9 DEF evictIfNeeded
  <1>10. CASE \/ EffectReturns \/ Leave \/ Reload \/ GetStatus \/ GetFails
              \/ OverrideRecorded \/ OverrideRefused \/ OverrideFails \/ ServerStep
    BY <1>1, <1>10 DEF EffectReturns, Leave, Reload, GetStatus, GetFails,
       OverrideRecorded, OverrideRefused, OverrideFails, ServerStep, tab
  <1>11. CASE UNCHANGED tab
    BY <1>1, <1>11 DEF tab
  <1> QED BY <1>2, <1>3, <1>4, <1>5, <1>6, <1>7, <1>8, <1>9, <1>10, <1>11
       DEF DeskNext, PageNext, Events, VerdictDialog, Effects, Answers, deskVars, pageVars

\* No page has been opened yet.
LEMMA PageStarts ==
    ASSUME DeskInit
    PROVE  PageInv
  BY TriageConstants DEF DeskInit, PageInit, PageInv, PageTypes, Entry, NoEntry, NoCheck, Row,
     Statuses

\* Every step keeps the page's invariant.
LEMMA PageStep ==
    ASSUME RouteTypes, PageInv, [DeskNext]_deskVars
    PROVE  PageInv'
  <1> USE DEF PageInv, PageTypes, mount, load, pageBounds
  <1>0. NoEntry \in Entry /\ NoCheck \in [at : {"none", "sent", "failed", "read"}, row : Row]
    BY TriageConstants DEF NoEntry, NoCheck, Entry, Row, Statuses
  <1>1. entry' \in Entry
    BY <1>0, CaseIsKept DEF Kept
  <1>2. CASE OpenCase
    <2>1. /\ checked' = FALSE /\ firedRef' = FALSE /\ due' = FALSE /\ UNCHANGED <<fired, posts>>
          /\ entry' \in {entry, initCase} /\ check' \in {check, [NoCheck EXCEPT !.at = "sent"]}
      BY <1>2 DEF OpenCase
    <2>2. initCase.status = entry.status /\ initCase.started = entry.started
      BY DEF initCase, Entry
    <2>3. [NoCheck EXCEPT !.at = "sent"] \in [at : {"none", "sent", "failed", "read"}, row : Row]
      BY <1>0
    <2> QED BY <1>1, <2>1, <2>2, <2>3
  <1>3. CASE StatusArrives
    <2>1. /\ check' = NoCheck /\ NoCheck.at = "none" /\ UNCHANGED <<firedRef, posts, shown>>
          /\ check.at \in {"read", "failed"}
      BY <1>3 DEF StatusArrives, NoCheck
    <2>2. ~checked /\ ~firedRef
      BY <2>1
    <2>3. /\ checked' \in BOOLEAN /\ due' \in BOOLEAN /\ fired' \in BOOLEAN
          /\ (fired => fired')
      <3>1. (checked' = checked \/ checked' = TRUE) /\ (fired' = fired \/ fired' = TRUE)
        BY <1>3 DEF StatusArrives
      <3>2. (\E e : due' = (due \/ (Shown /\ Deps(e) # Deps(entry)))) \/ due' = TRUE
        BY <1>3 DEF StatusArrives, Store
      <3>3. due' \in BOOLEAN
        BY <3>2
      <3>4. ASSUME fired PROVE fired'
        <4>1. CASE fired' = fired
          BY <3>4, <4>1
        <4>2. CASE fired' = TRUE
          BY <4>2
        <4> QED BY <3>1, <4>1, <4>2
      <3>5. checked' \in BOOLEAN /\ fired' \in BOOLEAN
        BY <3>1
      <3> QED BY <3>3, <3>4, <3>5
    <2>4. entry'.status = "running" => entry'.started # "never"
      BY <1>3 DEF StatusArrives, Store, setVerdict, failTriage, Write, Entry
    <2> QED BY <1>0, <1>1, <2>1, <2>2, <2>3, <2>4
  <1>4. ASSUME NEW r \in TabRequests, Fire(r) PROVE PageInv'
    <2>1. /\ UNCHANGED <<shown, check, checked>> /\ firedRef' = TRUE /\ fired' = TRUE
          /\ entry' = startTriage /\ due' \in BOOLEAN /\ checked /\ entry.there
      BY <1>4 DEF Fire, Fires, Wanted
    <2>2. entry'.started = "fresh"
      BY <2>1 DEF startTriage, Write, Entry
    <2> QED BY <1>1, <2>1, <2>2
  <1>5. CASE EffectReturns
    <2>1. /\ UNCHANGED <<entry, shown, check, checked, firedRef, posts>> /\ due' = FALSE
          /\ fired' = (fired /\ ~(Wanted /\ ~RunningIsFresh /\ entry.status = "running"))
          /\ due /\ Shown /\ ~Fires
      BY <1>5 DEF EffectReturns
    <2>2. ~(Wanted /\ ~RunningIsFresh /\ entry.status = "running")
      <3>1. SUFFICES ASSUME Wanted, ~RunningIsFresh, entry.status = "running" PROVE FALSE
        OBVIOUS
      <3>2. firedRef /\ entry.started = "stale"
        BY <2>1, <3>1 DEF Fires, FiredBefore, RunningIsFresh, Entry
      <3> QED BY <2>1, <3>1, <3>2
    <2> QED BY <1>1, <2>1, <2>2
  <1>6. ASSUME NEW e \in Entry, Store(e), UNCHANGED <<shown, check, checked, firedRef, fired>>,
               posts' \subseteq posts,
               e.status = "running" => entry.status = "running" /\ e.started = entry.started,
               \/ e.verdict # None \/ e.terminal \/ e.status # "running" \/ Deps(e) = Deps(entry)
        PROVE  PageInv'
    <2>1. /\ entry' = e /\ due' \in BOOLEAN /\ (Deps(e) = Deps(entry) => due' = due)
      BY <1>6 DEF Store
    <2>2. Deps(e) = Deps(entry) =>
             /\ e.there = entry.there /\ e.verdict = entry.verdict /\ e.status = entry.status
             /\ e.started = entry.started /\ e.terminal = entry.terminal
      BY DEF Deps
    <2>3. due' /\ Shown' /\ firedRef' /\ Wanted' => ~(entry'.status = "running" /\ entry'.started = "stale")
      BY <1>6, <2>1, <2>2 DEF Shown, Wanted
    <2> QED BY <1>1, <1>6, <2>1, <2>3
  <1>7. ASSUME NEW r \in TabRequests, TriageAnswered(r) PROVE PageInv'
    <2>1. answer[r] \in Requests \cup {None}
      BY PageConstants DEF RouteTypes
    <2>2. /\ UNCHANGED <<shown, check, checked, firedRef, fired>> /\ posts' \subseteq posts
          /\ \/ answer[r] # None /\ Store(setVerdict(answer[r]))
             \/ Store(failTriage)
      BY <1>7 DEF TriageAnswered
    <2>3. PICK e : e = entry'
      OBVIOUS
    <2>4. /\ e.status = "running" => entry.status = "running" /\ e.started = entry.started
          /\ \/ e.verdict # None \/ e.terminal \/ e.status # "running" \/ Deps(e) = Deps(entry)
      BY <2>1, <2>2, <2>3 DEF Store, setVerdict, failTriage, Write, Entry
    <2>5. Store(e)
      BY <2>2, <2>3 DEF Store
    <2> QED BY <1>1, <1>6, <2>2, <2>3, <2>4, <2>5
  <1>8. CASE TerminalStep \/ handleApprove \/ handleOverrideSubmit
    <2>1. /\ UNCHANGED <<shown, check, checked, firedRef, fired, posts>>
          /\ \/ Store([entry EXCEPT !.terminal = TRUE])
             \/ Store(setApproved) \/ Store(setOverride)
      BY <1>8 DEF TerminalStep, handleApprove, handleOverrideSubmit
    <2>2. PICK e : e = entry'
      OBVIOUS
    <2>3. /\ e.status = "running" => entry.status = "running" /\ e.started = entry.started
          /\ \/ e.verdict # None \/ e.terminal \/ e.status # "running" \/ Deps(e) = Deps(entry)
      BY <2>1, <2>2 DEF Store, setApproved, setOverride, Write, Entry, Deps
    <2>4. Store(e)
      BY <2>1, <2>2 DEF Store
    <2> QED BY <1>1, <1>6, <2>1, <2>2, <2>3, <2>4
  <1>9. CASE /\ UNCHANGED <<checked, firedRef, fired>> /\ posts' \subseteq posts
             /\ (check' = NoCheck \/ check' = check) /\ due' = FALSE
             /\ entry' \in {entry, NoEntry, [entry EXCEPT !.started = "stale"]}
    BY <1>0, <1>1, <1>9 DEF Entry, NoEntry, NoCheck
  <1>10. CASE Reload
    BY <1>0, <1>1, <1>10 DEF Reload, NoCheck
  <1>11. CASE (~due /\ (evictIfNeeded \/ MarkerExpires)) \/ Leave
    BY <1>9, <1>11 DEF evictIfNeeded, MarkerExpires, Leave
  <1>12. CASE GetStatus
    <2>1. /\ check.at = "sent" /\ check' = [at |-> "read", row |-> row]
          /\ UNCHANGED <<entry, shown, checked, firedRef, due, fired, posts>>
      BY <1>12 DEF GetStatus
    <2>2. check' \in [at : {"none", "sent", "failed", "read"}, row : Row]
      BY <2>1 DEF RouteTypes
    <2> QED BY <1>1, <2>1, <2>2 DEF Shown, Wanted
  <1>13. CASE GetFails
    <2>1. /\ check.at = "sent" /\ check' = [check EXCEPT !.at = "failed"]
          /\ UNCHANGED <<entry, shown, checked, firedRef, due, fired, posts>>
      BY <1>13 DEF GetFails
    <2>2. check' \in [at : {"none", "sent", "failed", "read"}, row : Row]
      BY <2>1
    <2> QED BY <1>1, <2>1, <2>2 DEF Shown, Wanted
  <1>14. CASE \/ OverrideRecorded \/ OverrideRefused \/ OverrideFails \/ ServerStep \/ UNCHANGED tab
    <2>1. UNCHANGED <<entry, shown, check, checked, firedRef, due, fired, posts>>
      BY <1>14 DEF OverrideRecorded, OverrideRefused, OverrideFails, ServerStep, tab
    <2> QED BY <2>1 DEF Shown, Wanted
  <1> QED BY <1>2, <1>3, <1>4, <1>5, <1>7, <1>8, <1>10, <1>11, <1>12, <1>13, <1>14
       DEF DeskNext, PageNext, Events, VerdictDialog, Effects, Answers, deskVars, pageVars

\* The page posts while a request is pending only over a marker that is stale.
LEMMA PostsOverStaleMarkers ==
    ASSUME PageInv, [DeskNext]_deskVars
    PROVE  \A r \in Requests : r \in posts' \ posts => posts = {} \/ entry.started = "stale"
  <1>1. ASSUME NEW r \in TabRequests, Fire(r) PROVE posts = {} \/ entry.started = "stale"
    <2>1. Fires
      BY <1>1 DEF Fire
    <2>2. ASSUME posts # {} PROVE entry.started = "stale"
      <3>1. fired
        BY <2>2 DEF PageInv
      <3>2. entry.status = "running" /\ entry.started # "fresh"
        BY <2>1, <3>1 DEF Fires, FiredBefore, RunningIsFresh
      <3> QED BY <3>2 DEF PageInv, PageTypes, Entry
    <2> QED BY <2>2
  <1>2. ASSUME ~ \E r \in TabRequests : Fire(r) PROVE posts' \subseteq posts
    BY <1>2 DEF DeskNext, PageNext, Events, VerdictDialog, Effects, Answers, deskVars, pageVars, tab,
       load, OpenCase, Leave, Reload, GetStatus, GetFails, StatusArrives, EffectReturns, TriageAnswered,
       MarkerExpires, TerminalStep, evictIfNeeded, handleApprove, handleOverrideSubmit,
       OverrideRecorded, OverrideRefused, OverrideFails, ServerStep
  <1> QED BY <1>1, <1>2

\* Both invariants hold of every behaviour.
THEOREM DeskInvariant == DeskSpec => [](RouteInv /\ PageInv)
  <1>1. DeskInit => RouteInv /\ PageInv
    BY RouteInit, PageStarts
  <1>2. RouteInv /\ PageInv /\ [DeskNext]_deskVars => RouteInv' /\ PageInv'
    BY RouteStep, PageStep DEF RouteInv
  <1> QED BY <1>1, <1>2, PTL DEF DeskSpec

\* However often the page is left, reopened and reloaded and the case is evicted, a second
\* request is posted beside a pending one only when the running marker is stale.
THEOREM RunsAreRepeatedWhenStale == DeskSpec => OnlyStaleRunsAreRepeated
  <1>1. RouteInv /\ PageInv /\ [DeskNext]_deskVars =>
           [\A r \in Requests : r \in posts' \ posts => posts = {} \/ entry.started = "stale"]_pageVars
    BY PostsOverStaleMarkers
  <1> QED BY <1>1, DeskInvariant, PTL DEF DeskSpec, OnlyStaleRunsAreRepeated

\* No mount, late answer, failure or second run takes back the verdict, its signed entry or
\* the decision the page has shown of a case in the store.
THEOREM CaseIsNotTakenBack == DeskSpec => VisitsKeepTheCase
  <1> DEFINE Keeps ==
        entry.there /\ entry'.there =>
            /\ caseRecord.verdict = "reached" => caseRecord'.verdict = "reached"
            /\ caseRecord.timeline \subseteq caseRecord'.timeline
            /\ statusLabel # "awaiting review" => statusLabel' = statusLabel
  <1>1. RouteInv /\ PageInv /\ [DeskNext]_deskVars => [Keeps]_pageVars
    <2>1. SUFFICES ASSUME RouteInv, PageInv, [DeskNext]_deskVars, entry.there, entry'.there
                   PROVE  Keeps
      BY DEF Keeps
    <2>2. Kept(entry')
      BY <2>1, CaseIsKept DEF RouteInv, PageInv, NoEntry
    <2>3. entry \in Entry
      BY <2>1 DEF PageInv, PageTypes
    <2>4. /\ entry.verdict # None => entry'.verdict # None
          /\ entry.disposition # "none" => entry'.disposition = entry.disposition
      BY <2>2 DEF Kept
    <2>5. /\ caseRecord.verdict = "reached" => caseRecord'.verdict = "reached"
          /\ caseRecord.timeline \subseteq caseRecord'.timeline
      BY <2>4 DEF caseRecord
    <2>6. statusLabel # "awaiting review" => statusLabel' = statusLabel
      BY <2>4 DEF statusLabel
    <2> QED BY <2>5, <2>6
  <1> QED BY <1>1, DeskInvariant, PTL DEF DeskSpec, VisitsKeepTheCase
=============================================================================
