# Attest: TLA+ models and proofs

Attest is an agentic security-operations platform. Events are collected,
detections run over them as streaming SQL, a classifier and language-model agents
judge the alerts, and every decision becomes a signed row of a hash-chained
attestation log that anyone can verify offline; analysts follow it in a web
workbench. This directory models the parts of it that keep state and run
concurrently, servers and browser pages alike, model-checks them with TLC on small
instances, and proves with TLAPS, for instances of every size, the safety
properties those runs pass. All paths below are relative to `src/`.

- [1. The system](#1-the-system)
- [2. Modules](#2-modules)
- [3. Runs](#3-runs)
- [4. Fairness](#4-fairness)
- [5. Proofs](#5-proofs)
- [6. Where code and text disagree](#6-where-code-and-text-disagree)
- [7. What is not modelled](#7-what-is-not-modelled)
- [8. Plan](#8-plan)

To repeat a check: `tlc -workers 2 -config <run>.cfg <module>`, with the module that
`PROJECT.json` names for the run; `tlapm <module>.tla` for the proofs, which are in the
eight modules whose names end in `Proofs` (AttestationLogProofs takes the longest).

## 1. The system

The path of an event, with the state each part keeps:

```
collector -> topic events -> RisingWave views -> detection runtime -> topic alerts
                    \-> Iceberg writer -> warm table -> (MCP gateway: query_warm_tier)
case page -> triage route -> orchestrator: triage -> LLM loops -> MCP gateway
                              |            \-> topic trace -> trace writer -> Postgres
                              v                            \-> WebSocket gateway -> browser
                        attestation log (bucket + NDJSON file) -> attest verify
RisingWave views -> control plane -> alert queue; metrics sampler -> load lab (browser)
simulation lab, public demo -> collector and orchestrator through their routes
```

| Component | State | Operations | What is hard | What makes it correct |
|---|---|---|---|---|
| Attestation log (`crates/attest-attestation`) | bucket objects, `tip.json`, NDJSON file, in-process mutex, signing key | `sign_and_append` (hydrate, read tip, two PUTs, local write), `read_all`, `verify_log` | the two PUTs and the file are not atomic; answers get lost; restarts on an empty disk; several processes over one bucket | one unforked chain, every acknowledged row readable, reads in append order, the mutex never leaked |
| Triage pipeline (`attest-orchestrator`: `triage.rs`, `auto_close.rs`) | none of its own: the log, the published trace, one draft per request | classify, calibrate, escalate, review, append, auto-close, investigate, human override | appends of concurrent requests interleave; any await may be the last; an append may fail | nothing is answered or shown that was not attested; auto-close only behind all gates; high-impact verdicts reviewed |
| LLM loops (`llm_loop.rs`, `guardrails.rs`, `mcp_client.rs`) | round counter, tool-call records, re-prompt counter | chat, call tools, reject or accept a verdict | the model answers anything, tools fail, two guardrails share one counter | accepted verdicts rest on calls that were allowed and cite only such; the loop ends |
| Policy engine and shadow check (`attest-policy-engine`, `attest-shadow-check`) | none | `authorize`, `authorize_query`, `check`, `check_responder` | spelling of names, thresholds | only the intended roles and principals pass |
| MCP gateway (`attest-mcp-gateway`) | the rate-limit window | `POST /invoke` | concurrent calls, dropped handlers, window edges | no unauthorised dispatch, a bounded rate |
| Iceberg writer (`attest-storage-iceberg`) | buffer, Kafka offsets, in-memory catalog, version hint | receive, flush on size, timer or ctrl_c, commit snapshot, persist hint | offsets commit before the data; snapshot and hint are two writes | losses bounded by the faults, events arrive |
| Detection runtime (`attest-detection-runtime`) | deployed views, seen set, connection | wait for schema, deploy, poll, deduplicate, send | one failing view among several, failed sends, restarts | at most one alert per pair and process; rows in the window get sent |
| Trace writer (`apps/ws-gateway`) | offsets, Postgres rows and connection | receive, upsert, insert, commit | stops between insert and commit, failed inserts, poison messages | steps get rows, skips bounded by faults |
| WebSocket gateway (`apps/ws-gateway`) | one consumer, channel and task per socket, one shared consumer group | connect, filter, send, close | the partition moves between sockets of different tenants; tasks outlive sockets | only own steps reach a tab, once; a sole viewer is served |
| Case triage (`apps/workbench`, `route.ts`, `case-repository.ts`) | case row, in-flight map, verdict cache, memoised schema | `POST /api/cases/[id]/triage` | state read before an await and used after it; overlapping runs; restarts | no run after a known verdict, requests answered |
| Case page (`use-triage.ts`, `case-store.ts`, `case-workbench.tsx`) | persisted store entry, module-level set of fired cases, refs and state of a mount, the analyst's decision | effects that read and post the triage, approve, override, evict, reload | four markers with four lifetimes decide whether to post; closures outlive their mount | a verdict and a decision shown stay shown; a pending triage is not repeated; the page settles |
| Trace of a case (`use-case-trace-ws.ts`, `case-workbench.tsx`, trace panel and steppers) | token, socket, timer; live steps, rows read back, keys persisted | connect, reconnect, merge, post, read | zombies after unmount; a step live and stored under ids and times that differ, by one of two writers that refuse each other's rows; rows that move under what is expanded; overlapping reads | one connection per mount; no row twice and no step without one; progress is kept; steps are stored; a citation shows its event |
| Alert queue (`use-alerts-ws.ts`, `alert-queue.tsx`, control plane's alert poller) | seen keys, live list, page index; the poller's keys, the broadcast channel | poll, broadcast, receive, filter, page | restarts, lagging sockets, gaps without replay | every alert but the ones broadcast in a gap is listed; no empty page |
| Load lab (`load-store.ts`, `load/page.tsx`, `load-gen`, metrics sampler) | status, history, socket; the generator's run | start, stop, ingest snapshot | a run's end is inferred from a stream that drops | a run is settled, the page gets charts |
| Simulation lab (`simulate/page.tsx` and routes) | scenario, run and poll state, interval; the batch | run, poll, select, batch | an interval started after an await; checks that are not of the run | only overlapping runs lose an interval or mix their stages; polling ends; a batch is summed up right |
| Clocks of the pages (`use-now.ts`) | the time last read, the start of a triage in sessionStorage | mount, tick, leave | ticks and rounding are out of step | ages and timers never lead and lag little |
| Public forms (`api/demo/run`, `api/waitlist` and their forms) | maps of request times | admit, run the demo, sign up | window edge, the map emptied when full | limits per window |
| Shell and session (`proxy.ts`, `api/auth`, sign-out buttons, sidebar, palette) | cookie, session, busy flags, sidebar, palette | sign in, sign out, navigate | two buttons, two tabs, failing requests | signed out means no cookie |

The collector, the specialists' entry points (Hunter, Responder), the inference
router, HELIQL and the rest are listed in `PROJECT.json` with their status; section 7
says why they are left out.

`PROJECT.json` lists the hazards, each at the line where it bites, with the
properties that catch it.

## 2. Modules

A component has a module; sums of components that share no state, and the pages
composed with the servers behind them, are modules too, and `MC<module>` instantiates
what is checked. Definitions keep
the names of the code where TLA+ allows it, and `PROJECT.json` maps each one to its
lines. Steps between two awaits are one action. Definitions whose name has a suffix
and whose comment begins "Mutant of" are deliberate bugs; no specification uses
them. They show that a property can fail: substituted for the definition they
name, each makes TLC report the property.

- **EnvelopeChain**: the pure algorithms over rows: `order_by_chain`, which rebuilds
  append order from a bucket listing, and `verify_log`. A row keeps `call` (which
  stands for its SHA-256, an injective function of the row), `id`, `prev` and `key`.
  `order_by_chain` is the *set* of sequences the code may return, because rows the
  walk does not reach come out in `HashMap` order.
- **AppendOnlyLog**: the abstract specification: a chain that grows by one row at
  its end.
- **AttestationLog**: `sign_and_append` await by await, per call and per process, with
  failing reads, refused PUTs, PUTs applied with the answer lost, torn local writes,
  crashes, fresh disks and ephemeral keys. `ImplementsAppendOnlyLog` is the
  refinement; the mapping takes `rows` to what `read_all` returns.
- **PolicyEngine**, **ShadowCheck**: the decisions as functions; confidences are in
  hundredths. Lower-casing is a function on a set of names.
- **Triage**: extends ShadowCheck and EnvelopeChain. The log is the abstract chain the
  AttestationLog module implements for one orchestrator, seen by its callers: an
  append succeeds, fails, or fails after the row was stored. Scores, verdicts of the
  model and of the reviewer are inputs. `failed` is a history variable: the appends
  that returned an error.
- **LlmLoop**: one session of the Triager's, the Investigator's or a specialist's
  loop. The model's turn is already parsed; a verdict keeps its label, its declared
  citations and the tag of each claim.
- **McpGateway**: extends PolicyEngine. Calls run concurrently, time is in ticks, the
  limiter is a `[window_start, count]` record as in the code.
- **IcebergConsumer**, **DetectionPoller**, **TraceWriter**, **WsGateway**: one loop
  each, with the broker or database it talks to as separate actions (asynchronous
  offset commits that arrive late, rebalancing, lost connections).
- **CaseTriage**: concurrent requests for one case in one Next.js process; every read
  is a step of its own, so a handler goes on with a row that may be stale. The
  enrichment with a baseline and the memoised schema promise are steps as well.
- **CasePage**: extends CaseTriage. One tab over that route: the persisted entry of the
  case store, the module-level `_triageFired`, the refs and state of a mount, each with
  its own lifetime. React runs effects before the next event (`due`); a cleanup and a
  rerun happen whenever `Deps` change. `Loading`, `caseRecord`, `statusLabel` and
  `Confidence` are what the page shows.
- **CaseTrace**: extends WsGateway with the hook that opens its sockets: a mount asks for
  a token, opens a socket, reconnects; a closure outlives its mount.
- **TraceView**: the trace the page shows: live steps, and the rows that the writer or the
  page's own POST stored. The table has one row for a case, action, kind and time; both
  inserts tolerate only an equal id, so the second one is refused, with the page's whole
  batch (`Insertable`, `PostRefused`). `MergeKey` is what the page merges steps by and
  `fingerprint` (action, kind and cut-off summary) what the timeline does: two steps that
  look alike share a row. The timeline, the steppers, the log and the panel are operators
  over that state.
- **TraceRows**: the rows of that timeline while steps arrive and are read back: a row is
  known by its place among its kind, and keeps what is expanded and the citations that were
  loaded.
- **Clocks**: `useNow`, the ages of alerts and the timer of a triage, over a clock that passes.
- **Selection**: `Pick(s, S)`, the items of `s` at the positions `S` in their order: what
  `filter` of the standard libraries returns. AlertFeed and TraceView select with it. It is
  not recursive, so that the table and the timeline can be reasoned about.
- **AlertFeed**: the control plane's alert poller and broadcast, the alerts hook, the
  table with its tabs, filters and page index.
- **LoadLab**: the load store and page, the generator's control server, the metrics
  sampler.
- **SimulateLab**: the picker with its scenarios and the runs of the simulation lab, numbered;
  `pollRef` is the interval the page knows of, `intervals` are those that tick. Of the four
  checks two look for the run's event (`landed`); the baseline's passes or not whatever the
  run, the gateway's when it answers. `overtaken` is a history variable.
- **BatchRuns**: the lab's batch: many requests at once and the percentiles of their answers.
- **PublicForms**: the demo's and the waitlist's rate limiters, the stages of the demo and
  what the forms show. The code keeps the times of the hits of a key; `hits` keeps each with
  a number, so that two requests of one time stay two. `grants` and `forgets` are history; a
  grant notes in which life of the map (`life`, how often it had been emptied) it was given.
- **Shell**: cookie and session, the two sign-out closures, a second tab, the sidebar, the
  palette and the busy flags. `signedOut` is history.
- **Doors** (McpGateway, LlmLoop, PublicForms, Shell), **Writers** (IcebergConsumer, TraceWriter,
  DetectionPoller), **LivePages** (CaseTrace, AlertFeed, LoadLab), **Labs** (SimulateLab,
  BatchRuns, TraceView, TraceRows, Clocks): sums. The parts share no state and every property is about one of them, so
  a behaviour of the whole is an interleaving of a behaviour of each, and a property that
  holds of each holds of it. A behaviour of the sum therefore chooses one part in `Init`:
  state spaces add instead of multiplying. Fairness is stated per part, under its choice.
- **CaseDesk**: either the page posts (CasePage) or anyone does (CaseTriage alone).
- **EnvelopeChainProofs**, **AttestationLogProofs**, **LlmLoopProofs**, **TriageProofs**,
  **DoorsProofs**, **WritersProofs**, **CaseDeskProofs**, **PagesProofs** (CaseTrace,
  AlertFeed, SimulateLab, TraceView, TraceRows and Clocks): the theorems of section 5.

How they compose: Triage and McpGateway extend the policy modules and use them in
their actions; Triage relies on the contract AppendOnlyLog states and AttestationLog
is shown to implement; an outcome of LlmLoop is one step (`Escalate`, `Investigate`)
of Triage; a `ToolRecord` of LlmLoop is what `Receive` and `ClientGivesUp` of
McpGateway leave in `record`; one POST to the orchestrator is one step
(`InvestigationReturns`, `InvestigationFails`) of CaseTriage. CasePage and CaseTrace
are true compositions: the page's requests are CaseTriage's, the hook's sockets are
WsGateway's. A live step of TraceView is one that CaseTrace put into the store, and a row of its
writer one that TraceWriter inserted; TraceWriter has the page's rows as an environment
(`PageStores`), whose steps its own insert is refused for.

## 3. Runs

Each run asks one question. States are distinct states, on two workers.

| Run | States | Question and answer |
|---|---|---|
| `log_objects` | 20 k | Does one orchestrator over a bucket keep one chain, whatever fails? Yes: unforked, reads in append order, acknowledged rows readable, only rows of another key fail verification, every call returns, and the whole refines AppendOnlyLog. |
| `log_file` | 293 k | A file-only log with torn writes and new keys takes no further row once a line does not parse. |
| `log_fork` | violation | Two orchestrators over one bucket: `read_all` is not append order (section 6). |
| `triage` | 1.4 M | Two triages and an override, interleaved, with dropped handlers and a failing append: answers are attested, gated and reviewed. |
| `triage_verify` | violation | A log with an auto-closed case does not verify (section 6). |
| `llm_evidence` | violation | A verdict is accepted with no successful call behind it (section 6). |
| `doors` | 1.7 M | Three concurrent tool calls over two windows of the limiter; all three loops against an arbitrary model and arbitrary tools, whose turns run out; three addresses at the public forms; two sign-out buttons and two tabs. |
| `writers` | 286 k | The warm writer, the trace writer and the detection poller with faults and restarts: what is lost or skipped, and that the rest arrives. |
| `live_pages` | 232 k | The three pages behind a WebSocket: connections per mount, foreign or repeated steps, missing alerts, empty table pages, runs that never settle. |
| `labs` | 504 k | The simulation lab's intervals, stages and batch, the trace a case page shows, keeps and stores with its rows and citations, and what the clocks show. |
| `case_page` | 1.0 M | The case page over its route, and three requests of anyone: repeated runs, verdicts and decisions taken back, pages that wait for ever. |
| `case_loading` | violation | A failed triage leaves its page loading (section 6). |

`live_pages`, `labs` and `case_page` take two to three minutes each, most of it for liveness.

**Bounds.** Three calls are enough for two rows that compete and a third that reads
the outcome; a fork, a lost answer followed by a retry and a rebuilt file all occur
within them. Four calls and two crashes in `log_file` let a torn line be followed by
a restart and further appends. In `triage` the alerts of request 1 reach every route
(classifier verdict, escalation, review, auto-close, refusal by the shadow check for
a protected name in another spelling or for its class, investigation) and request 3
adds a second case; scores sit on either side of every threshold. `MaxLogFaults = 1`
fails any one append. In `doors` three rounds and a cap of one re-prompt make the cap
and the last round of a loop collide in either order; a budget of one per window of two
ticks over three calls is the least in which a third grant in one span could show; three
addresses with a global limit of two and a map limit of three reach the global limit and
the emptied map; one fault and a second tab reach every order of the two sign-outs. In
`writers` a batch of two over three messages gives a full batch and a remainder, four
messages over two row ids repeat an id, and a window of one row over two events lets a
late event push a row out. In `live_pages` two mounts and one drop let a connection of
the first mount meet the second; one alert fault and a channel of two reach a gap and a
lag; a minimum of one tick with a history of three stands for 5 and 300. In `labs` two
runs of two scenarios, one that a rule can match and one that none does, with one fault are
enough for an interval to be lost and for the answer to one run to arrive under the other;
of the two checks that look for the event, which the code treats alike, the run has one,
and it has both of those that do not. Two visits, two reads at a time and one fault let
rows, live steps and reads overtake each other, with two steps that look alike; in the
timeline two of three steps cite one event, and one of them two; three
requests of a batch give no, one, two and three answers, and latencies that sort as numbers
and not as text; an interval of three ticks over units of four, two and two is neither
divided by them nor divides them. In `case_page` two posts of a tab, two visits, one disturbance, one
error, one fault and one restart reach every combination of the four markers; the three
requests of anyone are one too few for the exception `NoneAfterVerdict` makes, which the
proof found (section 5). Counters
that grow without bound in the code (restarts, faults, messages, time) are capped by
constants named `Max...` in the guards of the environment's actions; the code's own
actions have no such guard except `Start` in IcebergConsumer, whose liveness property
excepts the last stop, and user actions (start a run, open a page).

**Deadlock** is not checked: requests are answered, messages consumed and visits over,
and then the systems rest. What must not get stuck is stated as liveness instead.

**Symmetry** is used in `doors` only, which checks no liveness (`TurnsRunOut` is an action
property): calls are interchangeable there.

## 4. Fairness

Faults, crashes, clients and the environment never get fairness.

- AttestationLog: weak fairness of every call's step. The object-store client and the
  file system return a result or an error, and tokio's mutex is FIFO. Used by
  `CallsReturn`.
- IcebergConsumer, DetectionPoller, TraceWriter: the task of a running process is
  scheduled, its timer fires, its calls return or time out, and it is started again by
  its supervisor (`spawn_trace_writer`'s loop for the trace writer). The properties say
  which faults they except: `EventsReachTheTable` is stated for fault-free behaviours,
  `NewestRowsAreSent` for a process that stays up with its connection,
  `StepsGetRows` for a writer whose statements do not fail.
- CaseTrace with WsGateway: the broker settles the group, the task of a socket is
  scheduled, a token request ends, timers fire, a client that stays connected reads. Used
  by `SoleViewerIsServed`.
- AlertFeed: the control plane comes up and polls, a back-off ends, a connection that is
  attempted again and again is made. LoadLab: its handlers answer, the sampler ticks, the
  socket reconnects; a run's own end (`RunEnds`) has the fairness its duration gives it.
- SimulateLab: requests are answered, intervals tick, the 90 s pass; a check need never
  pass. TraceView: posted and read requests end.
- CaseTriage and CasePage: effects run, statements return and the orchestrator answers or
  closes the connection.
- A reader is never obliged to open, leave, click or retry.
- LlmLoop needs no fairness: `TurnsRunOut` says that every step takes something of a bounded
  round or ends it. Triage has no liveness property: the calibration sidecar's client has no timeout, so
  the code guarantees none.

## 5. Proofs

Every theorem is about the specification the runs check (for the loops, the simulation
lab, the trace, its rows and the clocks, about their parts of Doors and Labs), with any value of its constants that satisfies the
named assumption of its module. A property is seldom inductive; what is proved to be kept
by every step is an invariant of the name given below, and what it adds to the property
is the argument.

### The log (EnvelopeChainProofs, AttestationLogProofs)

- `LogTypeCorrect`: TypeOK, for every set of calls and processes, with or without a bucket,
  with or without disk faults. What a PUT stores is an envelope because the call signed it
  before, so the invariant is `TypeInv`, TypeOK with `SignedBeforeWrite`.
- `OrderOfLinearChain`: for objects that form an unforked chain, `order_by_chain` returns
  exactly one sequence, the rows in the order of their sequence numbers, whatever the
  order of the listing. This makes the tip a restarted process reads the true tip.
- `SingleWriterUnforked`: UnforkedChain. That a new row extends the chain depends on the
  tip still being the tip when it is stored. `ChainInv` adds `HoldsMutex` (a call inside
  `sign_and_append` holds the mutex, so at most one is), `Linear(objects, n)` (the objects
  carry the sequence numbers 0..n-1 and each points at its predecessor), `StoredIsPast` (a
  stored row belongs to a call past its PUT, so the row about to be stored is new),
  `TipStillFresh` (a call about to PUT signed onto the tip the bucket still has) and
  `FileAfterBucket` (the local file, which `read_all` falls back to when the bucket is
  empty, has no rows then).
- `SingleWriterReads`, `SingleWriterKeepsAcked`, `SingleWriterVerifies`: reads follow the
  chain, acknowledged rows are in every read, and `verify_log` rejects exactly the rows of
  another key. They follow from ChainInv and OrderOfLinearChain; the second also needs
  `RowIsKept` (a call past its PUT has its row in the bucket), the third that action ids
  are unique (`UniqueActions`): a row is accepted when its predecessor in the read is its
  predecessor in the chain (`ChainedRowsVerify`) and no other row has its id.
- `SingleWriterRefines`: `Spec => ImplementsAppendOnlyLog`. The mapping takes the abstract
  rows to what `read_all` returns; `ChainIsViewed` shows that this is the chain in the
  bucket, so the PUT of an envelope is the abstract append, also one whose answer is lost,
  and every other step, crashes and rebuilt files included, is a stutter.
- `UnreadableLogIsClosed`: the action property UnreadableLogRefuses, for any number of
  processes. `FileInv`: a call inside `sign_and_append` holds its process's mutex, and one
  about to write has read a file without a broken line (`WritesAfterRead`); a line torn by
  a call is torn while it holds the mutex, so no other has read the file before.

The theorems named SingleWriter assume one process whose bucket was configured before its
first row. With two processes they are false, as `log_fork` shows, and with earlier local
rows the chain does not begin at genesis.

### The pipeline and the agents (TriageProofs, LlmLoopProofs)

- `DecisionsPassTheirGates`, which joins `AutoCloseIsGated` and `HighImpactIsReviewed`,
  `AnswersAreAttested` and `OnlyAutoCloseRowsFail`:
  for any number of triages and overrides, any alerts, thresholds and scores and any failing
  appends. One invariant, `PipelineInv`: the types; `LogInv` (every row but the first points
  at the row before it, an action id comes back only in an auto-close row, rows passed their
  gates, and the request of an id in the log is past the append, so the id of a draft is
  new); `TriageInv(r)` and `OverrideInv(o)`, what a request's draft and answer say of the
  decision at each await, and that a row is `Kept` once decided: in the log, or its append
  returned an error. A step moves one request (`Local`) and only extends the log
  (`LogExtends`), so the others keep theirs; there is one lemma per action.
- `GuardrailsHold`: AcceptedIsGrounded, which no run checks, for every mode, cap and answer of the model. A loop
  that has not returned has no verdict (`ReturnsOnce`), so the tool records the verdict was
  checked against are the ones it ends with.
- `LoopRunsOut`: the action property TurnsRunOut, for every cap and every answer: every turn
  takes something of its round, and a re-prompt takes the round.

### Gateway, forms and session (DoorsProofs)

- `GatewayAuthorizes`: OnlyAuthorizedRuns, for any concurrent calls. `CallInv`: a call past
  the policies was allowed as the request it still is, at every await and in its answer.
- `BudgetsAreTwoAtMost`: TwoBudgetsAtMost, for any budget and window, and for spans that
  start at any time. `Accounts(w, k)`: the window that starts at w has k slots taken for
  the grants since w, the minute before w has one budget at most, and no grant is later
  than the window. A span that ends at a new grant reaches at most into these two.
- `LimitsAreKept`: LimitsHold, for any limits, window and addresses. `FormInv` says of each
  route: no grant is later than now or of a life that has not begun, and those of a life
  were given before the map was emptied at its end (`InOrder`); the map has, of the present
  life, every hit that is still in the window (`MapKnows`); and in any run of lives no more
  was let through, within the window, than the limit times their number (`LivesBounded`).
  The last is what the property needs and is stated for every run of lives, because a
  window ends anywhere in one: the lives that reach into it are one more than the times the
  map was emptied during it.
- `SessionIsShown`: ShellMatchesSession, for any set of sign-out buttons and any number of
  failures and sign-ins elsewhere. `SignOutTypes`: a busy button has a closure, and faults
  are counted, so that the part about an undisturbed tab is void after one.

### Writers (WritersProofs)

- `SkipsAreBounded`: SkipsBoundedByFaults. `WriterInv`: up to the offset the writer has
  dealt with, while its connection is up, and up to what it committed or may still commit,
  no more steps are without a row than statements failed (`Paid`). Once the connection is
  lost only the committed offset counts: failed inserts are not committed.
- `LossIsBounded`: LossBoundedByBatch, for any batch size and any number of faults and
  crashes. `WarmInv` counts more than the property does, the events received that neither
  the buffer nor the table *behind the hint* has, so that a crash while the hint lags
  costs nothing new; each fault or crash adds the buffer at most, and the buffer is a batch
  at most. While the hint is being written the buffer is in the catalog already.
- `AlertsAreSentOnce`: AtMostOncePerProcess, which no run checks. The key of a sent alert is in the seen set.

### The case desk (CaseDeskProofs)

- `LateRequestsAreAnswered`: NoneAfterVerdict. `RouteInv`: where no statement failed, every
  verdict the route can come by (in the row, awaited, answered) was reached by a run that
  is about to store and cache it, is cached, or was stored by an earlier process and
  nothing has been launched since (`VerdictsReached`); requests await runs of their own
  process; a late request finds the cache or a complete row. The first attempt failed for a
  reason: the property then said *after a verdict was answered*, which three requests
  satisfy and four do not. One that joined a run may be answered before the handler of
  that run has stored the verdict; when an overlapping run ends in between and removes
  the in-flight entry (`route.ts:286`), the next request finds nothing. The property is now
  stated for requests after that handler has ended, and TLC finds no violation of it
  or of RouteInv with four requests.
- `RunsAreRepeatedWhenStale`, `CaseIsNotTakenBack`: the action properties
  OnlyStaleRunsAreRepeated and VisitsKeepTheCase of the page over that route. `PageInv`: a
  load with a pending request has fired, a running marker was set, and a mount that has
  fired finds no reason to forget it. `Kept` says which writes of the store keep a verdict
  and a decision; every step is one of them or an eviction.

### Pages (PagesProofs)

- `OneConnection`: OneConnectionPerMount. `HookInv`: a mount waits for one token or one timer
  or has one socket, and one that is yet to come has none.
- `StoreHasOwnSteps`: StoreIsOwn. `WireInv`: what waits in a socket's channel or on its wire
  matches the claims of a token, and the store has each step once, also when the group
  resumes behind steps that were delivered.
- `OrphansNeedAnOverlap`, `StagesBelongToTheRun`: of the simulation lab alone (`SimSpec`, the
  part of Labs that is about it). `SimInv`: what is shown is of a run that was answered; and
  unless a run was overtaken, one run is active at a time, its interval is the one the
  page knows of, and polling is for the run that is shown (`Orderly`). `ScenarioInvariant`
  adds that the run shown is of the scenario selected. Nothing is proved of the checks of
  the baseline and of the gateway, which do not look at the run.
- `ReaderSeesRows`: PageHasRows, for any page size, severities and alerts. `TableInv`: the
  page index is 0 or less than the page count of the list *now* shown (`PageExists`), and
  back at 0 when the page is left; `RoundedUp` turns the count into a first row.
- `NoStepTwice`: StepsShownOnce, and `StagesStay`: the action property ProgressIsKept, of the
  trace alone (`ViewSpec`), for any list of steps. `ViewInv`: rows that were read are stored
  ones or the made-up step, and unless a read was misread every answer under way holds what
  was answered before. A stage is completed when the kinds of step on the page reach it
  (`Reached`), which more kinds never undo. Rows of the timeline differ in fingerprint, the
  first item of each is taken, and so every step has a row that looks like it, its own or
  that of a step with the same action, kind and summary.
- `ChipsAreTrue`: ChipsShowTheirEvent, of the rows alone (`RowsSpec`), for any steps and
  citations: what a chip has asked for or shows is what its key names.
- `TimesAreTrue`: ShownTimesAreTrue, of the clocks alone
  (`ClockSpec`), for any interval and lengths of the units. `ClockInv`: the time last read is
  a multiple of the interval, not ahead of the clock and less than two intervals behind it,
  because the next tick is due within one (`ClockStep`); the stored start is that of the first
  visit. The labels need that counts of counts are counts (`CountsNest`, `DivBounds`).
- `ReaderSeesRows`, `NoStepTwice` and `StagesStay` rest on `PickGives`: `Pick` has as many items as there are positions, each
  from one of the positions, each position once. It is proved from the cardinality of
  initial segments (`PlaceIsOneToOne`), with the least element of a set of naturals from
  the well-foundedness of `<`.

### Assumptions

`LogConstants`, `LoopConstants`, `TriageConstants` (of Triage, and the one of CaseTriage),
`ShadowCheckConstants`, `GatewayConstants` (of McpGateway, and the one of WsGateway),
`FormConstants`, `ShellConstants`, `IcebergConstants`, `WriterConstants`,
`PollerConstants`, `PageConstants`, `TraceConstants`, `AlertConstants`, `SimConstants`,
`ViewConstants`, `RowConstants` and `ClockConstants`: types of the constants, what serde or a token guarantees of an input (a
role is one of the roles, a message and a claim are a case and a tenant), disjoint ids. TLC
evaluates them in the runs. `UniqueActions` and `SingleWriter` are hypotheses of the
theorems that name them. No theorem bounds calls, requests, processes, crashes, faults or
time.

### Only model-checked

- Liveness, which needs fairness and ENABLED: `CallsReturn`, `EventsReachTheTable`, `NewestRowsAreSent`, `StepsGetRows`, `SoleViewerIsServed`,
  `QueueIsLive`, `RunIsSettled`, `PollingEnds`, `StepsArePersisted`, `PageSettles`.
- `order_by_chain` and `verify_log` on listings that are not one chain. What is proved of
  them is for the listings one orchestrator can leave; what they do with a fork is shown
  by `log_fork` on a small instance. For every input it would take induction over data,
  which the library states with operator parameters.

- `BatchIsSummarised`, which is about the ranks in a sorted sequence and needs induction
  over it.

Every other invariant and safety action property of the passing runs is a theorem. The
properties of the four violation runs are what section 6 refutes.

## 6. Where code and text disagree

Four are runs of their own.

- `log_fork`: two rows with one `prev_hash` make `order_by_chain` drop the earlier and
  return the later twice (`log.rs:320`), against "Returns in append order"
  (`log.rs:154`). The deployment templates allow several replicas, and a rolling update
  overlaps two processes.
- `triage_verify`: the auto-close envelope repeats the action id of the verdict
  (`auto_close.rs:157`), which `verify_log` rejects as a duplicate, and with it the next
  row. `OnlyAutoCloseBreaksVerify` in the run `triage` bounds the damage: no other row fails.
- `llm_evidence`: a tool that fails behind an allowing policy keeps "allow" in its record
  (`mcp_client.rs:155`), and `has_retrieved_evidence` asks for nothing else
  (`guardrails.rs:57`), against "at least one successful (non-error, non-denied) tool call"
  (`guardrails.rs:5`). The theorem `GuardrailsHold` is what the code does ensure: an allowed
  call, and only such calls cited.
- `case_loading`: the effect that posts a triage changes one of its own dependencies, so
  its closure counts as unmounted before the answer arrives and a failure is never shown
  (`use-triage.ts:126`); `case-workbench.tsx:175` says "True while the client-side triage
  fetch is in flight." `PageSettles` in the run `case_page` bounds it: without a failure,
  a restart or a reload the page comes to a verdict.

The rest were met while modelling; the models keep the code's behaviour and the
properties are stated around it.

- A failed PUT of `tip.json` errs with the row stored (`log.rs:274`); the comment at
  `log.rs:192` says the tip does not move.
- A bucket added to a deployment that already has a local log never reaches genesis, so
  the order of its rows is undefined (`log.rs:330`).
- A failed append of a verdict is only logged and the verdict answered with 200
  (`triage.rs:391`); `AnsweredIsAttested` excepts exactly that.
- The auto-close gate takes the probability of a true positive as the confidence in a
  benign verdict (`triage.rs:432`); the policy engine documents "Calibrated probability
  (0–1) that the verdict is correct."
- `attest replay` derives the verdict from the raw score (`attest-cli/src/lib.rs:183`), the
  pipeline from the calibrated one or from the language model.
- The calibration client has no timeout (`calibration.rs:36`); its comment promises a
  fallback when the sidecar is unavailable.
- One citation excuses every untagged claim (`guardrails.rs:239`), and the "per-check"
  re-prompts share a counter (`llm_loop.rs:495`). An Investigator's verdict is not reviewed,
  whatever its impact.
- The limiter lets two budgets through within a minute across a window edge
  (`warm_limit.rs:36`); `TwoBudgetsAtMost` is the bound that holds.
- The warm writer commits offsets of buffered events (`consumer.rs:80`), clears the
  buffer after a failed flush (`consumer.rs:108`), and a failed hint write hides a
  committed snapshot from a restart (`writer.rs:96`).
- A failed alert send is never retried (`poller.rs:96`), and a lost RisingWave connection
  is never remade (detection runtime, `main.rs:135`).
- The trace writer's next commit passes over a failed insert (`ws-gateway/src/main.rs:173`)
  and a lost Postgres connection is not noticed (line 133).
- Every socket joins one consumer group (line 281), so two viewers do not both get a step.
- Two POSTs that arrive together both investigate (`route.ts:190`), against the comment at
  line 14. The first of them to end takes the other's entry out of the in-flight map
  (`route.ts:286`), so a further POST, even after the verdict of the other run was answered
  to one that joined it, may investigate again until that verdict is stored and cached. A
  rejected `ensureCaseSchema` is kept, and every later statement fails until the process is
  restarted (`case-repository.ts:17`). A baseline that cannot be fetched counts as a
  deviation of 0.
- Case page: a reload during a run leaves the page waiting for the marker to expire; an
  override is announced before it is posted and stays when the POST fails
  (`case-workbench.tsx:219`), or when it is refused because the case has no envelope yet
  (`triage.rs:724`, a 404), as the buttons allow while the case is being analysed (line
  296); "Attestation Valid" is fixed text (line 385); a failed triage
  with a terminal step shows 0 % confidence.
- Trace: the writer's row id has the time as `+00:00` (`ws-gateway/src/main.rs:225`), the
  page's as `Z`, and both inserts pass over a conflict of ids only (line 260,
  `case-repository.ts:194`), while the table is unique in case, action, kind and time (line
  210): whichever comes second is refused, the page's with its whole batch, whose new steps
  this mount does not send again. Steps with equal action, kind and first 200 characters
  collapse in the timeline (`reasoning-trace-viewer.tsx:247`); a step read back before an
  expanded row takes its place (line 236); a failed read empties the rows and hides the live
  ones in the panel; the made-up `triage_complete` goes once a row exists; the log shows a
  step live and read back, the latter at time 0 (`investigator-trace-stepper.tsx:231`).
- Alerts: what is broadcast while the socket is away is not shown until a reload, against
  "if the server reconnects and replays" (`use-alerts-ws.ts:24`); a live alert hides the
  enriched row of its event; two detections of one event collapse into one alert; a hook
  whose page is gone goes on reconnecting, in the trace as well (the load lab checks).
- Simulation lab: a run started over a pending one loses the interval of the first and may
  show its checks (`simulate/page.tsx:264`), and the picker lets one be started (line 187).
  Of the four checks the baseline's passes for any event of the user (`verify/route.ts:42`)
  and the gateway's when it lists its tools (line 79). The Okta scenarios can match no rule, so
  their runs poll until the time-out. A batch takes a request whose services failed for a
  success.
- Clocks: the timer of a second triage of a case counts from the first one's start
  (`investigator-trace-stepper.tsx:249`).
- Forms: the demo says PASS with the collector down or the envelope missing, against "If
  the collector or orchestrator is down, this page says so instead of faking a pass."
  (`try-demo-section.tsx:97`); emptying the full map forgets the global count
  (`demo/run/route.ts:54`); a waitlist entry refused by validation uses up a place.
- Shell: a sign-out whose second request throws leaves its button disabled, one whose second
  request is answered with an error goes on as if it had succeeded
  (`sign-out-button.tsx:18`); a late closure signs out a newer session; the sidebar's cookie
  is written and never read.

Known hazards that no property covers: a bucket added to a deployment with a local log
(`log.rs:330`; `ReadsFollowTheChain` fails with `OldRows` and `UseObjects`, and the run
starts from an empty deployment); the silent calibration sidecar (`calibration.rs:36`) and
the RisingWave connection that is not remade (`main.rs:135`), which follow from the code
by inspection.

## 7. What is not modelled

- Cryptography, hashing, serialisation and UUIDs: injective functions, fresh names.
- Feature extraction, ONNX inference, novelty score, training, evaluation: numeric data,
  taken as inputs.
- Prompts, tool-call recognition in text, SQL scanning, HELIQL's parser and compiler: text.
- The collector and the Hunter's and Responder's entry points: they have behaviour worth
  modelling; see the plan. The control plane's schema creation and REST queries and the
  traffic of the load generator: no state of their own.
- The history of simulated runs (`simulate-store.ts`), which nothing reads.
- Read-only routes, dashboards, marketing pages, styling, the authentication library,
  Helm, Terraform, telemetry: no protocol of their own. Of the modelled pages the wording
  and the layout are left out; the conditions under which a part is shown are kept.

## 8. Plan

Done first, because the rest of the system relies on it: the log, with its abstract
specification and its proofs; then the pipeline that writes to it, the agents' loop and
the gateway; the data path and the viewers; then the workbench: the case page over its
route, the trace over its gateway, the other live pages, the labs, the forms and the
session. Next, in this order:

1. `Specialists`: `run_hunt`, `run_respond` and the coordinator's routing over
   `check_responder`, with the hourly action count that is never fed
   (`specialists.rs`, `coordinator.rs`); the Responder's action only behind shadow check
   and policy, attested before it is shown.
2. `Collector`: produce part way, redelivery, composed with IcebergConsumer through the
   topic.
3. The composition of LlmLoop and McpGateway, so that a session's records are the
   gateway's answers; that the composition implements LlmLoop.
4. Proofs: of the sums Doors and Labs where the theorems speak part by part.
