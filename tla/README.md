# A verification of Reqruit

Reqruit helps a user through a job search: it finds and tracks jobs, writes
cover letters and whole application packages with agents that call language
models, and stops for the user's decision before anything counts as approved.
The backend (`src/backend/src`) is a FastAPI process over MongoDB and Weaviate,
with LangGraph workflows whose checkpoints MongoDB keeps too; the front end is a
Next.js monorepo.

The code is asynchronous and almost nothing in it is a transaction.  A handler
reads a document or a checkpoint, awaits, and writes; two tabs of one user,
a lost connection or a restart of the server fall between any two of those
steps.  The modules here model those parts of the backend and say what may
still be relied on.  TLC checks them on small instances, TLAPS proves the most
important facts for every size.

Paths below are relative to `src/backend/src` unless they say otherwise.

## 1. The system

### 1.1 Parts, state and operations

What overlapping requests, restarts and failing services can disturb:

| Part | State it keeps | Operations that change it | Module |
| --- | --- | --- | --- |
| LLM routing: `llm/circuit_breaker.py`, `llm/manager.py`, `agents/base.py` | one circuit per provider, in memory | `is_available`, `record_success`, `record_failure`, around the awaited call of `BaseAgent.__call__` | `ModelRouting` |
| Document store: `repositories/document_repository.py` | `document_records`, unique on (application, type, version) | `create_versioned` and its retry loop; the approval update | `DocumentVersions`, `CoverLetter` |
| Cover letter workflow: `api/routes/apply.py`, `workflows/graphs/cover_letter.py` | the documents and the checkpoints of the thread of each | start, stream (SSE), review | `CoverLetter` |
| Application assembly: `api/routes/application_assembly.py`, its graph; `api/routes/track.py` | `applications` with their status, the checkpoints of their threads | start, review, edit, save, delete; the status route | `ApplicationAssembly` |
| Sessions: `api/routes/auth.py`, `repositories/refresh_token_repository.py` | `refresh_tokens`, in families | register, login, refresh | `RefreshTokens` |
| Job catalogue: `api/routes/jobs.py` | `jobs` and what belongs to a job | add by hand, index in the background, delete with a cascade | `JobCascade` |
| Streaks and points: `api/routes/activity.py`, `services/streak_service.py` | one document per user and day | track an action | `UserActivity` |
| Scam reports: `services/trust/scam_report_service.py` | reports with a badge | report, verify | `ScamReports` |
| Interviews: `api/routes/interviews.py` | an interview's questions, mock sessions | generate, start, answer, complete, delete | `MockInterview` |
| Resumes: `api/routes/profile.py` | resumes, one of them the master | upload, make master, delete, parse again | `ResumeLibrary` |
| Interview coach: `api/routes/interview_coach.py` and its graph | checkpoints, performance records | start, answer, save | `InterviewCoach` |
| Negotiation: `api/routes/negotiation.py` and its graph | checkpoints, one session record | simulate, respond, delete | `Negotiation` |
| Integrations: `services/integration_service.py`, `tasks/integration_tasks.py` | one connection per provider, the provider's grants | connect, disconnect, refresh of tokens | `Integrations` |
| Background tasks: `services/task_service.py` | task records, the queue's messages | submit, cancel | `BackgroundTasks` |
| Vector store: `services/indexing_service.py`, `repositories/weaviate_base.py` | objects per document | index, remove | `SearchIndex` |
| Job description cache: `services/jd_cache_service.py` | an entry in Redis before one in MongoDB | get or analyze, expiry | `DescriptionCache` |
| Outcomes: `services/outcome_service.py` | one tracker per application | record an outcome | `OutcomeTracker` |
| Offers: `repositories/offer_repository.py` | outcomes of negotiations, benchmarks over them | record an outcome | `NegotiationOutcomes` |
| Usage: `llm/cost_tracker.py`, `tasks/cost_tasks.py`, `services/usage_service.py` | calls, entries of days, weeks and months | record, roll up, ask for the tier (which lets everyone pass) | `UsageLedger` |
| Job sources: `tasks/discovery_tasks.py` and its repositories | the health of each source, shortlists of days | check, switch off, make a shortlist | `JobSources` |

What is a calculation over the data of one request:

| Part | Module |
| --- | --- |
| cutting texts for the vector store, `rag/chunker.py` | `Chunker` |
| pay after tax, `services/locale_service.py` | `PayFigures` |
| the value of a grant, `services/esop_valuation_service.py` | `EquityGrant` |
| an offer's place in the market, `services/market_positioning.py` | `MarketPosition` |
| the choice between offers, `services/decision_framework.py` | `OfferDecision` |
| the day of a schedule, `services/batch_and_breathe_scheduler.py` | `WeekPlan` |
| views of outcomes, `services/success_analytics.py` | `SuccessAnalytics` |
| the chance of a reply, `services/effort_per_chance_engine.py` | `ReplyChance` |

Migrations, nudges, external data, agents, guardrails, trust assistants,
wellness, profiles, onboarding and skills, start-up and the front end are not
modelled; section 7 says why.  `PROJECT.json` names the source files of each
part and how much of it is modelled.

### 1.2 How they interact

* A route calls repositories and compiled graphs, each call an await.  A graph
  runs its nodes one after the other; most nodes call an agent, the agent calls
  `ModelManager.get_model_with_config` (which walks the routing table past
  open circuits), awaits the provider and reports the outcome to the breaker.
* The graphs share a MongoDB checkpointer.  A run loads the latest checkpoint
  of its thread, keeps a copy of the state of its own, and saves a checkpoint
  after each node.  `human_review` calls `interrupt()`: the run ends there and
  a later request resumes the thread with `Command(resume=...)`.
* The documents know their thread, not the other way round: a route that has run
  a graph updates a document in a separate write.  No code compares the two.
* The only guards across requests are unique indexes (versions, reports,
  connections, cached descriptions, trackers, days of activity), two
  compare-and-swaps (refresh tokens, outcomes), the atomic increment of the usage
  ledger, and checks such as `find_in_progress_assembly` that are made some
  awaits before the insert they guard.
* What users do not wait for runs in the same process after the response
  (indexing, parsing) or is handed to a queue (`BackgroundTasks`).  No worker of
  the delivered program knows any of the queued tasks.
* Services write to MongoDB, Redis and Weaviate one call at a time, and each of
  the three may fail alone.

### 1.3 What is hard, and what makes each part correct

* *Routing.*  Answers of calls that began before an outage arrive in any state
  of the circuit.  Correct: the three fields of a circuit agree; a call goes to
  the first usable provider of its route; a provider that recovered gets its
  traffic back.
* *Document versions.*  Starts that overlap read the same version.  Correct:
  versions are 1..n, newest and highest agree, a start fails only under real
  contention, and two generations are in progress only if their starts overlapped.
* *Cover letter.*  Check and use are separated by awaits in each of the three
  handlers, and graph and document are saved separately.  Correct: nothing is
  approved that the user has not seen, a review returns what the writer wrote, a
  decision is recorded where it belongs, and a generation that was started
  arrives.
* *Assembly.*  The same, with edits that write into the thread from outside the
  graph and a status that other routes move.  Correct: one assembly at a time,
  a package whose parts belong together, a decided application does not block
  the next, and no late write undoes a later one.
* *Sessions.*  A token is revoked and its successor stored in separate calls.
  Correct: a session never splits, one that ended has no live token but that of a
  rotation that was under way then, and a client that behaves is not taken for a
  thief.
* *Cascade.*  Six deletions one after the other, while other tabs create what is
  being deleted.  Correct: a job and its application come and go together and
  leave nothing behind.
* *Documents saved whole* (activity, resumes' master flag, offers, source
  health).  What a handler read may be old when it writes.  Correct: nothing
  acknowledged is lost, and one flag is set, unless two requests really crossed.
* *Looping graphs* (coach, negotiation).  A node that interrupts runs again from
  its beginning when it is resumed, and two requests may resume one thread.
  Correct: no question is skipped or scored twice, every accepted answer is in
  the transcript once, a session has one record.
* *Two stores that must agree* (record and queue, provider and connection, Redis
  and MongoDB, vectors and text).  Either write may fail.  Correct: the record
  tells what was sent, no valid grant is lost, nothing older than both lifetimes
  is served, a text has each of its chunks once.
* *Totals* (usage).  Calls are counted while days are summed.  Correct: each
  cost is counted once, and no week or month says more than its days.
* *Calculations.*  Their hazards are borders, ties and empty inputs.  Correct:
  parts add up to the whole, better inputs give no worse answers, and views of
  the same data agree.

The hazards, line by line, with the property that covers each, are under
`hazards` in `PROJECT.json`; section 6 has those that no property covers.

## 2. The modules

| Module | What it is | Instance for TLC | Proofs |
| --- | --- | --- | --- |
| `ModelRouting` | breakers, routing walk and call protocol | `MCModelRouting` | `ModelRouting_proofs` |
| `DocumentLedger` | abstract: documents are numbered in one step | | |
| `DocumentVersions` | the duplicate check and `create_versioned`, implements `DocumentLedger` | `MCDocumentVersions` | `DocumentVersions_proofs` |
| `ApprovalGate` | abstract: content is presented, then approved, once | | |
| `CoverLetter` | the three handlers, the graph, the two stores; creates documents by `DocumentLedger` and implements `ApprovalGate` for one tab | `CoverLetter_*.cfg` | `CoverLetter_proofs` |
| `RefreshTokens` | token rotation | `MCRefreshTokens` | `RefreshTokens_proofs` |
| `ApplicationAssembly` | assembly, its graph and the pipeline | `MCApplicationAssembly` | `ApplicationAssembly_proofs` |
| `JobCascade`, `UserActivity`, `ScamReports`, `MockInterview`, `ResumeLibrary`, `InterviewCoach`, `Negotiation`, `Integrations`, `BackgroundTasks` | the endpoints of one part and what they leave running (2.6) | by `Routes`; `ResumeLibrary.cfg`, `Negotiation.cfg` | by `Routes` |
| `Routes` | the nine parts of the row above, side by side | `MCRoutes` | `RoutesSessions_proofs`, `Routes_proofs` |
| `SearchIndex`, `DescriptionCache`, `OutcomeTracker`, `NegotiationOutcomes`, `UsageLedger`, `JobSources` | services with state of their own (2.7) | by `Services` | by `Services` |
| `Chunker`, `PayFigures`, `EquityGrant`, `MarketPosition`, `OfferDecision`, `WeekPlan`, `SuccessAnalytics`, `ReplyChance` | calculations (2.8) | by `Services` | by `Services` |
| `Services` | the fourteen parts of the two rows above, side by side | `MCServices` | `Services_proofs` |

In all modules with state a *client* (a tab, a call, a start, a worker) has one
request outstanding and `handler[c].pc` is the await at which its handler stands;
one action runs from an await to the next.  A variable with `(history)` behind it
is not in the code; it remembers what a property has to speak of.  An operator
introduced by "A mutant:" is a plausible wrong version of the definition that
follows it; no specification uses it, and putting it in the place of its neighbour
makes a property fail, so each property is known to depend on the code it is
about.

`Routes` and `Services` compose modules that share no state: a variable
`part` says which of them a behaviour is about, and a property of the composition
is `part = ... => M!Property`, for one module or a few that promise the same kind
of thing.  Interleaving modules that share nothing would show nothing more.
Both have the constants of their parts for their own, with their assumptions, so
that their theorems hold for every value of them.

### 2.1 ModelRouting

| Model | Code |
| --- | --- |
| `circuit[p]` | `CircuitBreaker._circuits[p]`: `state`, `failure_count`, `last_failure_time` |
| `call[k]` | the locals of one `BaseAgent.__call__` |
| `StartCall`, `Refuse` | `get_model_with_config`: the walk, `is_available` with its side effect, `LLM_ALL_PROVIDERS_UNAVAILABLE` |
| `CallSucceeds`, `CallFails`, `CallCancelled` | the three ways out of `__call__`; a cancelled call reports nothing |
| `Tick`, `Outage`, `Repair` | the clock and the providers |

Breaker methods contain no await, so each is one step.  `elapsed` is
`monotonic() - last_failure_time` saturated at the timeout and
`failure_count` stops at the threshold: the code compares each with that value
only.

### 2.2 DocumentVersions and DocumentLedger

`Blocked` and `Accepted` are the duplicate check of `start_cover_letter`, of which
`known` keeps the documents it met; `Approve` is the update of
`review_cover_letter` that ends a generation.
`ReadVersion` is the query of `_get_next_version` together with the
`before_event(Insert)` stamp; `Insert`, `Retry` and `GiveUp` are the three
outcomes of the insert under the unique index; `Abort` is a crash, the rate limit or
any other error.  `DocumentLedger` is the promise: the n-th document gets version n, at
once.  The stamps of two readings of the clock are taken to differ, and all
workers to share one clock.

### 2.3 CoverLetter and ApprovalGate

| Model | Code |
| --- | --- |
| `version`, `letter` | `DocumentRecord`: version; content, approval, feedback |
| `checkpoint[t]` | the latest checkpoint: next node, draft, the resume in use |
| `tab[c]` | what `use-sse-stream.ts` shows: the thread and the draft |
| `StartAccepted`, `StartBlocked`, `StartRefused`, `StartCreates` | `start_cover_letter`: duplicate detection, rate limit and version conflict, creation |
| `StreamCompleted`, `StreamAwaitsReview`, `StreamInFlight`, `StreamFresh` | the four cases of `stream_cover_letter` |
| `ChooseResume`, `Begin`, `Load`, `Prepare`, `WriteCoverLetter`, `HumanReview`, `Interrupt`, `NodeRaises`, `GraphReturns` | the run of the graph, a node and its checkpoint at a time |
| `Review`, `ReviewRefused`, `ReadLatest`, `RecordApproval`, `RecordRevision` | `review_cover_letter` before and after the graph |
| `Disconnect`, `Crash` | the client goes away; the server restarts |

The writer may answer with nothing at all: `EmptyText` is one of the `Texts`.
`NoText` stands for a state that has no `cover_letter` yet, which `Result` turns
into the empty text as `result.get("cover_letter", "")` does.

### 2.4 RefreshTokens

`Refresh` is the compare-and-swap `revoke_by_jti`; `Issue` stores the successor;
`RefreshReused` and `RevokeFamily` are the branch of a token that was used
before.  `Answer` delivers the response or loses it.  `OpenTab` copies the token
to a second tab.  `disturbed` collects the sessions that lost an answer or got a
second tab.  `ended` collects the sessions that ended (a token was used again, the
user is gone, or a restart cut a rotation off), `overtaken` those of them of which a rotation was
under way at that moment: it has revoked the old token and stores the successor
after `revoke_family` has passed.

### 2.5 ApplicationAssembly

| Model | Code |
| --- | --- |
| `status`, `threaded` | `Application.status` and whether it has a `thread_id` |
| `checkpoint[a]` | the next node of its thread, and whether letter and resume belong together |
| `StartAccepted`, `StartCreates`, `Begin` | `start_assembly` |
| `PlainNode`, `TailorResume`, `GenerateCoverLetter`, `HumanReview`, `Interrupt`, `NodeRaises` | the graph |
| `Review`, `Load`, `Record` | `review_assembly` |
| `Edit`, `EditLoads`, `EditPuts` | `edit_application`: the check, then the two halves of `aupdate_state`; the letter becomes the user's, or stays what it was if only the pitch is edited; an edit of nothing writes nothing and is left out |
| `AddApplication` | `add_job_manually` and `save_assembly`, whose documents have no thread |
| `Patch`, `PatchWrites` | the status route of `track.py`: validation, write |
| `Delete` | `delete_application`; the checkpoints stay |
| `Crash` | the server restarts |

### 2.6 The routes

| Module | Model | Code |
| --- | --- | --- |
| `JobCascade` | `AddJob`, `AddApplication`, `IndexReads`, `IndexStores` | `add_job_manually` and its background task |
| | `Create`, `Insert`, `DeleteChild`, `DeleteApplication` | what other endpoints store under an application (letter, message, interview, mock session) and delete |
| | `DeleteJob`, `RemoveChildren`, `RemoveApplication`, `RemoveEmbedding`, `RemoveJob`, `Fails`, `Crash` | the deletions of `delete_job` in the order of `Cascade` |
| `UserActivity` | `Track`, `Insert`, `Check`, `Save` | `track_action`, `get_or_create_today`, `check_and_update_streak` |
| | `Record`, `Refuse`, `Append`, `Midnight` | `record_action`; the date changes between any two awaits |
| `ScamReports` | `Submit`, `Insert`, `LookAtBadge`, `Count`, `Apply`, `Verify` | `submit_report`, `_check_and_apply_badge`, `admin_verify_report` |
| `MockInterview` | `Generate`, `StoreQuestions`, `Start`, `Create`, `Submit`, `StoreAnswer`, `Complete`, `StoreSummary`, `DeleteSession`, `DeleteInterview` | the endpoints of `interviews.py`, before and after the model's answer |
| `ResumeLibrary` | `Upload`, `Unset`, `Create`, `MakeMaster`, `SetMaster`, `DropMaster`, `Delete`, `Reparse` | `upload_resume`, `update_resume`, `delete_resume`, `reparse_resume` |
| | `Queue`, `Process`, `Skip`, `TaskFails`, `CutOff` | `_parse_resume_background` |
| `InterviewCoach` | `Start`, `Begin`, `Answer`, `Return` | the endpoints around the run of the graph |
| | `PredictQuestions` ... `Debrief`, `InsertRecord`, `SavePerformance` | the nodes; the last one inserts a record before its checkpoint is saved |
| | `SaveSession`, `CreateRecord` | `save_session` |
| `Negotiation` | `Simulate`, `Begin`, `Respond`, `Persist`, `Read` | the endpoints |
| | `Complete`, `Resume`, `Interrupt`, `NothingToRun` | one execution of the looping node: the coach ends the simulation, or an answer is handed over, or the run ends at `interrupt()` |
| `Integrations` | `Callback`, `Exchange`, `Write` | `complete_connection` around the exchange of the code |
| | `Disconnect`, `Revoke`, `Purge` | `disconnect` |
| | `ListExpiring`, `RefreshTokens`, `UpdateTokens`, `RefreshFails` | `_refresh_all_expiring_tokens` |
| `BackgroundTasks` | `Submit`, `Create`, `Dispatch`, `SaveSent`, `SaveRefused`, `Cancel`, `SaveCancelled` | `submit_task`, `cancel_task` |
| | `Discard` | a Celery worker that does not know the task's name |

`Crash`, `CutOff`, `Cut`, `Restart`, `Abandon` end a handler where it stands.

The cascade covers jobs added by hand only: an assembled application has the
placeholder of `application_assembly.py:128` for its job, so `delete_job` never
finds it.  The days before `FirstDay` of `UserActivity` are quiet (one action or
none): `Init` takes every such past, so that streaks long enough for freezes and
milestones meet requests that overlap.  In `ScamReports` deepfake reports without
a name share the entity `"unknown"`, and a review that answers `verified=false`
verifies all the same, as in the code.  `week_start_xp` of an activity is carried
over and never reset; points and leagues are functions of what is kept.

### 2.7 The services with state

| Module | Model | Code |
| --- | --- | --- |
| `SearchIndex` | `Start`, `Index`, `Remove`, `Read`, `Search`, `Delete`, `Deleted`, `EnsureTenant`, `Embed`, `Insert` | `index_resume`, `index_job`, `delete_job_embeddings`, `_delete_existing`, `_embed_and_store` over `WeaviateRepository` |
| | `Raises`, `Fail`, `Succeed`, `DeleteResume`, `Restart` | the ways a run ends |
| `DescriptionCache` | `Ask`, `ReadRedis`, `ReadMongo`, `Copy`, `Analyze`, `Check`, `Create`, `Store`, `Raises` | `get_or_analyze` |
| | `Expire`, `NextDay` | the TTL monitor of MongoDB; the clock |
| `OutcomeTracker` | `Record`, `Find`, `Update`, `Create`, `Delete` | `create_or_update_tracker`: application, tracker, then compare-and-swap or insert; deleting an application leaves its tracker |
| `NegotiationOutcomes` | `Read`, `Save`, `Restart` | `OfferRepository.record_outcome`, which saves the whole document |
| | `Matching`, `Groups`, `Cohort`, `Benchmarks` | the pipeline of `get_anonymized_benchmarks`, as the set of answers it may give |
| `UsageLedger` | `Ask` | `enforce_tier_limit`, which lets everyone pass |
| | `Insert`, `Count`, `CountFails`, `End` | `on_llm_end`, `increment_usage` |
| | `BeginRollup`, `SumWeek`, `SaveWeek`, `SumMonth`, `SaveMonth`, `RollupFails`, `NextDay` | `aggregate_usage_rollups` |
| `JobSources` | `BeginCheck`, `Read`, `Write`, `RecordRaises`, `Toggle` | `_check_all_sources`, `record_check`, `set_disabled` |
| | `UpdatePreferences`, `BeginMaking`, `Exists`, `Query`, `Create`, `MakingFails`, `NextDay` | `update_preferences`, `_generate_all_shortlists` |

Three of these cannot run as delivered and are modelled as they are written: the
update of a tracker calls `Document.find_one_and_update` and the ledger
`get_motor_collection`, which the locked Beanie 2.0.1 has not, and no worker has
the tasks of `discovery_tasks.py` registered.  What the code then does (the request
ends before its update, the callback logs a failure, nothing is checked) is a
behaviour of the modules too.

The entries of `UsageLedger` are those under the string `str(current_user.id)`, by
which the callback counts and the roll-up sums.  `enforce_tier_limit` is attached to
no route, and it would ask under the `ObjectId`, by which there is no entry: it
takes the costs of week and day for 0, so `Ask` has no guard and the module no cap.

### 2.8 The calculations

Each has a `question`, an `answer` and `answered`: its one action, named for the
code, takes any question of a bounded range and answers it.  The module's
property relates the answer to a reference or to the answers to other questions.

| Module | Action | Property |
| --- | --- | --- |
| `Chunker` | `Cut`: headings by pattern and order, preamble, windows with overlap | `ChunksCoverText`: every line that is not a heading is in one chunk, of the heading above it; without headings every word is in a window |
| `PayFigures` | `Decode`: the slabs of each regime, deduction, monthly figures | `PayAddsUp`: the lines are the pay, a raise is more in hand, no slab starts with a jump of the tax |
| `EquityGrant` | `Value`: cliff, tranches, two taxes | `GrantAddsUp`: tranches are the grant, no rupee is taxed twice |
| `MarketPosition` | `Position`: percentile between benchmarks | `PercentileInOrder`: more pay never stands lower |
| `OfferDecision` | `Decide`: weighted scores, sensitivity of each weight | `StrongerOfferLeads`: the recommended offer is beaten by none on all that counts |
| `WeekPlan` | `Schedule`: ratios, limit of applications, blocks | `DayFits`: blocks do not overlap, fill the time there is, and keep to the limit |
| `SuccessAnalytics` | `Analyze`: rates, comparison, ranking, windows | `ViewsAgree` |
| `ReplyChance` | `Predict`: product of factors, calibration by history | `ChanceFollowsHistory` |

Figures are integers in a unit that makes the code's arithmetic exact for the
inputs asked about; where the code rounds for display, the model does not.  Known
oddities are excepted by name in the properties: a package smaller than its
one-time parts decodes into negative pay, a fair market value below the strike
price taxes the gain from the value, weights below a tenth make others negative, a
rest day shorter than half an hour or longer than to the evening does not fit, and
the first ten applications of a user may move the chance either way.

### 2.9 What is assumed of the libraries

LangGraph 1.0.8 (the locked version) is modelled from its use: a run executes on
its own copy and saves after each node; `interrupt()` ends it with the thread
still at that node; a resume value meant for `human_review` is dropped when the
thread is elsewhere by the time it is loaded; `aupdate_state` loads the latest
checkpoint and puts a copy with the same next node.  MongoDB's single document
updates are atomic, its unique index holds, and a read sees every earlier write.  Redis
drops an entry to the second and MongoDB's TTL monitor some time after.  An event
loop switches at awaits only.

## 3. What TLC checks

| Run | Instance | Shows |
| --- | --- | --- |
| `routing` | 3 providers, one without a key, 2 routes with a common fallback, 2 calls, threshold 2, timeout 2 | `CircuitConsistent`, `RoutesByPriority`, and `TrafficReturns` under fairness |
| `versions` | 4 starts, 3 attempts, approvals | `DuplicatesOverlapped`, `VersionsContiguous`, `ConflictNeedsContention`, and that it implements `DocumentLedger` |
| `letter_tabs` | 2 tabs, 1 thread, 2 texts, one of them empty, restarts | `ReviewReturnsDraft`, `EndWasPresented`, and `DraftArrives` under fairness |
| `letter_one_tab` | 1 tab, 2 threads, 2 texts, no restart | what overlapping tabs or restarts break: `ResumeIsOwn`, `ReviewHolds`, `ApprovalRecorded`, and that it implements `ApprovalGate` |
| `letter_crash` | 1 tab, 1 thread, restarts | refutes `ApprovalRecorded` |
| `letter_unseen` | 1 tab, 1 thread, 2 texts, restarts | refutes `ApprovedWasSeen` |
| `refresh_tokens` | 3 clients, 2 sessions, 4 tokens | `LinearFamily`, `SessionKept`, `EndedUnlessOvertaken` |
| `assembly` | 2 tabs, 2 applications, withdrawal as the status change | `OneAssembly`, `PackageCoherent`, `DecidedIsReleased`, `NoWayBack` |
| `routes` | the modules of 2.6, one at a time | see below |
| `services` | the modules of 2.7 and 2.8, one at a time | see below |
| `two_masters` | 2 tabs, 2 resumes | refutes `AtMostOneMaster` |
| `negotiation_answer` | 1 tab, 1 simulation | refutes `AnswerIsAnswered` |

What `routes` checks, each property excepting only what its comment names:

* `CascadeIsWhole`: a deleted job leaves no document, message, interview or
  vector behind but what was written after the cascade had passed, and jobs and
  applications come and go together but for a cascade cut off half way.
* `StreakFollowsRules`: the streak and freezes of a day are what a reference over
  the whole history of days says, whatever order of requests, midnights and
  restarts led there.  `EntriesAndBonusCounted`: every answered action has its
  entry and a milestone pays its bonus once.
* `BadgeWhenDue`: who has reached the threshold of reporters has a badge, or a
  request on its way to it, although every reporter stores before counting.
* `AnswersAccounted`: the i-th answer is to the i-th question, acknowledged
  answers stay, and a summary is about the answers of its own session.
* `OneMaster`: exactly one master once one was chosen, but for switches that
  crossed or were cut off.
* `SessionsAreScored`: no question is skipped or scored twice, the level is what
  the scores make it, and one record agrees with the debrief.
* `TranscriptTells`: every accepted answer is in the transcript, in order and
  with one turn to it, although the node runs twice for each.
* `GrantsAccounted`: no valid grant is lost and no revoked one in use.
* `RecordTellsMessage`: a record and the queue agree on what was sent.

What `services` checks:

* `IndexTellsText`: after an undisturbed run there is one object for each chunk,
  whatever broken runs came before.
* `ServedIsFresh`: no analysis is served beyond the lifetimes of both caches
  together; the status of a source is down from its third failure in a row on,
  neither earlier nor longer; a user has one shortlist a day.
* `OutcomesAreTold`: a tracker's history is a legal chain that ends in its status
  and agrees with the milestones; a benchmark rests on enough users of one role,
  region and stage; another outcome keeps an offer in its family.
* `FiguresAddUp`: pay and grants as in 2.8; every cost of a call is in one
  day, on its way there or missed by a write that failed, and weeks and months
  never say more than their days.
* `NothingIsLost`: `ChunksCoverText` and `ViewsAgree` of 2.8.
* `BetterIsNotLower`, `DayFits`: as in 2.8.

`TypeOK` of the parts is checked by `routes` and `services`; it is a theorem of
them and of every module with proofs.

Each module states besides what its documentation says and the code does not do;
3.3 lists these properties, which belong to no run or to one that refutes them.

### 3.1 Why these bounds are enough

* `routing`: two calls are enough for an answer of before the outage to meet a
  probe; threshold and timeout 2 are the least for which "below", "at" and
  "after" differ.  The third provider is the fallback that both routes share,
  and the one without a key is skipped in the walk.
* `versions`: four starts are one more than the attempts, the least at which a
  start can run out of them; two of them overlap, a third comes after, and an
  approval in between opens the gate to the fourth.
* `letter_tabs`: each property speaks of one thread and every conflict is between
  two requests.  Two texts tell a draft from its revision.
* `letter_one_tab`: two threads, because the properties relate a thread to the
  latest document, which may be another's.
* `refresh_tokens`: three clients are two whose rotation and reuse race and a third
  that uses what the session still has; four tokens make a chain of three rotations of one session or
  two chains; a client's third rotation repeats its second.  A small instance
  runs out of token ids, so deadlock is not checked.
* `assembly`: two applications for the overlap of two starts, two tabs for a
  review, edit of letter or pitch, or status change that meets another.  `withdrawn` is the only
  target that is legal from every status short of the terminal ones.  Ids are
  used up (a deleted application keeps its id), so deadlock is not checked.  In
  `versions` every start ends.
* `routes`: every conflict is between two requests, and a third party, where
  there is one, is a background task of one of them.  One job has all kinds of
  children; freezes every second day and milestones at 2 and 4 meet within six
  days as 7 and 14 do within a month; four reporters are one more than the
  threshold of three; two generations of two questions and three answers make an
  answer meet questions that were replaced; a coach of two rounds reaches every
  node, with two tabs that only answer well (three questions) and with one tab
  that answers well or badly (five, enough to go up and down through the
  levels; `CoachBound` of `MCRoutes`); three answers of a negotiation reach its end
  and beyond; three grants are one to lose, one to keep and one to bring back.
* `services`: two runs over two chunks with a third to follow, and a search that
  returns three objects, so that leftovers may exceed it; lifetimes of 2 and 3
  days within 7; one application with two requests and all seven statuses; three
  offers of two users with cohorts of two in place of ten; weeks of two days in a
  month of three, so that a week lies in two months; four failures, one more than
  take a source down.  `Bound` of `MCServices` lets two of the ledger's requests
  and workers be under way at once, over three calls, or two where rollups
  overlapped; and of the sources one of three pairs: two checks of one source, a
  check beside a task that makes shortlists, or two such tasks within two days.  The calculators are asked about borders and their
  neighbours: 24 packages through all slabs, exact multiples and remainders of
  tranches, ages, counts and thresholds 10 and 50 with one more and one less,
  schedules of 0 to 660 minutes.

In both composite runs ids and days run out, so deadlock is not checked, and the
tabs (and chunks) are symmetric: no action or property tells one from the other.

The proofs of section 4 do away with these bounds for every invariant and action
property of a passing run.

### 3.2 Fairness

* `ModelRouting`: strong fairness of each call's start on each route and of its
  answer, weak fairness of the clock.  It says that users keep sending requests
  of each task type, that a provider does not have every one of its calls
  cancelled, and that time passes; without it no probe would ever be made, since
  the breaker has no timer.  Nothing is assumed of outages and repairs:
  `TrafficReturns` is conditional on the provider staying up.
* `CoverLetter`: weak fairness of the server's steps (an event loop runs what is
  ready, and every node returns or raises), strong fairness of opening the
  stream.  That is an assumption on the user more than on the code:
  `use-sse-stream.ts` reconnects three times after a lost connection and not at all
  after an error event of the server, so beyond that the user has to retry or open
  the page again, which opens the stream when it is mounted.  Nothing is assumed of starts,
  decisions, failures or restarts; `DraftArrives` is conditional on failures
  stopping.  `FairSpecWithoutCrash` is the same without restarts.
* The other modules have no fairness and no liveness property.  A restart loses
  their handlers for good, no timer repeats what was lost, and whether a user or a
  queue tries again is not the code's to say; what must still hold then is stated
  as an invariant.

### 3.3 Where the code departs from what is said of it

Four runs end in a violation.  Each property is quoted from a comment or
docstring, and `findings` in `PROJECT.json` gives both places.

* `letter_crash`: approval is saved by the graph, then by the document; after a
  restart between the two the thread is complete, the document stays an empty
  draft, and it blocks every later start.
* `letter_unseen`: a revision whose answer is lost leaves the old draft on the
  screen; approving it approves the new one.
* `two_masters`: "ensuring the invariant holds even under concurrent requests"
  (`profile.py:25`); two switches that both clear the flags before either sets
  its own leave two masters.
* `negotiation_answer`: "Submit a user response and get the next recruiter turn"
  (`negotiation.py:231`); the node runs from its beginning when it is resumed,
  asks the coach with the state before the answer, and drops the answer if the
  coach now ends the simulation.

The same was found of the following, which the modules state and no run checks:

| Property | Said | Done |
| --- | --- | --- |
| `ModelRouting.OneProbeAtATime` | "allow exactly one probe request" (`circuit_breaker.py:120`) | every caller of a HALF_OPEN circuit is let through |
| `ApplicationAssembly.TerminalStays` | "terminal" statuses (`track.py:88`) | the review of an assembly overwrites them |
| `UserActivity.ActiveDayIsChecked` | "update streak on first action of the day" (`activity.py:79`) | an entry made past midnight belongs to a day that was not checked |
| `InterviewCoach.SessionsLimited` | "Maximum 3 concurrent coaching sessions" (`interview_coach.py:82`) | only finished records are counted |
| `BackgroundTasks.CancelledStays` | cancelled is terminal | the second write of `submit_task` overwrites it |
| `Integrations.PurgedStaysPurged` | a disconnect purges the tokens | a refresh that overlaps it stores them again (`integration_tasks.py:195`) |
| `SearchIndex.NoChunkTwice` | idempotent (`indexing_service.py:27`) | two runs that overlap both insert |
| `DescriptionCache.ServedWithinTerm` | 30 days (`jd_analysis_cache.py`) | the copy in Redis outlives the entry |
| `OutcomeTracker.ReachedIsCounted` | rates are cumulative (`success_analytics.py:20`) | a rejection takes an application out of the milestones it had reached |
| `JobSources.ShortlistHasJobs` | 3 to 5 jobs (`job_shortlist.py:4`) | a run that reaches no source stores an empty list, and no other is made that day |

Besides, these sentences are contradicted by how the modules behave, where the
properties say what is left of them:

| Said | Done | In the model |
| --- | --- | --- |
| "block if a generation is already in-progress" (`apply.py:219`, and `docs/API_REFERENCE.md:592`) | starts that overlap between the check and the insert are all accepted and leave as many generations in progress; a stream then takes the resume of the latest and a review updates the latest, whichever thread it is of | `DocumentVersions.Accepted`; `DuplicatesOverlapped` excepts exactly these |
| "If the client disconnects mid-stream (before interrupt), the graph continues until the checkpoint" (`apply.py:21`) | the run belongs to the generator of the response and stops with it, at the last checkpoint saved; the next connection resumes it | `CoverLetter.Disconnect`, `StreamInFlight` |
| a document is in progress while its content is "still empty (not finalized)" (`document_repository.py:53`); an approval saves the "final content" (`apply.py:482`) | `agents/cover_letter.py:164` returns the model's answer as it is and `apply.py:543` saves it with `is_approved=True`, so an empty answer is an approved letter without content | `EmptyText` is one of the `Texts`; no property says that content is not empty |
| when a rotated token is reused "the entire family is revoked" (`refresh_token.py:5`, `auth.py:165`) | `revoke_family` reaches the tokens stored by then; a rotation that has revoked its token and not yet stored the successor stores it afterwards, alive, and the session goes on | `RefreshTokens.Issue` after `RevokeFamily`; `EndedUnlessOvertaken` excepts exactly these |
| "Check tier and daily limits; raise on violation" (`usage_service.py:160`), "Add this to any LLM-powered route" (`dependencies.py:511`) | no route has it; calls are counted under the string id (`apply.py:316`, `cost_tracker.py:253`) and asked about under the `ObjectId` (`dependencies.py:524`), so no limit would ever be met, and the usage page (`usage.py:74`) shows nothing | `UsageLedger.Ask` |
| verifying a report "applies VERIFIED_SCAM badge", "distinct from WARNING_BADGE" (`scam_report_service.py:93`, `:98`) | it applies the warning badge; there is no other | `ScamReports.Verify` |

Other behaviour of the assembly that the model shows and that contradicts no
sentence of the code: a start whose node raised, or that a restart cut off,
leaves an application that refuses every later start until it is withdrawn or
deleted, because nothing resumes its thread; a review cut off between graph and
status leaves the same (`DecidedIsReleased` exempts these by `cut`); a decision
that was dropped because another tab had moved the thread is recorded as APPLIED
or WITHDRAWN all the same; an edit may land in a thread that is running again.

## 4. What is proved

All theorems hold for every value of the constants that satisfies the `ASSUME`s
of the module.  These say what the code gives by its types and its
configuration: counts, lifetimes, prices and bounds are natural numbers, a
threshold, a term or a week is not zero, the overlap of two windows of a text is
smaller than a window, routes are over the providers, and a
value that stands for "none" is none.  What is under way at once (tabs, chunks,
thread ids, reporters) is finite where a proof counts it.

Each theorem follows the same path: `Init => IInv`,
`IInv /\ [Next]_vars => IInv'`, and the property from `IInv`.  None of the
properties is inductive as it stands; what each proof adds is what a handler may
rely on at each of its awaits.

* **ModelRouting.**  `IInv` is `TypeOK`, `CircuitConsistent` and `ProbingIsQuiet`
  (no failure of a provider under probe for the whole timeout), restated as a
  predicate of one circuit that each breaker method preserves; with it the action
  property `RoutesByPriority`.
* **DocumentVersions.**  None of the properties is inductive: that an insert is
  free of gaps depends on what a start read earlier.  `StartOK` records it: a
  version read is at most one above the highest, a stamp taken is later than those
  of every lower version, and n attempts have seen n - 1 documents of others.  It
  gives the properties of versions and the refinement of `DocumentLedger`.
  `DuplicatesOverlapped` needs that every document an accepted start found at its
  check is approved, which is in `StartOK` too.
* **CoverLetter.**  `ReviewReturnsDraft` and `EndWasPresented` need that a
  checkpoint at or beyond the review holds a draft (`DraftBeforeReview`), that
  what a tab shows was presented (`ShownIsSeen`) and what a handler may rely on at
  each of its awaits (`HandlerOK`): a run that carries a decision belongs to a
  thread of which a draft was seen.

  The rest is about a single tab.  `LedgerCounts` and `InProgressIsLatest` make
  what the duplicate check finds the latest document, so `TabOnLatest` says that
  the tab is always on that one, restarts included; that there is one generation
  at a time (a lemma, since one tab waits for its answers), `OneTabOwnResume` and `OneTabRecordsOwn` (a review updates the document of its
  own thread) follow.  `RunOK` adds where the checkpoint of a run is, which gives
  `ReviewHolds`, and `ScreenOK` that a tab shows the draft under review, which
  needs that no restart takes an answer away: with it every step of
  `SpecWithoutCrash` is a step or a stutter of `ApprovalGate`.
* **RefreshTokens.**  To the run's invariants it adds that a token under rotation
  stays revoked (`Pending`) and that two clients share a session only if it was
  disturbed (`Alone`).
* **ApplicationAssembly.**  `Packages` and `Handlers` say that every copy of a
  package, in a checkpoint, a run or an edit, is coherent.  `Decided` says that a
  thread that ended is released, or cut off, or has its decision still to be
  recorded by the very request that ended it, and the same of an edit that holds a
  copy of the end.  `Starts` says that, unless two starts overlapped, whoever is
  about to insert is alone and still finds nothing in progress.  `Known` says that
  threads and handlers belong to documents that were created, which is what keeps
  a released application from being saved anew.
* **Routes.**  `IInv` is the conjunction of nine invariants over disjoint
  variables.  `PartsStep` says that a step of `Routes` is a step or a stutter of
  each part, so each invariant is kept by its own module's actions alone.

  | Part | What is added to its property |
  | --- | --- |
  | `JobCascade` | a job is added before and removed after its application, by one request; what a cascade has passed (`CascadePassed`, by the order of `Cascade`) is gone or was written by somebody who came after it |
  | `UserActivity` | a copy under way is of today and has the streak due today, until a midnight crosses a request; a copy has no bonus its document could not have |
  | `ScamReports` | each of the two reasons for a badge leads to the badge, or to a request on its way to it, or is owed by a request cut off |
  | `MockInterview` | the index of a session counts its answers; an answer is written over a session in step; a summary is about a prefix of the answers |
  | `ResumeLibrary` | a switch that nobody overtook finds no master, and where there is none a master was deleted or a switch is under way |
  | `InterviewCoach` | at each node, how the place of the state lies to its last score; a run alone on its thread works on a copy of the checkpoint |
  | `Negotiation` | the same of a run, and that its answer is younger than the transcript or is the pending one |
  | `Integrations` | every grant in use was issued, and one still to be written is new and nobody else's; what `revoke` and `purge` know of the row they read |
  | `BackgroundTasks` | a task has one submission, one without a record has no message; the submission before its dispatch has sent nothing, the cancellation before its write has revoked the message or could not |

  Two properties compare with a reference that is a recursive function, the
  streak of a history of days and the level after some scores.  What such a
  function computes is proved by the smallest counterexample: every non-empty set
  of natural numbers has a least member (`MinNat`, from the well-foundedness of
  `<`), and below it the claim holds.

* **Services.**  `ServicesInv` is made in the same way, of the six services with
  state and of `AskedInv`: a calculator that answered has answered a question with
  what it computes.

  | Part | What is added to its property |
  | --- | --- |
  | `SearchIndex` | a run that met no other knows exactly which objects are there at each await; while no run has touched an object, what the last one promised holds |
  | `DescriptionCache` | an entry of Redis ends no later than if MongoDB's had been copied on its last day; no day ends while a request is under way |
  | `OutcomeTracker` | the transitions of a tracker are a legal chain to its status, and no application under way was ever farther than it is (`OutcomeClimbs`); a request to update has validated against the status it expects |
  | `NegotiationOutcomes` | a request alone on an offer saves no family away |
  | `UsageLedger` | days and what is on its way there are what was recorded, as sums over finite sets (`UsageCallInv`); a sum a rollup took says no more than its days and no less than the entry said before |
  | `JobSources` | the shortlists of a day and the workers about to make one are at most one, or as many as workers if they overlapped |

  The sums of `UsageLedger`, `PayFigures`, `EquityGrant`, `OfferDecision` and
  `WeekPlan` are folds of the community modules.  `Total` is what those make of addition, and
  its laws (one term more, term by term, a factor, over a union) are
  proved once, by the smallest counterexample over the cardinality.

  What the calculators promise of *every* question is arithmetic: a higher income
  is taxed no less in each slab and no more than it grew; quotients that are cut
  off grow with what is divided and their remainders add up to the grant; a
  percentile lies where its benchmarks do; of a score with one weight raised by a
  tenth and the others shrunk, an overtaker is better by that criterion; the
  factors of a chance grow with their histories; and the shares of a day, each cut
  to whole minutes, follow one another and stay within five minutes of it.

  Chunks and rankings need counting as well.  Headings are ordered by line and
  pattern, so what stands below one ends where the next begins and each line has
  one nearest heading.  Words of a text have places from 1 on without a gap
  (`Placing`); a stretch of `m` places holds `m` words (`ChunkStretch`), from which
  the windows cover the text and overlap.  Groups of trackers are strictly and
  totally ordered by `Ahead`, since quotients compare transitively; the number of
  groups before one is its place, and all places are taken (`ViewsPlaces`), so the
  choice that `Ranked` makes exists and is the only one.  The first of a ranking
  responds no less than all together because sums keep an inequality that holds
  of each term (`ViewsTogether`).

Checked by TLC only:

* the liveness properties `TrafficReturns`, `DraftArrives` and `ApprovalRecorded`
  (fairness and ENABLED are beyond the prover);
* whether the instances reach each action.

## 5. How to run it

    tlc -config CoverLetter_tabs.cfg CoverLetter
    tlapm CoverLetter_proofs.tla

`PROJECT.json` lists the runs with module and configuration.  The longest runs are
`assembly`, `routes` and `services`, one to three minutes each.  With two threads
the proofs of `Services_proofs` take about twelve minutes, those of
`Routes_proofs` and `RoutesSessions_proofs` about ten each, of `CoverLetter_proofs`
three and the others less.

## 6. Plan, and hazards that no property covers

Open of the proofs: the refinement of an abstract specification for parts other
than documents and approvals.  The map covers a sixth of the backend: what is left
are mostly routes that read and write one document (section 7), and of them those
named below come first.

Models to come, where later versions of the code give them a subject: documents
edited by their users (skills profile, contacts, notes of an interview, messages),
market signals, and the migration runner.

Hazards of the code that no property covers, or that one covers in passing:

* `interviews.py:378`: the notes of an interview are one field with two lists; two
  edits of different lists overlap and the later writes back the other's old list.
  `skills.py:115` and `:141`: a skill added by two requests is lost in the same
  way; a skill added while the profile is deleted is acknowledged.
* `jobs.py:417`: two first contacts of one company both create it; the unique index
  fails the second request, which leaves nothing behind.
* `outreach.py:205`: a message can be edited after it was sent; `:243`: two sends
  both succeed and the later one's time stays.
* `profile.py:419`: a restart leaves a resume "processing" for good, because only
  failed ones may be parsed again.
* `interview_coach.py:356`: saving a session again makes another record.
* `negotiation.py:192`: the transcript of a simulation's record is never updated
  after the first turn.
* `task_service.py:74`: tasks stay queued for ever, since no worker knows them.
* `application_assembly.py:161`, `:271`, `:420`: a start that broke leaves an
  application that blocks the next one; `save_assembly` never asks whether the
  thread was approved; deleting an application leaves what was stored for it.
* `market_positioning.py:82`: equal benchmarks; covered by `PercentileInOrder`.
* `offer_repository.py:54`: the whole document is saved; covered by `FamilyKept`.
* `esop_valuation_service.py:220`: remainders of tranches; covered by `GrantAddsUp`.
* `usage_service.py:170`: the tier is asked about under another type of id than
  calls are counted by, and by no route (3.3).  `cost_tasks.py:44`: a week is not summed again once it is
  over, so costs of its last minutes stay out of it.
* `discovery_tasks.py:67`: a failure of the database counts as a failure of the
  source; `:149`: check, then create without a unique index.  Covered by
  `StatusTellsChecks` and `OneShortlistADay`.
* `integration_connection_repository.py:77`: at most the first 100 connections are
  refreshed in one run of the task.
* `offer_repository.py:147`: the success rate of a strategy within a benchmark may
  rest on a single user, and with no stage asked for the first group is taken.

## 7. What is not modelled, and why

Parts without a module:

* **Celery tasks.**  No worker imports the task modules, none of them initialises
  the database layer, and `on_start`, which is to mark a task running, is not a hook
  that Celery calls.  What becomes of a submitted task is `Discard` of
  `BackgroundTasks`.  Three tasks are modelled as written, because they hold the
  only writes of their kind: `UsageLedger`, `JobSources` and the refresh of tokens
  in `Integrations`.  The tasks that read mail and calendars are stubs that move a
  cursor, or give a connection whose tokens cannot be decrypted the status
  TOKEN_EXPIRED, which `Integrations` leaves out.
* **Migrations.**  Nothing runs `MigrationRunner`, and its
  `await client.start_session()` is not what PyMongo's asynchronous client has.
* **Nudges, morale.**  They subtract naive from aware datetimes and raise, since
  the MongoDB client is not `tz_aware`; the routes of nudges call
  `repo.find_by_id`, which no repository has.  `create_if_not_exists` is a look-up
  and a create behind a unique index.
* **External data.**  Retries around HTTP calls and a breaker that lives no longer
  than one use of its client; results are stored one document at a time.
* **Caches per request.**  `LocaleService` and `CurrencyService` cache in objects
  that are created anew for each request.
* **Agents, prompts, guardrails, trust assistants.**  Functions of texts.  The
  verification cache is one look-up and one store in memory, by company and
  recruiter.
* **Profiles, contacts, stories, skills, career.**  One document read and written
  within a request; see section 6 for what can go wrong.  `OnboardingPlanRepository`
  is created with an argument it does not take, so its endpoints raise.  The graphs
  of onboarding and skills are run from end to end by one request.
* **Tables and heuristics** of locale, career, market and wellness: look-ups,
  sums and wording.  `buyout_calculator_service.py` charges all days left and
  `locale_service.py` the gap alone; neither says which is meant.
* **Start-up, dependency wiring, logging, configuration, the front end** but for
  what a tab shows of a stream (`Show`, `ClearScreen` of `CoverLetter`).

Left out of parts that have one:

* ownership and existence checks that only refuse, wording, logging, listings,
  token expiry and password hashing, the race of two registrations for one address,
  notes of applications;
* placeholders and leftovers: mock sessions outlive the deletion of their
  interview or job; stories and cover letters are never indexed by anyone;
  `delete_resume` leaves a resume's vectors, which only `IndexTellsText` speaks of;
* negotiation scripts and decisions, which are stored as sessions of their own that
  nothing changes afterwards; the hit count of the job description cache; the
  counters of tokens beside those of costs; anomalies, summaries and tier changes
  of administrators; how listings are scored; small-sample wording and rounding; regions of benchmarks,
  which are part of the family of a role in `NegotiationOutcomes`; headings of a
  text that the `\s*` of a pattern continues over the end of a line;
* paths that no caller reaches: `link_signal_to_application`,
  `cache_score_for_job`, the cancellation of a task that is running.  (The burnout
  branch of the scheduler, which only a working `MoraleService` would lead to, is
  modelled as written.)
