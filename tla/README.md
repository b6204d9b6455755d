# Sanad API in TLA+

Sanad API is a NestJS back end for a job-search app: it builds a CV with the
user (by conversation or from an uploaded PDF), finds jobs for it, and applies
to them. Its difficult part is not any single handler but that handlers, timers
and background jobs share database rows which each of them reads, works on for
seconds or minutes, and then saves whole.

This directory models that behaviour: TLA+ modules translated from the code
under `src/`, TLC configurations that check them on small instances, and
theorems proved with TLAPS for every instance. File and line references are
relative to the repository root.

Contents: [1. The system](#1-the-system) ·
[2. What is modelled](#2-what-is-modelled) · [3. Runs](#3-runs) ·
[4. What the runs found](#4-what-the-runs-found) · [5. Proofs](#5-proofs) ·
[6. Not modelled](#6-not-modelled) · [7. Plan](#7-plan)

## 1. The system

One Node.js process, one PostgreSQL database. Everything a device owns hangs on
its device id; only the job index and the ingestion queue are shared between
devices.

| Component | State | Operations | What makes it correct |
| --- | --- | --- | --- |
| Applications (`modules/applications`) | `applications`, `application_batches`; in memory the `active` set | `create` (POST), `processBatch` in the background with two workers, `resumeStale` every minute, `getBatch` (poll), `markOpened`, `markSubmitted` | one application per job; nothing shown as sent that was not; one email per request; a finished application stays finished; nothing stays in progress for ever |
| Email provider (`integrations/email`) | external | `send` with an idempotency key | a repeated send is a no-op |
| CV tailoring (`ai/services/cv-tailor`) | none | `tailor` | no fact is added to the CV, never throws |
| Conversation (`modules/conversation`) | `conversation_sessions`, `messages` | create/restart, send a message (model call, streamed), confirm a section, delete | one active session; sections confirmed in order; a refused request changes nothing |
| Section replies (`ai/services/section-reply`, `sendMessage`) | the section's `messages` | a turn: read, talk, extract, store; turns may overlap | a card never silently loses entries of a card its turn knew of; what was said is not asked again |
| CV (`modules/cv`) | `cvs`, `cv_sections`, `cv_analyses` | confirmSection, saveAnalysis, patch, delete | no mix of two CVs; a confirm leaves the other sections alone |
| Uploads (`modules/upload`) | `uploads`, the file | create, processUpload in the background, getStatus, cleanup | ends, once; `done` means the CV is replaced, `failed` (but for a fault) that it was not touched; the file goes away |
| Matching (`modules/matching`) | `job_match_profiles`, `job_match_explanations`; in memory `inFlight`, `explaining` | getMatches, background explanation runs | what is shown belongs to the CV of the request; one run at a time; no request waits for ever |
| Job ingestion (`modules/jobs/job-ingestion`) | `role_ingestion_cache`, `job_search_calls` | ensureRoleIngested (enqueue), sweep every five seconds | the call budget holds; a queued group gets fetched |
| Job index (`modules/jobs/jobs.service`, `job.repository`) | `jobs` | upsert, enrich, search | a job's embedding is of its present text |
| Device, preferences, transcription, SSE, configuration, providers | one row or none | simple reads and writes, HTTP clients | |

How they interact: `create` and `processBatch` read the CV (CV) and the jobs
(job index); each application copies the CV tailored for its job; uploads write
the CV; conversations write it section by section; matching reads the CV and its
analysis, queues ingestion and asks Applications which jobs are taken.

What is hard, by kind (every one is listed at its line under `hazards` in
`PROJECT.json`):

- *Copies of rows.* The ORM's `save` writes every column in which the object in
  memory differs from the row. A background job that read a row minutes ago thus
  undoes whatever happened to it since.
- *Check, then write.* Only `create` and `saveAnalysis` hold a lock (an advisory
  lock of the transaction) between the check and the write.
- *Time as evidence.* A sweep takes a row nobody touched for three minutes for an
  interrupted one; an upload older than five minutes counts as dead.
- *Crashes.* Background work is not queued anywhere but in the rows themselves.
- *Lost answers.* The email provider may have taken an email whose call timed out.

## 2. What is modelled

### Applications.tla

The state and the code it stands for:

| Variable | Code |
| --- | --- |
| `apps`, `batches` | the two tables. A row holds the columns behaviour depends on: status, stage, batchId, tailoredCv with cvTailored, openedAt, submittedAt |
| `deviceCv` | the device's CV, `None` if there is none; changed by CV editing at any time |
| `delivered` | emails the provider took: idempotency key (application, batch) and attached CV |
| `stale` | rows whose `updatedAt` is older than `STALE_AFTER_MS` |
| `lock`, `req` | the advisory lock and a `create` between its read and its commit |
| `active` | `ApplicationsService.active` |
| `run`, `task` | calls of `processBatch`; the rows each still holds in memory and how far its workers are |
| `queue` | batches a firing of `resumeStale` has still to resume |
| `report` | `markOpened` and `markSubmitted` between read and save |
| `faults` | how many faults have happened (a bound) |

One action per stretch of code between two long waits: `ReadExisting`, `Commit`
(create); `LoadBatch`, `LoadCv`, `StartNext`, `Tailor`, `Prepare`, `BeginSend`,
`Send`, `SaveSent`, `ProcessThrows`, `CloseBatch`, `RunThrows` (a run);
`SweepRead`, `ResumeNext`, `GoStale` (the sweep and time); `PollBatch`,
`ReadForReport`, `SaveReport`, `ChangeCv`, `Crash`.

Decisions a reader should know:

- *One device.* Rows, lock, CV and batches are per device, so devices do not meet.
- *A row is named by its job* (unique index on deviceId and jobId) and a batch by
  the request that made it.
- *Copies are state.* `task[r][j].row` is the object a run read; `Save` writes all
  of it and, like the ORM, writes nothing (and renews no `updatedAt`) when it
  equals the row.
- *Turns of the event loop.* After a worker is freed, it takes its next application
  without waiting for anything: `TurnOver` lets nothing else happen while a worker
  is idle and an application waits in its run.
- *Staleness.* A row at a worker never goes stale, because the calls a worker makes
  between two saves are bounded by their timeouts (tailoring two times 45 s, sending
  two times 30 s) below three minutes; nor does one go stale within the two short
  reads at a run's start (`Settled`). A row that waits for a worker may.
- *The provider* takes one email per key and may lose its answer; Resend's 24-hour
  window for keys and its refusal of a key with another payload are left out.
- *Merged reads.* findBatch with findByIds, the count with saveBatch, and the poll's
  read with its save are single steps; the rest are separate, as in the code.
- *Left out*: requests refused before they change anything, `alreadyAppliedIds`,
  error codes, display columns, `take: 20` of the sweep. Nothing in the repository
  deletes a job, so the `job_unavailable` branches cannot be reached and are not
  modelled. A row's second failing save in one worker's catch after an accepted
  email (three errors in a row) is not modelled.
- *Faults* (crash, database error, exception of the PDF renderer) are limited by
  `MaxFaults`; lost and refused provider calls are not.

### ApplicationLifecycle.tla

What the component promises, in two variables: the status the app sees for each
job and the jobs whose company got an email for the current attempt. `Applications`
implements it under the mapping `status <- apps[j].status`, `mailed <- jobs whose
row's batch the provider took an email for` (`KeepsPromise`), for batches that fit
the pool. Section 4 says why not for longer ones.

### Conversation.tla, on Cv.tla

`Cv` holds the CV's pieces: which section content belongs to which author (the session,
PATCH or upload that wrote it), `confirmSection` (`SectionConfirmed`, `StartsOver`),
`saveAnalysis` and `computeSectionConfidence`. `Conversation` is the sessions over it.

| Variable | Code |
| --- | --- |
| `cv`, `rows` | the device's row of `cvs` (id, confirmedSections, isComplete) and its `cv_sections` |
| `analysis` | its row of `cv_analyses`: of which upload, which sections have low confidence |
| `sessions`, `cards` | `conversation_sessions`, and the sections a session has a card message for |
| `post`, `turn`, `confirm`, `patch` | requests in flight, with the rows they read |
| `requests` | requests begun (the bound) |

- *A request holds copies.* Nothing is locked: `sendMessage` holds its session over the model
  call, `confirmSection` the one read before its transaction, PATCH the CV row, a restart the
  session it drops. Saving a row that is gone inserts it again unless a foreign key forbids it;
  deleting sessions deletes their messages; the partial unique index allows one session in
  progress. Both are database definitions (`migrations/`) and part of the actions.
- *The content of a section* is its author and its section: enough to see a section of another
  document, or in the wrong place. Flat columns (name, title, contact) are left out.
- *Text messages* are left out: they reach only the model, whose answers are free.
- *A transaction* (a confirm's, saveAnalysis) is one step. What it read before is separate.

### SectionReply.tla

One section of a conversation: `sendMessage` and the `generate` it calls. A turn is a process,
and nothing keeps two of them apart: `sendMessage` has no lock, and a client whose stream dropped
goes on from the stored messages (`API-CONTRACT.md:168`) while the first turn still runs.

| Variable | Code |
| --- | --- |
| `users`, `clarified`, `mentions` | the section's text messages, as far as replies depend on them: how many are the user's, how many are clarifying questions, how many mention each required field |
| `cards` | its `section_card` messages; `saw` is a history of how many cards the turn had read |
| `analysis` | its card in the upload's analysis; `AnalysisGoes` when the device's next upload takes its place |
| `turn[t]` | the locals of `sendMessage` and `generate`: history and best card as read, closing intent, failed calls, message and card so far |
| `forced` | a history of the questions the code forced |

One action per stretch between two awaits: `ReadHistory`, `ReadBestCard`, `UserSays` (the user's
message is stored), `TalkIsBad`, `TalkIsGood`, `TalkSwitches` (the talking call), `ExtractIsBad`,
`ExtractIsGood`, `Recheck` (the extraction), each of which may end the turn with its text stored
(`Answers`), `StoreCard`, and `Breaks`: an error or a crash between any two.

- Whatever the model or the user say is chosen freely. A card of an array section is its set of
  entries, of an object section the set of its filled fields; a message is whether it asks and
  which required fields it mentions.
- Of the section types, one object section, an array section of each rule and the one that may be
  empty are kept. The confirm that ends the section is in `Conversation`.

### Uploads.tla

`uploads` and `files` are the table and the disk; `job[u]` is `processUpload` with its copy of
the row, `poll[u]` a `getStatus` between its read and its save, `sweep` the rows the cleanup has
still to delete. `cvFrom` and `replaced` say whose analysis the CV is and ever was.

- *Time is an age*: fresh, overdue (`INTERRUPTED_AFTER_MS`, five minutes), expired (a day). An
  upload with a live job stays fresh (`MayBeOverdue`): the deadline of 170 s covers reading and
  analysing, and what follows is a few database calls. The comment at `upload.service.ts:22-24`
  says the deadline keeps everything below the five minutes; it does not cover the saving
  itself, which the model takes as short. Everything section 5 says of uploads rests on it.
- *saveAnalysis* is one step (a transaction under an advisory lock). CV building sessions are in
  `Conversation`, not here.
- *Faults* are a crash, which ends every job, and a failing save; errors of the file system in
  a deletion are left out.

### Matching.tla

`queue` is the chain `inFlight`, `request[q]` a `computeMatches` with the CV hash it loaded and
what it found, `profile` and `explained` the two tables, `explaining` the run the service knows
of, `run[q]` every run with its batches at work (`busy`) and to come (`todo`).

- *A CV is its hash*; an explanation is the CV it was made for. Whether it makes the job a fit,
  and the order of the answer, is `Ranking`'s; here a job search finds any set of jobs.
- *A failed run's leftovers.* `Promise.all` over two workers rejects at the first failing save:
  the service forgets the run, and its other worker still goes on. The model keeps both.
- *Two reads.* The cache is read before `explaining` is looked at, so a run that ends between
  the two makes a job be explained twice (equal rows, hence harmless).
- An explanation of an old CV may be stored after the CV changed (over a newer row, too); it is
  never shown, because the answer filters by the request's hash, and it is asked for again.
- A change of the embedding model, which also drops explanations, is left out.

### Ingestion.tla, on JobIndex.tla

`JobIndex` has the postings: a text and the text its embedding was made of, `upsert` (read,
save, and clear in a second statement) and `enrichPendingJobs`. `Ingestion` EXTENDS it with the
queue: `cache` and `pending` are `role_ingestion_cache` by status and by age, `recorded` is
`job_search_calls`, `calls` what really went out, `sweeping` the processes whose flag is set,
`sweep[s]` a `runSweepOnce` with the groups it took, `ask[a]` an `ensureRoleIngested` between its
read and its save. The seed script is a second process whose flag is its own.

- A group is a group in one country. A group of an unsupported country is closed without a call.
- One posting stands for what a search returns: postings do not meet.
- A store that fails after its call was recorded is recorded a second time, as failed: the code
  does so and the budget merely ends earlier.

### The pure modules

They have no variables. Each is evaluated over bounded inputs by assumptions of an MC module, and
RuleProofs proves about most of them for all inputs.

| Module | Code | Checked by |
| --- | --- | --- |
| `Tailoring` | `cv-tailor.service.ts`: attempts, accepted bullets, order of skills, the tailored flag | `TailoringIsSafe`, `ListedTwiceGoesUnseen` (MCApplications) |
| `Explaining` | `job-match.service.ts`: reasons, gaps, what is asked again within a batch | `RepliesAreChecked`, `AnyPartIsAnswered` (MCMatching); the second says that `Matching`'s free outcome of a batch is what `explainBatch` allows |
| `MatchCards` | `collapse-duplicates.ts`, `listing-identity.ts`: collapsing duplicate listings | `CollapsingIsSafe` (MCMatching) |
| `Candidates` | `candidate-profile.ts`: the candidate built of CV and analysis; `roles.ts`: the role of a title | `OldAnalysesStayOut`, `RolesAreSpecific`, `PastTitlesCount` (MCMatching) |
| `Streaming` | `mistral.provider.ts`: lines out of chunks of a streamed answer | `StreamsSurviveCuts` (MCSectionReply) |
| `JsonReply` | `extractJsonObject` of four services, `extractJsonValue`, `dropAllNullEntries` | `RepliesAreRead`, `TrailingBraceIsKept` (MCSectionReply) |
| `SentCv` | `applications.service.ts`: `toTailorInput`, `applyTailoring`; `application-contact.ts` | `NothingIsLost`, `ContactsAreStable`, and two counterexamples (MCApplications) |
| `ReasonGuard` | `why-match-guard.ts`: which reasons trace to the candidate | `ReasonsAreGrounded` (MCMatching) |
| `Ranking` | `computeMatches`, `searchByEmbedding`, `preferences.service.ts`: what is found, dropped and shown in which order | `AnswersAreOrdered`, `SortIsSound`, `DefaultsAreSourced` (MCMatching) |
| `Listings` | `job-facets.ts`, `cities.ts`, `job-country.ts`: what is read off a listing | `LocationsAgree`, `FacetsFollowWords` (MCIngestion) |
| `Embeddings` | `embedding-text.ts`, the embeddings provider: which text is embedded, which vector is whose | `ValuesAreUnique`, `PlacesAreTakenOut`, `OrderMatters`, `VectorsFindTheirTexts` (MCIngestion) |

Taken as given there: which words of a text are facts, name a term or a place (regular expressions
and vocabularies; a text is the set or the list of what it names) and the phrase list. A stream
whose body closes without `[DONE]` ends like a whole one, as in the code.

### MC modules

`MCApplications`, `MCConversation`, `MCSectionReply`, `MCUploads`, `MCMatching` and `MCIngestion`
hold the model values, symmetry sets and constants of the runs, and the assumptions above.

## 3. Runs

All with two workers of TLC finish within about two minutes each.

| Run | Instance | Shows |
| --- | --- | --- |
| `recovery` | 1 request, an email and an external job, pool 2, one sweep, one report, two CVs (one without a usable Reply-To), two send attempts, 2 faults | `SentIsFinal`, `SentCvIsRecorded`, `DoneBatchHasNoWork`: through any two crashes or errors and any lost answers, a sent application stays, shows the CV the company got, and a done batch has nothing in progress |
| `retry` | 2 requests over 2 jobs, pool 2, one sweep, one report, two send attempts, no fault, fairness | `TypeOK`, `NoCollision` (the lock), `SentWasDelivered`, `OnlyFailedIsRetried`, `SubmittedIsFinal`, and `KeepsPromise`: the refinement of ApplicationLifecycle with its liveness |
| `progress` | 1 request of 2 jobs, pool 1, one sweep, 1 fault, fairness | `NoDoubleWork` with the request's run and the sweep's run of one batch alive together; `CopiesOK`; `EveryApplicationEnds`, `EveryBatchEnds` |
| `long_batch` | 3 jobs, pool 2, no fault | a violation of `SentIsFinal` (section 4) |
| `reports` | two reports in flight | a violation of `SubmittedIsFinal` (section 4) |
| `conversation_overlap` | 2 POST or DELETE calls, 1 message, 2 confirms (symmetric), 1 PATCH, 1 analysis landing, at most 6 requests; basic and experience, which may become projects; 2 CV ids; a CV from before or none | `SessionConsistent`, `OneActive`, `NothingOldLeaks`, `CardsStayInSection`, `ConfirmKeepsOthers`, `UploadAsksForMissing`: however six requests of a device overlap, sessions stay consistent and single and no CV mixes two documents |
| `conversation_refusal` | 4 POSTs one after another, 1 upload | a violation of `RefusalKeepsConversation` (section 4) |
| `section_reply` | any section, 3 messages, the turns of any two overlapping and breaking off anywhere, 2 entries and 2 turns (symmetric), 1 and 1 reminders, each field asked once, the third turn terse (see bounds) | `TypeOK`, `NoQuestionBesideCard`, `NothingIsLost`, `AskedOnceBeforeClose`, `NeverAsksAgain`, `EmptyCardIsMeant` |
| `uploads` | 2 uploads, each polled, the cleanup, 2 attempts, 1 fault, fairness | `DoneWasSaved`, `FailureLeavesCv`, `EndIsFinal`; `EveryUploadEnds`, `EveryFileGoes` |
| `matching` | 2 requests, 2 CVs, 3 jobs in batches of one for two workers, 1 fault, fairness | `ServedIsCurrent`, `OneRun`, `EveryRequestEnds` |
| `ingestion` | 2 groups of 2 keywords in one country, budget 2, batch of 1, two sweeps of the server and one of the seed script, 1 ask, 1 fault, fairness | `BudgetHolds`, `NotFetchedTwice`, `EveryGroupEnds`, and `TypeOK`, which has the flag set exactly while a process sweeps |
| `ingestion_embedding` | 1 group, 1 posting of 2 texts, a sweep and a match request, no fault | a violation of `EmbeddingIsOfText` (section 4) |

### Bounds

*Applications.* Two jobs are one of each method, so
every step of a worker occurs; two requests are a double tap and a retry; one sweep
gives a second run beside the first; two faults are a crash during the recovery from
another; two CVs make "the CV that was sent" distinguishable from "the CV now".

Why the regimes are separate. Batches that fit the pool and one request at a time
are where the sweep takes only dead rows for dead. With a pool smaller than the
batch, or with a retry of an application whose crashed batch the sweep is also
resuming, two runs hold copies of one row, and `SentIsFinal`, `SentCvIsRecorded` and
`DoneBatchHasNoWork` do not hold: that is the first finding. What holds in every
regime is `TypeOK`, `CopiesOK`, `NoCollision`, `NoDoubleWork` and `SentWasDelivered`,
which section 5 proves for all constants; the others it proves for all constants of a regime.

*Conversation.* Two POSTs are a double tap, a restart, a delete under a message; two confirms a
double tap on a card; two sections a next one to advance to and a last one that completes,
and the one projects replaces. A message, a PATCH and an analysis beside them are one holder of
each kind of copy. Two CV ids suffice for a new CV beside a copy of the old (`FreshCvIds`
guards that a new id is mentioned nowhere). Six requests let each of them occur once.
*SectionReply.* Two messages in flight are the overlap; the second may start at every step of the
first. Three messages are one that closes, one that reopens and one that closes again, the third
knowing one, both or none of the others' cards; with two entries a card can shrink. What
comes with a third message is bounded by the constraint `ThirdIsTerse`: no call is retried (a retry
stores nothing), and in the basics there is no analysis and fields are mentioned only by the code's
own questions, where forcing them is worst. Two messages have retries, analyses and free mentions.
*Uploads.* A second upload lands before or after the first; the
one fault hits each stretch of a job. *Matching.* Three jobs leave a third batch when two
workers are busy, so a failed run has leftovers; a second request meets the first's run.
*Ingestion.* The budget ends between two keywords of a group or two groups; a sweep meets a
sweep of its own process and one of another; the second group waits behind the first. One request
at a time: two first requests for a group, of which the unique index refuses one, are in the model
(`AskSaves`) and in the proofs, but not in the run.

### Fairness

*Applications.* Weak fairness of each run's next step (the event loop runs
what is ready, and every call a worker waits for has a timeout), of `Commit` (a
transaction ends), of the sweep's steps and of `GoStale` (time passes, the timer of
`onModuleInit` fires every minute), and of `PollBatch` (the app polls a batch until
it is done). Nothing obliges the user to apply, retry, report or edit, and faults
need not happen. `recovery`, `long_batch` and `reports` use `Spec`, without fairness.

*Uploads.* Weak fairness of each job's next step (every call has a timeout), of polling (the app
polls until the upload ends) and of time. `EveryFileGoes` also assumes that days pass and that
the cleanup's timer fires (`CleanupRuns`, in the property itself); `EveryUploadEnds` does not.
*Matching.* Weak fairness of the request at the head of the chain and of each batch at work: the
model, embedding and search calls have timeouts. Nobody need ask, nor the CV change.
*Ingestion.* Weak fairness of the timer's steps as a whole, not of one sweep or group: the event
loop goes on with some sweep. That every group nevertheless ends is `findPendingCache`'s order.
A store that throws by itself counts as a step of the sweep. The calls of a match request that
embeds are given no fairness.

Conversation and SectionReply have safety properties only: the user may stop at any step.

Each property of a passing run was also tried against a plausible bug in the code: the
operators such as `NeverTailored`, `NoLock` or `StraightToDone`, defined just before the
operator each would replace.

## 4. What the runs found

1. **A waiting application is taken for an interrupted one** (`long_batch`). Only the
   applications at a worker are in `active`. With two workers and up to about two and a
   half minutes per application, the tail of a long batch waits more than three minutes;
   the sweep then starts a second run, and the run that reaches a row second works on
   the copy it read before the other finished it. A row already `sent` goes back to
   `processing`, is tailored again from what may be another CV, and is saved as sent with
   a CV the company never got (the provider ignores the repeated key), or as failed.
   The doc comments promise the opposite (`applications.service.ts:130`,
   `application.entity.ts:56`). Adding the run's whole `pending` list to `active`, or
   reading the row again when a worker takes it, would remove it.
2. **Reports overwrite each other** (`reports`). `markOpened` and `markSubmitted` read,
   check and save with nothing between them and another report, so a submission can
   revert to opened, against `API-CONTRACT.md:503` and the comment at
   `applications.service.ts:358`.

3. **A refused restart drops the conversation** (`conversation_refusal`). `create` over an
   upload with `restart` deletes the session in progress first and reads the CV after. The CV can
   be gone while the upload's analysis still exists: a build restart over the upload's session
   deletes session and CV and leaves `cv_analyses`. The next upload restart then deletes the
   build session and answers NOT_FOUND, against the comment at `conversation.service.ts:56-57`.
   No two requests overlap. Reading the CV before the deletion would remove it.
4. **An old embedding on a new text** (`ingestion_embedding`). `saveEnrichment` writes by id
   alone what was computed from a text read before the call. An upsert that changed the text
   meanwhile has cleared the embedding; the late write fills it again, and nothing looks at the
   row any more, against the comment at `job.repository.ts:61-62`. A condition on
   `embeddingTextHash`, which is stored and never compared, would remove it.

Seen while modelling, without a run of its own:

- PATCH /cv saves the `confirmedSections` it read and so may undo a confirm's.
- A row once deleted comes back when a request that still holds it saves it.
- Overlapping messages may store a smaller card. A turn compares its extraction with the best card it
  read before the model call (`conversation.controller.ts:69`) and stores its own after
  (`:91`). Of two overlapping turns neither knows the other's card: one stores two entries, the
  other one or none after it, and that is the card the user sees and confirms, although "Losing a
  user's data is worse than showing a slightly stale card" (`section-reply.service.ts:481`, and
  `conversation.service.ts:195-196`). TLC finds it when `NoCardShrinks` is made an invariant of
  `section_reply`. What holds is `NothingIsLost`, and `NoCardShrinks` of messages that come one at
  a time (proved). Reading the best card again before storing, under a lock of the session, would
  remove it. Overlap has a second, lesser effect, which is part of `AskedOnceBeforeClose`: each
  further turn in flight may force a question the limit would forbid.
- A section may end empty. The comment at `section-reply.service.ts:65-70` has every section but
  certificates "end with real entries"; an empty list extracted at the first message is not checked
  again (`:568`) and is stored as a card of any list section, which the comments of the schemas
  allow (`section-reply.schema.ts:17-20`). `EmptyCardIsMeant` states what the code keeps to.

Three more are shown by assumptions of MCApplications:

- `ListedTwiceGoesUnseen`: of a skill the CV lists twice, `acceptSkillOrder` keeps one listing if the
  model names it, and `skillsChanged` (`cv-tailor.service.ts:195`) compares only the places of the
  new list. A CV whose last listing is dropped that way is not called tailored, against
  `cv-tailor.schema.ts:26` ("the CV went out as the user wrote it").
- `NamedTwiceIsSentThrice`: `applyTailoring` looks skills up by name (`applications.service.ts:96`).
  Of two skills of one name, which nothing refuses, a CV whose order is left as it is goes out
  with the last one twice and the first one, too: three entries for two, against "every other field
  is the original, untouched" (`applications.service.ts:83`).
- `OnlyLandlinesLoseTheirCountry`: `internationalPhone` turns `0020` into `0` and hopes for a mobile
  number (`application-contact.ts:17`). An Egyptian landline written as `0020…` comes out in its
  local form, without the country, against "anything already international … is left exactly as the
  candidate wrote it" (`application-contact.ts:9-10`). `MobilesStayDialable` proves that nothing
  else does.

## 5. Proofs

Eight modules, checked by TLAPS, hold for every value of the constants the assumption of the
component's module allows. They state every invariant and every action property of the passing
runs, and the refinement but for its fairness; the last paragraph says what is left to TLC.

### Applications

`ApplicationsProofs.tla`, from `ConstantsAssumption` only (request and sweep names differ, `None`
is none of them, the numbers are naturals and pool and attempts positive):

| Theorem | States |
| --- | --- |
| `TypeCorrect` | `Spec => []TypeOK` |
| `CopiesCorrect` | `Spec => []CopiesOK` |
| `LockPreventsCollision` | `Spec => []NoCollision` |
| `ActiveExcludes` | `Spec => []NoDoubleWork` |
| `SentOnlyWhenDelivered` | `Spec => []SentWasDelivered` |

The argument. `TypeOK` is not inductive: saving a copy writes a row, so the row's type
needs the copy's. `IInv` adds `CopiesOK`, what each holder may assume of its copy: a
run's row was processing when read and has a tailored CV from `ready` on; a report's row
was prepared or opened; a locked request sees as absent only what still is, because only
the holder of the lock inserts (`NoInsert`) and nothing deletes (`RowsStay`). Each action
has a lemma that it preserves `IInv`; most of a worker's go through one lemma,
`SaveAndMove`, as they all save a row and move a task.

- `LockPreventsCollision` needs only `IInv`: `RequestsOK` says that what a locked request
  saw as absent is absent at its commit.
- `ActiveExcludes` strengthens `NoDoubleWork` to `BusyOK`: an application at a worker is in
  `active`, and no second worker is at it.
- `SentOnlyWhenDelivered` strengthens to `SentOK`: between the provider's answer and the
  save, the worker's task knows that the email was taken.

`FinalityProofs.tla` is about what is not true in general. `SentIsFinal`, `SentCvIsRecorded`,
`DoneBatchHasNoWork` and `OnlyFailedIsRetried` fail once a run keeps a copy of a row waiting for
a worker while another writes the row: the run `long_batch` shows it of the first, and with two
jobs, a pool of one, two requests, one sweep and one fault TLC shows it of the last (the old
copy, saved after the retry, puts the row back into its old batch). `WaitingCopiesStay` says
that this does not happen. The theorems say that it is the only way to go wrong, and where it
cannot happen:

| Theorem | Assumes | States |
| --- | --- | --- |
| `SentStays` | | `Spec /\ WaitingCopiesStay => SentIsFinal` |
| `SentCvStays` | | `Spec /\ WaitingCopiesStay => []SentCvIsRecorded` |
| `DoneMeansDone` | | `Spec /\ WaitingCopiesStay => []DoneBatchHasNoWork` |
| `OnlyFailuresAreRetried` | | `Spec /\ WaitingCopiesStay => OnlyFailedIsRetried` |
| `SubmittedStays` | `OneReport` | `Spec /\ WaitingCopiesStay => SubmittedIsFinal` |
| `PromiseIsKept` | `OneReport` | `Spec /\ WaitingCopiesStay => LifecycleSafety` |
| `CopiesStay` | `Regime` | `Spec => WaitingCopiesStay` |
| `FinalInRegime` | `Regime` | the first four of `Spec` alone |
| `PromiseInRegime` | `Regime`, `OneReport` | the two about reports of `Spec` alone |

`OneReport` is at most one report: `reports` shows what two do. `LifecycleSafety` is the initial
states and the steps of ApplicationLifecycle under the mapping of `Applications`. `Regime` is one
of three conditions on the constants:

- `NoSweep`: the sweep never fires. Any batches, pool, faults and retries.
- `OneFits`: one request, one sweep, and the batch fits the pool (`recovery` is one such).
- `NoFault`: nothing fails and batches fit the pool; any requests and sweeps (`retry`).

The argument. `FInv` is `IInv`, `BusyOK`, the two invariants among the results, and what they
need: every copy a run holds is the row (`Current`), a locked request's view of what may be
retried holds (`LockSees`), a report is about a row with an outcome (`ReportsSee`), a method
stays what it is (`MethodsKept`), a row is in the batch it names (`BatchLists`), and an email of
the row's batch had the row's CV (`EmailsMatch`). `StepKinds` reduces the actions to four kinds:
`OnlyReads`, `WorkerMoves(r, j)`, `CommitWrites(q)`, `ReportWrites(p)`; each conjunct is
proved against the kinds and not against every action. The hypothesis is used in one lemma,
`WorkerKeepsCurrent`. For the regimes, `Apart` says that an application waiting in one run is in
no other; it follows from `OwnRuns` (without sweeps, a run has only rows of its own batch),
`SweepsLater` (the one sweep comes after the one request handed out its last copy) or
`NoneLeft` (without faults a processing row has a run, so a sweep takes none). TLC checked `FInv`
and these on small instances before they were proved.

### Conversation

`ConversationProofs.tla`, from `CvAssumption` (the three sections the code names are sections;
`None` is no value), `ConversationAssumption` (`BuildSections` lists every section but projects
once, `basic` first) and `SessionAssumption` (`None` is no session):

| Theorem | States |
| --- | --- |
| `TypeCorrect` | `Spec => []TypeOK` |
| `SessionsAreConsistent` | `Spec => []SessionConsistent` |
| `OneIsActive` | `Spec => []OneActive` |
| `OldNeverLeaks` | `Spec => []NothingOldLeaks` |
| `CardsStay` | `Spec => []CardsStayInSection` |
| `ConfirmsKeepOthers` | `Spec => ConfirmKeepsOthers` |
| `UploadsAskForMissing` | `Spec => UploadAsksForMissing` |

`IInv == Types /\ SessionsHeld /\ TurnsHeld /\ ConfirmsHeld /\ OnlyOne /\ CardsStayInSection`. No
invariant of the tables alone is inductive, for the requests save the copies they read. But what
makes a session good is true of every copy of it, however old: `Held(x, copy)` says that the copy
is at its first open section, that the POST which made its session is over, and that a build
session either has no CV and is at `basic` or no section of an older CV is left. Others cannot
make that false: an older CV's section never comes back, since every writer of rows writes under
a newer author. So a save of any copy gives a good session, and the tables need nothing of
when it happened. That there is one session in progress is the index, checked by every
save that inserts, too. `AdvancedIs` and `SwitchedIs`
are about the lists: confirming moves the first open place by one, a switch renames one entry that is open.

### Section replies

`SectionReplyProofs.tla`, from `SectionReplyAssumption` (finitely many turns and entries, no entry
being the "null" that stands for no card; `ASK_LIMIT` positive), for any number of turns in flight:

| Theorem | Assumes | States |
| --- | --- | --- |
| `TypeCorrect` | | `Spec => []TypeOK` |
| `CardsAskNothing` | | `Spec => []NoQuestionBesideCard` |
| `KnownCardsStay` | | `Spec => []NothingIsLost` |
| `AloneNoCardShrinks` | one turn at a time | `Spec => []NoCardShrinks` |
| `FieldsAreAskedFor` | | `Spec => []AskedOnceBeforeClose` |
| `EntriesAreNotAskedAgain` | | `Spec => NeverAsksAgain` |
| `EmptyIsMeant` | | `Spec => EmptyCardIsMeant` |

`IInv` is the types, `TurnOk` of every turn, and four statements about what is stored. A turn's
best card holds no less than any card it read (`Knows`), because the card it starts from is the
first of the largest, which is a search over the history; its own card holds no less than that
(`Meant`), because `Kept` takes nothing from it; what it says once the section is taken for closed asks nothing
(`Quieted`). None of this depends on what other turns store meanwhile: cards are only appended and
mentions only grow. For object sections the latest card counts, so what a card's turn "knew"
(`Knew`) follows the chain of cards between. The bound on forced questions counts the turns that still
believe a field unasked (`Stale`): each question forced above the limit uses one of them up
(`Asked`). With one turn at a time every turn has read every card (`InTurn`), and `NothingIsLost` is
`NoCardShrinks`.

### Uploads

`UploadsProofs.tla`, from `UploadsAssumption` only (any uploads, attempts, faults):

| Theorem | States |
| --- | --- |
| `TypeCorrect` | `Spec => []TypeOK` |
| `DoneMeansSaved` | `Spec => []DoneWasSaved` |
| `FailureKeepsCv` | `Spec => []FailureLeavesCv` |
| `EndsAreFinal` | `Spec => EndIsFinal` |

`IInv` is the types and, for each upload, `Sound(u)`: who owns the row and how old it is
(`Owned`), what the job's and the poll's copies may hold (`Held`), and what the row says of the
CV (`Shown`). The heart of it: while a job lives its upload is fresh, so no poll
decides that it is interrupted and no cleanup takes the row from under its copy. `EndIsFinal`
follows because every writer of a row is then either the job, which ends it once, or a poll
that read a row without a job. Each action has a lemma, split into the upload it is about and
the others (`SoundStays`).

### Matching

`MatchingProofs.tla`, from `MatchingAssumption` only (any requests, CVs, jobs, batch size,
workers, faults):

| Theorem | States |
| --- | --- |
| `TypeCorrect` | `Spec => []TypeOK` |
| `ServedForItsCv` | `Spec => []ServedIsCurrent` |
| `OneRunAtATime` | `Spec => []OneRun` |

`IInv == Carried /\ Runs /\ Chained /\ Stored`: what a request carries (an answer only after its
turn came, and for its hash), `OneRun` with the types it needs, that only the first of the queue
computes and knows its CV, and that what the tables hold is for some CV. A run must have work
from its first step: `FirstBatchHasAJob`, by the least number in a set (`LeastExists`).

### Job ingestion

`IngestionProofs.tla`, from `IngestionAssumption` and `JobIndexAssumption` (finitely many
processes; any groups, countries, keywords, budget, sweeps, faults):

| Theorem | States |
| --- | --- |
| `TypeCorrect` | `Spec => []TypeOK` |
| `BudgetIsKept` | `Spec => []BudgetHolds` |
| `GroupsAreFetchedOnce` | `Spec => []NotFetchedTwice` |

`BudgetHolds` compares two counters nobody adds up in the code: calls that went out and calls
recorded. `IInv` relates both to what the processes are doing. A call is recorded, or a fault lost
its record, or its process is about to record it (`Logged`: `calls <= recorded + faults +`
processes recording). A process about to call found budget left, and as each process has
one sweep (`OneSweep`, from its flag), no process is both calling and recording, so calls made
and calls about to be made stay within budget, faults and the other processes (`Bounded`). The
rest of `IInv` is that the queue holds each pending group once (`Queued`) and where a sweep
is (`Place`).

### The rules

`RuleProofs.tla` is about the pure modules, for every input of the schemas:
`TailoringInventsNothing`, `TailoredFlagIsHonest`, `ExplanationsAreHonest`,
`LanguageIsAskedAgain`, `CardsCover`, `CardsHideNothing`, `CardsKeepPlaces`,
`OldAnalysisDoesNotLeak`, `OwnCvIsTruth`, `CitiesStayInMarket`, `CountriesAreMarkets`,
`MatchOrderIsStrict`, `ReasonsAreGroundedInFacts`, `ReasonsSurviveMoreFacts`, `MobilesStayDialable`.
They quantify over whatever a model may reply. A tailored CV has no bullet with a fact its entry lacks
and exactly the skills of the user's own (`TailoringInventsNothing`; each once if the CV lists each
once); it is called tailored only if it differs, and one not called so is the user's own but for
repetitions of a skill (`TailoredFlagIsHonest`). A reason shown traces to the candidate; a
listing collapsed into another hides no application. Where a rule puts a set of places in order
(`InOrder`), the argument is that ranks are an injection between sets of one size, which needs no
induction over data.

### Model-checked only

- Liveness, which like ENABLED is outside the prover's reach: `EveryApplicationEnds`,
  `EveryBatchEnds`, `EveryUploadEnds`, `EveryFileGoes`, `EveryRequestEnds`, `EveryGroupEnds`, and
  the fairness in the refinement `KeepsPromise`; its initial states and steps are `PromiseIsKept`.
- `SentIsFinal` and its kin outside the regimes, unless waiting copies stay current: there they are false.
- What follows by induction over data: `Streaming` and `JsonReply` over any text, `Embeddings`,
  the CV sent in `SentCv`, `resolveRoleFromCvTitle` over any phrase list. The bounded evaluation
  by the MC modules is all there is.

## 6. Not modelled

- *Device, transcription*: one row written by one statement, or one external call. The same holds of
  saving preferences; their default and their one check are in `Ranking`.
- *Server-sent events*: output only; what is streamed is stored first.
- *Providers* other than the reading of a stream, *rendering* of PDFs and emails, configuration,
  error bodies, migrations (their indexes and foreign keys are in the modules of their tables).
- *Regular expressions and tables of names* (facets, cities, closing intent, terms of a reason,
  apply methods): the rules over what they match are in the pure modules; where a state machine
  depends on them, any outcome is allowed.
- *The approximate index* behind the job search: `Ranking` takes the nearest listings exactly, and
  `Matching` any set of jobs for its answer.
- *Parts of modelled components*: the flat columns of a CV, a change of the job provider and the
  table of unmatched titles, a change of the embedding model, errors of the file system in
  deletions.
- *Composition*: `Conversation` has the landing of an analysis as one action (`SaveAnalysis`) of
  what `Uploads` does in steps, and `Applications` and `Matching` take the CV as changing at any
  time. Each is the most the other module can do, so nothing is lost but the joint properties.

## 7. Plan

Done: the state machines of Applications (with its promise), Conversation with Cv, SectionReply,
Uploads, Matching, Ingestion with JobIndex, and the rules; proofs of all their invariants and
action properties. What is left, in order:

1. `Ranking` composed with `Matching`, for an answer whose scores arrive batch by batch.
2. Uploads with Conversation composed, for the session that opens while an analysis lands.
3. A regime wider than the three: what requests, sweeps and faults may do together, short of a
   retry while a sweep resumes the batch, with waiting copies still current.
4. Proofs about `JsonReply` and `Embeddings` for texts of any length, should the prover come to
   take induction.
