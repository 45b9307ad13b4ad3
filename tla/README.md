# Verification of zaffiliate

TLA+ models of the zaffiliate code base, the TLC runs that check them on small
instances and TLAPS proofs of the results that should hold for every size.
Paths below are relative to the repository (`src/` is its root).

    tlc -workers 2 -config <run>.cfg <module>      # a run of PROJECT.json
    tlapm <Module>_proofs.tla                      # the proofs of a module

## 1. Inventory

zaffiliate is a modular monolith: an HTTP API (`apps/api`), a web server and
PWA (`apps/web`), a desktop shell (`apps/desktop`) and some twenty packages.
State lives in PostgreSQL through the repositories of `packages/db`, in Redis
(rate limits, event streams) or, for the reference runtimes, in memory per
process. JavaScript runs one callback at a time, so a synchronous operation is
atomic; an `await` is where others run. Several API processes and workers may
share one database, which is where most of the hard behaviour is.

| Component | State | Operations | Talks to | What is hard |
|---|---|---|---|---|
| Workflow engine (`packages/workflow/src/runtime.js`, `domain.js`) | jobs, approvals, tool grants, idempotency keys, dead letters, outbox, per tenant, in memory | enqueue, claim, complete, fail, cancel, confirmCancel, requestApproval, decideApproval, reconcile, drainOutbox | workers, approvers, a reconciler; callers read its outbox | reports of a worker that lost its job, approvals superseded or expired, retry budget across reconciliation |
| Publication queue (`packages/db/src/publication-jobs-repo.js`, `apps/api/src/publication-api.js`) | `publication_jobs` rows | create, transition, claimDue | operators, the publish worker | read and write of a transition are two transactions; who holds an attempt |
| Publish worker (`packages/workflow/src/tiktok-publish-worker.js`) | a batch of claimed jobs | runTick, processSingleJob | the queue, token service, TikTok | crash mid-batch, lost answers, reports that throw |
| TikTok accounts and tokens (`packages/tiktok-developer/src/token-service.js`, `packages/db/src/tiktok-accounts-repo.js`, `apps/api/src/tiktok-api.js`) | `tiktok_accounts` rows, the provider's refresh token | connect, getValidAccessToken, refresh, disconnect | TikTok OAuth, publish worker | rotating refresh tokens, refresh against disconnect, rolled-back failure marks |
| Transactional outbox (`packages/db/src/outbox-repo.js`, `packages/events/src/outbox-dispatcher.js`) | `outbox_events` rows with a lease | enqueue, claim, mark, release, dispatchOnce | publisher, Redis streams | leases that run out under a slow worker, crash between publish and mark |
| Durable streams (`packages/events/src/redis-streams.js`) | stream, consumer group pending list, dead-letter stream, idempotency reservations | publish, consumeOnce, reclaimOnce, deliver, quarantine | event handlers | redelivery against reservation, crash between two Redis commands |
| In-process bus (`packages/events/src/index.js`) | subscriptions, per-event deliveries, dead letters | subscribe, publish | handlers | a failing handler beside others, a list that changes while it is walked |
| Identity and billing (`packages/identity-billing`) | organisations, memberships, sessions, identities, API keys, meters, ledger, invoices | create/verify/revoke session, authenticate, meter, draft/issue/pay invoice, bootstrap | API | period boundaries, repeated payments, revocation |
| Outreach (`packages/outreach`) | suppressions, consents, queue, follow-ups, quotas, attribution | enqueue, schedule, materialise, process | e-mail or manual adapters | consent withdrawn between enqueue and send, quotas, retries |
| Affiliate core (`packages/affiliate-core`) | campaigns, partners, links, clicks, conversions, commissions, outbox | create, transition, record click and conversion | analytics, conversions | idempotent replays, attribution, commission rounding |
| Conversion reconciliation (`packages/db/src/conversion-reconciliation-repo.js`, `apps/api/src/conversion-api.js`) | conversion rows, commission ledger, provider evidence | ingest, updateConversionStatus, correctCommission | providers' reports | evidence out of order or repeated |
| Campaign lifecycle (`packages/db/src/campaign-repo.js`, `apps/api/src/campaign-api.js`) | campaign rows, audit | create, update, transition | operators | optimistic versions |
| Accounts and sessions (`packages/db/src/auth-repo.js`, `apps/api/src/auth-service.js`) | users, sessions, recovery tokens | register, login, logout, verification, reset | API | reset against login, one-time tokens, attempt windows |
| OAuth login and grants (`packages/db/src/oauth-repo.js`, `oauth-login-repo.js`, `apps/api/src/production-oauth-api.js`, `packages/security/src/oauth.js`) | pending authorisations, identities, their directory, provider tokens | start, callback, link, disconnect | identity providers | callbacks delivered twice, first sign-ins at once, a link against a disconnection |
| AI content (`packages/ai-content`) | requests, artifacts, budget, provider health | generate, moderate, failover, factory pipelines | LLM providers | budget under concurrent calls, failover |
| Automation policy (`packages/automation`, `packages/db/src/automation-repo.js`) | kill switches, caps, budgets | evaluateAction | every autonomous action | order of the checks |
| Analytics (`packages/analytics`) | event ledger, rollups, dedupe index | ingest, correct, query | events | duplicates, late events |
| Intelligence (`packages/intelligence`) | features, models, portfolio, decisions | register, score, shadow, gate | automation | staleness, promotion of models |
| Provider adapters (`packages/adapters`) | provider registry, policies, rate limiters | register, call, retry | providers | limits, transports |
| TikTok Shop SDK (`packages/tiktok-shop`) | dedupe window, circuit breaker | send, page, receive webhooks | TikTok Shop | retries, replayed webhooks |
| Security (`packages/security`) | rate limits, key sets, envelopes | limit, verify, seal | API | counters shared by processes |
| Contracts (`packages/contracts`) | audit chain, grants | append, verify | all | chain order |
| Storage, release, config, trend, supabase, observability, control plane, migrations, scripts, web and desktop front ends | files, object store, metrics | | | mostly I/O, formatting and views |

The parts that carry the program's own logic and its hardest behaviour are the
ones where several processes share PostgreSQL or Redis, and the workflow
engine; they are modelled first. What each component must get right:

- **workflow engine**: nobody runs a gated job without an approval of its own
  request; retries are bounded; one worker at a time until reconciliation; the
  outbox tells the state; one job per idempotency key; every job comes to rest;
- **publication queue and worker**: every attempt is handed out once; statuses follow the
  table; posts are covered by counted attempts; a job
  is in `processing` only while someone has it or is known to have left it;
- **tokens**: the stored refresh token is one that works unless that very token was lost; a herd
  refreshes once; a disconnection stays; waiters are answered;
- **outbox and streams**: no event dispatched unpublished, none acknowledged
  unsettled, at-least-once without a store, at-most-once effects with one;
- **affiliate tables**: events add up to rows; each record announced once;
  campaigns keep their table; links and margins rest on states that existed;
- **outreach**: nothing sent to a contact that opted out, nor while
  it refuses consent, caps kept whatever is retried or followed up, one message not sent twice within the retention;
- **identity and billing**: what lets somebody in follows the log, one bootstrap grant at a time;
  quotas, invoices, payments and the ledger agree;
- **catalogue, in-memory affiliate records, Shopee feed**: tenants stay apart,
  commissions follow the chain, a claim about a price rests on current evidence,
  a product keeps its identity whichever import stores it first;
- **analytics, observability**: reports of the same events agree, in whatever
  order and however often these arrive;
- **automation, intelligence**: a kill switch stops what it names from the time it is set,
  advice is current, only a proven model is served;
- **AI content**: what is generated is paid for once within the budget, and was
  moderated; scripts fill their time; experiments follow their weights and rewards;
- **adapters, SDK, limits**: changes are approved once each, rates hold across
  instances and waiting callers, one probe decides about a half-open breaker;
- **bus, migrations, contracts**: every subscriber is called, every migration applied
  once, a log that was tampered with does not verify.

## 2. Modules

| Module | Models | Uses |
|---|---|---|
| `WorkflowRuntime` | the workflow engine | |
| `PublicationJobs` | the publication queue | |
| `PublishWorker` | the TikTok worker and the operators | extends `PublicationJobs` |
| `TikTokTokens` | one TikTok account and its tokens | |
| `EventStream` | the stream both sides share | |
| `OutboxDispatch` | outbox rows, leases and dispatchers | extends `EventStream` |
| `StreamConsumer` | a consumer group with its idempotency store | extends `EventStream` |
| `EventDelivery` | abstract: what delivery promises | |
| `EventPipeline` | outbox, stream and consumers together | extends `OutboxDispatch`, `StreamConsumer`; instances of `EventDelivery` |
| `AffiliateCore` | campaigns, links, clicks, conversions, commissions, margins on Postgres | |
| `WebhookIngress` | the webhook route and its replay guard | extends `AffiliateCore` |
| `OAuthLogin` | sign-in, account linking, identities and their directory | |
| `LocalAccounts` | a local account: password, sessions, recovery | |
| `MCTenantTables` | TLC's instance of the three tenant modules | extends `AffiliateCore`, `OAuthLogin`, `LocalAccounts` |
| `Outreach` | contacts, messages, follow-ups, the pass over the queue | |
| `TenantIdentity`, `TenantBilling` | the two halves of identity and billing | |
| `AffiliateMemory`, `CommerceStore` | the in-memory affiliate runtime; offers, prices and claims | |
| `AnalyticsRuntime`, `AnalyticsStore` | attribution and reports; the deduplicating store and its table | |
| `AutomationPolicy` | policies, kill switches and the decision on an action | |
| `Intelligence`, `ModelRegistry` | features, ranking, recommendations; versions of a model | |
| `AiContent`, `ContentFactory`, `Experiments` | generation; briefs, scripts, showcases; experiments | |
| `ProviderPolicy`, `TokenBucket` | versioned provider policies and publication; the adapters' rate limit | |
| `ResilientInvoker` | retries, timeouts and the circuit breaker of the TikTok Shop SDK | |
| `IngressLimits` | the request limiter in Redis and its fallback | |
| `Migrator` | concurrent runs of the migrator | |
| `ShopeeFeed` | import batches and offer imports of the Shopee feed | |
| `AuditAndRoles` | the hash chain of the audit log; roles and escalations | |
| `EventBus` | the in-process bus | |
| `Telemetry` | spans and the two metric stores | |
| `MCRuntimes` | TLC's instance of these modules and of `WorkflowRuntime` with approvals | extends all of them |

`MC...` modules give TLC symmetry sets and values that a cfg cannot express;
`..._proofs` modules hold the theorems; a component that is stated with others shares its
proof module with them (section 4). Actions carry the name of the function
they model where one step is the whole function; where an `await` divides a
function, each part has its own action (`transitionRead`, `transitionWrite`).
A definition commented `(mutation)` is a plausible bug of the definition after
it. It is never part of a specification: PROJECT.json names it as the defect
that a property detects.

### WorkflowRuntime

`jobs` is the job map of `runtime.js`, `approvals`, `grants`, `idempotency` and
`deadLetters` its other maps, all tenants in one state. Every exported
operation is synchronous, so it is one action. `failJob` is two
(`failJobRetry`, `failJobDeadLetter`), `cancelJob` two (idle and running) and
`decideApproval` two (`approve`, `reject`): one per outcome. `claimJob` takes the
first claimable job of the scan. Time is `tick`, which ages running jobs, backoffs
and approvals; it stops counting where the code only compares. `enqueueJob`
registers the key before it deep-clones the payload, and `enqueueCloneFails` is
the call whose clone throws. `held` is what each worker believes, `claims` and
`approvedEver` are history, `view` is a reader that applies the outbox in order.

### PublicationJobs and PublishWorker

`rows` is the table. `transition` is a SELECT ... FOR UPDATE in a transaction of its
own and an UPDATE guarded by the status that was read, so two actions; a write that
finds another status is `transitionOvertaken`. `claimDue` is one statement, and
takes up to `Limit` of the rows due at the time its caller names: the worker names the clock,
an operator any time (`body.now`). `claimed` is what each caller was given and still holds, with
the attempt its claim returned; `given` is the history of the attempts each job was ever
handed out under, which outlives reports and crashes. `PublishWorker` adds `task`, the progress of
`processSingleJob`, with one action per `await`: account, preparation (token,
creator info, content), post, report. Operators use the same queue through the
API and may report on anything. TikTok and the network are external: a post is
accepted, refused, or accepted with its answer lost.

### TikTokTokens

One row, its lock, a step per `await` of linking, `getValidAccessToken`,
`refreshTokenWithLock` and `disconnectAccount`. A grant is a number that stands for its
access token and for the refresh token that came with it. An authorisation may bring none: the
callback then stores NULL and the upsert COALESCEs the token of the row (`Coalesced`), so a
link can keep the refresh token of an earlier grant. `life` divides a token's remaining time at the two
thresholds of the code (five minutes and one minute). `SealedForRow` says which
authenticated data the OAuth callback seals tokens with; the code is FALSE. With
FALSE no token can be opened and nothing of the refresh logic is reached, so
the run `tiktok_tokens` takes TRUE, which is what the unit tests store, and
`tiktok_sealed` takes FALSE and shows the consequence. TikTok is external: it rotates
the refresh token or keeps it, refuses, or its answer is lost. Of TikTok two things are assumed: it
accepts a refresh token until that one is rotated or the consent is withdrawn, whatever it
issues meanwhile, and its access tokens live longer than the five-minute buffer. `lost` is the history of the
refresh tokens that died by an answer that never reached the row, a death before the commit or a
withdrawal; `brought` says that a link since the last disconnection brought one.

### EventStream, OutboxDispatch, StreamConsumer, EventPipeline, EventDelivery

`outbox[e]` is the row of event e with its lease owner; `work[d]` is the batch that
dispatcher d goes through in `dispatchOnce`, one step per call. `OutboxFaults` are
a call that throws, a dispatcher that dies and a lease that runs out. In
`StreamConsumer` one action is one Redis command of `consumeOnce`, `reclaimOnce`,
`deliver` or `quarantine`; `pending` is the group's pending list, `reserved` the
idempotency store, `handled` counts the effects of an event (0, 1, more), `dlq` the copies
in the dead-letter stream. `EventPipeline` is the conjunction of the two sides: a step
is a step of one and leaves the other's variables alone, and only the shared
`stream` is written by one and read by the other. `EventDelivery` has neither
leases nor streams: an event is recorded, then takes effect or is parked.
`EventPipeline` maps its state onto it (recorded: the row exists; effects:
`handled`; parked: a copy in the dead-letter stream) and implements it with
`Once` TRUE when a store deduplicates, FALSE otherwise.

### AffiliateCore and WebhookIngress

`status` holds campaigns and conversions, `source` the report row that a
conversion's commission was set from, `clicked`, `links`, `margins` the other
tables, `recorded`, `moves` and `corrections` the outbox events of each kind. An operation that
reads under FOR UPDATE is a pair: the locking SELECT and the writes up to COMMIT.
`lock` holds row locks and unconfirmed entries of unique indexes: an INSERT of
the same key waits, as in PostgreSQL. `rollback` is any failure in between. Reads
without a lock (`readCampaign`, `readConversion`) remember what they saw in
`tx`. `WebhookIngress` adds the replay guard's memory (`known`) and the
delivery's progress; `Backend` selects the runtime. The Postgres repository
asks for a commission that the webhook call does not pass, so it always throws.

### OAuthLogin

`pending` joins the two tables of one-time states: `LoginStates` belong to nobody, `LinkStates` to
the user who started them. `identity` is `auth_user_identities`, `directory` the
global table that a trigger keeps beside it, `stored` the subject whose tokens a
user has. A callback goes through one action per `await`: `consume` (the UPDATE that
takes the state), `exchangeCode` (provider and verification; which subject comes back is the
person's choice), then either `resolveIdentity`, `registerOwner` or `registerConflict` and
`issueExistingSession`, or `linkNew`, `linkOwn`, `linkTaken`, `storeTokens`. `gives` is every failure on the way.
A transaction is one action where unique indexes and row locks make it look
like one. A disconnection is two (`deleteTokens`, `deleteIdentities`), and so is a
repeated link, which stores tokens for an identity that it only read. `issued`, `linked` and
`owners` are history. Providers share nothing, so there is one.

### LocalAccounts

One account. `password` counts the passwords it has had, and a session carries the
one its login compared, since `login` awaits between reading the credentials and creating the
session. `createRecoveryToken` is two actions, `countRecent` and `insertToken`: a READ
COMMITTED transaction without a lock. A reset claims its token, changes the password
and revokes the sessions it finds in one action; a session that commits
during that transaction is one that was created after it.

### The runtimes in memory

The reference runtimes keep their state in maps of one process, and their exported
functions are synchronous: one function, one action, under its own name. What is hard in
them is not an interleaving of threads but a long sequence of legal calls, with time passing in
between. Each module has one time action whose end is a constant (`OutreachEnd`, `AiEnd`, ...).

- `Outreach`: `attempts` is the queue in order, `dedupe` the last attempt of each message,
  `processQueue` the whole pass, which folds its step over the queue and for each message decides,
  sends, retries or settles; `sends` is the history the caps are measured on. A
  message stands for its dedupe key, so a repeated one is the same message. `sendLog` is what the
  hourly cap is asked of: the place and the time of each send, dropped as the hour goes by. The code
  sorts the attempts due in one tick by their ids as text; the model takes them in the order
  they were enqueued, which is the same for fewer than ten of them. `processQueue` takes an optional `now`,
  which the model reads off the clock, as every caller outside the tests does; section 6 has what else it can do.
  `refused` is the history of the contacts whose last word on consent was no, `optedOut` of those ever suppressed.
- `TenantIdentity`: sessions with their expiry, links, keys, the bootstrap grant; `escalations` is
  the runtime's own log, and the property compares it with who may come in.
  `TenantBilling`: one metric, invoices over closed periods, payments, the ledger.
- `AffiliateMemory`: `records` of two tenants, each on its parent, and an outbox drained in order.
  `CommerceStore`: an offer is replaced as a whole, and `upsertOfferRejected` is the update
  that removes the old one before it refuses the new one. `revalidateCommercialClaim` has every way to ALLOW:
  claims of other types than PRICE and DISCOUNT, claims that name no value, and any time asked about
  (`nowOverride`, which the HTTP handler and the gate leave out). `observed` and `lastAllowed` are history.
- `AnalyticsRuntime`: events name the event before them; the reports are
  operators over the stored events. `AnalyticsStore`: envelopes told apart by a key. Nothing in `events.js`
  refuses a negative amount, so `Envelopes` may have them, and the net figures are compared with the
  gross ones only where no reversal is negative.
- `AutomationPolicy`: `Decide` is the ordered list of checks of `evaluateAction`;
  handlers keep policy and switches in memory, and repositories in rows. `LowerCase` and `Trim` are the two
  conversions, and each name is compared in the form the code gives it: a switch's id as it was set, an action's
  platform in lower case for the switches and trimmed too for the allow-list. The table calls the scope
  of an organisation `org`, memory `organization`.
- `Intelligence`, `ModelRegistry`: values with the time their caller says they were computed, recommendations and predictions
  with their end; a version's status and the version that is served. `Rank` is the set of orders in which no candidate
  is outranked by a later one; of the predictions of a product that still hold the one saved last is
  read, so an earlier one is read again when it outlives it.
- `AiContent`: providers by priority, one budget, a cache; an outcome of each provider is chosen by the
  environment before the call, `Affordable` and `AnswersAt` tell which one answers. `ContentFactory`: a text is the set
  of fields it is built from. `Experiments`: arms with weights in hundredths.
- `ProviderPolicy`: `Lower` is toLowerCase; what is declared is looked up in lower case, the class of a capability and
  its override in the letters of the request. `publish` consumes an approval. `TokenBucket`: amounts in parts of a token; a
  waiting `acquire` is a caller between two awaits (`acquire`, `acquireAgain`).
- `ResilientInvoker`: `invoke`, then an answer (`succeed`, `failAttempt`) and a `retry` are apart, since calls await between;
  one breaker is shared by all calls, which is where they interfere.
- `IngressLimits`: one bucket in Redis, refilled by the clock of whoever calls,
  and a bucket per instance. `TopUp` writes the caller's time even when it is earlier.
- `Migrator`: `plan`, `applyBody`, `record` per process, with crashes in between. A file that has its own
  transaction commands commits its body before the record.
- `ShopeeFeed`: a repository's operation is one transaction; the import's question and its insert are two.
- `AuditAndRoles`: a hash is the value it is computed from, so two are equal only when those are.
- `EventBus`: `publishEvent` begins a walk over the live list of subscribers; one step (`deliver`) is
  one handler with its tries, between which handlers subscribe and unsubscribe. Unsubscribing splices the list
  (`RemoveAt`), and what stood behind moves up one place under the walk.
- `Telemetry`: spans share one `current`; a metric call changes the printed store before
  the checked one may refuse it.

## 3. Runs

| Run | Shows | Bounds |
|---|---|---|
| `workflow_jobs` | bounded claims, one holder, exact dead letters and keys; every job comes to rest | 2 jobs, 2 keys, 2 workers, 2 attempts, no approvals |
| `memory_runtimes` | gated jobs run only approved and the outbox tells the state; what each runtime in memory promises (section 1) | see below |
| `publish_workers` | who leaves a job in `processing`; scheduled jobs settle | 3 jobs (1 of another platform), 2 workers, batch 1 |
| `publish_operator` | every attempt is handed out once, posts are counted, statuses keep the table | 1 job, 2 workers, 1 operator, attempts up to 3 |
| `tiktok_tokens` | refresh tokens current, one refresh per herd, disconnections stay, waiters answered | 2 callers, 3 grants |
| `pipeline_once` | refinement: at-most-once effects with a store | 1 event, 1 dispatcher, 2 consumers, 2 entries, 1 fault, 1 stop |
| `pipeline_fair` | refinement: at-least-once delivery without a store | 1 event, 2 dispatchers, 1 consumer, 4 entries, 1 fault, 1 stop |
| `tenant_tables` | affiliate: events add up to rows, each record once; sign-in: states used once, identities keep their account; accounts: resets end sessions, recovery is bounded | 2 callers; 1 campaign, 1 order, 1 click, 2 report rows; 2 accounts, 2 identities, 4 states; 3 sessions, 3 recovery tokens |
| `tiktok_sealed` | violation, see section 6 | 1 caller, `SealedForRow` FALSE |
| `stream_lost` | violation | 1 event, 2 consumers, no stop |
| `commission_replay` | violation | 1 caller, 2 report rows |
| `webhook_lost` | violation | 1 order, Postgres |

Why the bounds are enough to be interesting:

- **workflow**: two jobs make the scan order and starvation matter; two keys let
  one be registered by a call that fails; two workers let a late report meet a
  second run; two attempts are one retry and the dead letter, with a
  reconciliation beyond the budget. Approvals are in `memory_runtimes` with one job, because they
  interact with others only through the job they belong to; two are the least with
  which one supersedes the other. `MaxAttempts`, `ApprovalTtl`,
  `StaleRunning` and `BackoffTicks` are parameters of the code or its options.
- **publication**: `AttemptCap` bounds the attempts an operator can cause by
  requeueing (the code has no bound; that is the point of
  `AttemptsWithinBudget`, below). `Limit` 1 with three jobs makes jobs wait
  behind others. In `publish_operator` an operator is beside two workers, claims with a time ahead of the
  clock, and requeues, so that attempts are handed out one after the other and at once. A batch larger than one
  job does not occur: what is stranded with it is stranded job by job.
- **tokens**: three grants are a link and two refreshes, or two links, one of them without a refresh
  token, and a refresh. Two callers are a herd.
- **pipeline**: one event suffices for promises made per event; `MaxFaults` bounds how often
  dispatching fails (throw, death, lost lease), `MaxEntries` how many entries the stream takes in,
  `MaxStops` how often a consumer dies. In `pipeline_fair` four entries exceed what the
  faults can publish, so the bound never blocks a dispatcher that fairness obliges;
  in `pipeline_once` two entries are two copies of one event in work at once.
- **affiliate**: the operations of two orders touch no common row, so a second
  order adds nothing two callers on one order do not show. `MaxMoves`,
  `MaxCorrections` and `MaxLinks` bound the histories. Callers and report rows
  are interchangeable, and no liveness is checked, so symmetry is sound.

- **sign-in**: two logins and two links with two identities in two concurrent
  callbacks: both orders of every pair of flows on one identity and on two. Two
  accounts are the owner of an identity and somebody else.
- **accounts**: three tokens exceed what two requests may have open together under `MaxRecent` 1
  (the code's is 3), three sessions what two late logins can keep.

- **runtimes in memory**, one instance for each part: Outreach sends one message up to twice to one
  contact, with an hour of one tick and a day of three, two of them outside the quiet hours, an hourly cap of two and a
  daily budget of three: a retry meets the cap of its hour (`skipped_guardrail`), the fourth send of a day its budget
  (`skipped_budget`), and the next day opens it again; billing has two periods that meet in the time of all usage;
  affiliate records have two tenants with one product name and one order reference;
  analytics delivers a whole chain, a cart that names an impression for a click, and a second
  conversion; the store gets one external id with three contents; automation has the policies
  manual, auto_safe, autonomous and one that names another organisation, up to two of five switches, two of
  which name one platform in different letters, and actions that name it in capitals and with a space; a capability is declared and requested in two spellings;
  claims are of every type, with and without a value, about any time; three model versions are one served, one retired, one rising;
  two AI providers of different price share a budget that does not pay for the dear one twice;
  three calls share a breaker that opens at two failures; two callers wait for one
  bucket; two migrators crash twice over a release, its successor and a changed one; two limiter instances have
  clocks that agree or differ by one. Inputs that a cfg cannot express are in `MCRuntimes`, each
  with the case it is there for.

`tenant_tables` holds three parts that share no variable, and `memory_runtimes` twenty-three. The MC module
chooses the part that moves in its initial state: every behaviour of each part is explored, their
state spaces add up instead of multiplying, and since no property relates two parts nothing is lost.
Their properties join those of the modules (`OutreachHolds` is
`SendsWithinCaps`, `NothingAfterOptOut` and `DuplicatesAreApart`, and so on); PROJECT.json has mutants of
every part. Likewise `EventsTellRows`, `ReadsWereTrue`, `OwnersAgree`, `AccountsHold`,
`IndexesAgree` and `NothingIsDropped` join what belongs together in their modules.

Deadlock is checked except in the pipeline, tenant and memory runs, whose bounded
histories end: there `CHECK_DEADLOCK FALSE` is about the bound, not the code.

### Fairness

No production entry point drives the workflow engine, the dispatcher, the stream
consumer or the publish worker: each exports one round (`claimJob`,
`dispatchOnce`, `consumeOnce`, `runTick`) and leaves the loop to its host. The
liveness properties therefore state what these rounds achieve if a host keeps calling
them, which is an assumption about the host:

- `WorkflowRuntime`: weak fairness of each worker (it polls and reports what it
  holds), of `reconcile` and of time. Nobody has to enqueue, cancel, approve or die.
- `PublishWorker`: weak fairness of each worker's own steps and of time, none
  of operators, crashes or account changes. All the outcomes of an external call are
  one fair step; none of them is favoured.
- `TikTokTokens`: strong fairness of acquiring the row lock, since PostgreSQL
  queues waiters; weak fairness of the end of a call to TikTok (the code sets no
  timeout, so this rests on the connection) and of the commit.
- `OutboxDispatch`: weak fairness of each dispatcher's next step (a round is claimed
  whenever something is due) and of leases and delays running out.
- `StreamConsumer`: weak fairness of a delivery in progress and of entries growing
  idle; strong fairness of `consumeOnce` and of `reclaimOnce`, because a host
  that alternates the two calls takes each infinitely often although the other
  makes it unavailable for the length of a batch.
  Faults and stops are bounded and never fair.

## 4. Proofs

All theorems hold for every value of the constants that the named assumptions
allow.

| Module | Theorems | Inductive invariant |
|---|---|---|
| `WorkflowRuntime_proofs` | `Invariant`, `TypeCorrect`, `GatedRunsAreApproved`, `ClaimsAreBounded`, `OneHolder`, `OutboxIsFaithful`, `IndexesStayInAgreement` | `IInv` |
| `PublishWorker_proofs` | `JobsInvariant`, `JobsTypeCorrect`, `AttemptFences`, `StatusesFollowTable` | `JobsInv` |
| | `WorkerInvariant`, `WorkersTypeCorrect`, `WorkersAreFenced`, `PostsAreCounted`, `ProcessingIsHeld`, `WorkersFollowTable` | `WorkerInv` |
| `TikTokTokens_proofs` | `TokensInvariant`, `TokensTypeCorrect`, `StoredRefreshStaysCurrent`, `OneOfHerdRefreshes`, `DisconnectedStays` | `TokensInv` |
| `EventPipeline_proofs` | `PipelineInvariant`, `PipelineTypeCorrect`, `PublishedBeforeDispatched`, `LeasesExclude`, `NothingReadIsLost`, `DeadLettersWereTried`, `DropsNothing`, `EffectsAreUnique`, `EffectsAreRecorded` | `PipelineInv` |
| `TenantTables_proofs` | `AffiliateInvariant`, `AffiliateTypeCorrect`, `EventsTellStatus`, `EventsTellCommission`, `RecordsAreUnique`, `LinksWereActive`, `MarginsEarned`, `RowsAreTold`, `ReadsAreTrue`, `CampaignsKeepTable` | `AffiliateInv` |
| | `OAuthInvariant`, `OAuthTypeCorrect`, `StatesAreUsedOnce`, `DirectoryAgrees`, `GrantsAreOwned`, `OwnersAlwaysAgree`, `IdentitiesStay` | `OAuthInv` |
| | `AccountsInvariant`, `AccountsAreHeld` | `AccountsInv` |
| | `TablesInvariant`, `TablesTypeCorrect` (the three parts of `MCTenantTables`) | `TablesInv` |
| `RuntimeRecords_proofs` | `BooksStayInAgreement` (`TenantBilling`) | `BillingInv` |
| | `MeasurementsAddUp` (`AnalyticsStore`) | `StoreInv` |
| | `AttributionStaysWhole` (`AnalyticsRuntime`) | `AnalyticsInv` |
| | `TelemetryStaysTrue` (`Telemetry`) | `TelemetryInv` |
| | `GenerationStaysAccounted` (`AiContent`) | `AiInv` |
| | `FactoryStaysSound` (`ContentFactory`) | `ContentInv` |
| | `ExperimentsStayFair` (`Experiments`) | `ExperimentsInv` |
| | `AdviceStaysSound` (`Intelligence`) | `AdviceInv` |
| `RuntimeLimits_proofs` | `ProvidersStayGoverned` (`ProviderPolicy`) | `PolicyInv` |
| | `RateStaysKept` (`TokenBucket`) | `BucketInv` |
| | `LimitsStay` (`IngressLimits`) | `LimiterInv` |
| | `AccountsStayKept` (`AuditAndRoles`) | `AuditInv` |
| | `PartitionsStayApart` (`AffiliateMemory`) | `MemoryInv` |
| | `LimitsOnOutreachHold` (`Outreach`) | `OutreachInv` |
| | `DeliveriesStayAccounted` (`EventBus`) | `BusInv` |
| `Runtimes_proofs` | `FeedKeepsIdentity` (`ShopeeFeed`) | `FeedInv` |
| | `ClaimsHaveEvidence` (`CommerceStore`) | `CommerceInv` |
| | `IdentityStaysAccountable` (`TenantIdentity`) | `IdentityInv` |
| | `AutomationStaysBounded` (`AutomationPolicy`) | `AutomationInv` |
| | `RegistryInvariant`, `ServedIsProven` (`ModelRegistry`) | `RegistryInv` |
| | `MigrationsAreAppliedOnce` (`Migrator`) | `MigratorInv` |
| | `BreakerStaysEarned` (`ResilientInvoker`) | `InvokerInv` |
| | of `MCRuntimes`: `RuntimesInvariant`, `CommerceStaysSound`, `DecisionsStayBounded`, `InfrastructureStaysSound`, `ProvidersStayWithin`, `TenantAccountsStayTrue`, `OutreachStaysWithin`, `FiguresStayInAgreement`, `ContentStaysSound` | `RuntimesInv` |
| | of `MCRuntimes`: `RuntimesTypeCorrect` | `RuntimesInv /\ RuntimesTypes` |

Every safety property of every run that passes is stated by a theorem. The runtimes in memory share three
proof modules: `RuntimeRecords_proofs` is about what they record and give back, `RuntimeLimits_proofs` about
what they let through, `Runtimes_proofs` about the other parts and about all of them beside each other. They are not
one module because what a prover is given grows with what a module extends.

Every theorem about a component is about that component's own specification. Where the
run checks it inside `MCTenantTables` or `MCRuntimes`, a second theorem carries the
invariant over: in a step of the composed system one part moves and the others keep their variables.

The assumptions are on the constants and named in the modules (`PublicationConstants`,
`TokenConstants`, ...): limits are natural numbers or positive, a marker such as `None`,
`"none"` or `"unlinked"` is none of the values it marks the absence of, and checksums and
rows are of the shape the code reads. TLC evaluates each of them on every run that uses it. Those of the runtimes in memory say no more than
their input checks do: amounts, quantities, quotas and revenues are naturals (`BillingAssumption`,
`MemoryAssumption`, `DeliveriesAssumption`) except where the code takes any number (`EnvelopesAssumption`, the
rewards of `ExperimentsAssumption`, the samples of `TelemetryAssumption`); capacities, rates and retentions
are naturals, and positive where the code divides by them or refuses zero (`BucketAssumption`, `OutreachAssumption`,
`BusAssumption`). Four say something about the values: in `LimiterAssumption` a key in Redis lives at least
as long as its bucket takes to fill, in `ContentAssumption` a script format is no shorter than its eight sections, in
`AiAssumption` no two providers have one priority, and in `RolesAssumption` only
owners and admins manage, which is the table of `grants.js`.

Sums, rankings, passes over a queue and running totals are folds in the code and in the models. What a fold gives is
shown by induction over the data, without a theorem that takes a predicate: of the cases that
would be wrong one is least (`LeastSubset` from `FS_StrictSubsetOrderingWellFounded`, and
`NatLessThanWellFounded` with `WFMin` for sequences), and the one before it makes it right. The first section of
`RuntimeRecords_proofs` has the lemmas the other proofs cite: a sum with one more element (`SumWith`), over sets apart, over
the parts of a whole (`SumByParts`), and for a pass over a sequence that a function computes it and
that any two agree (`PassStarted`, `PassesAgree`).

Why the properties are not inductive as they stand:

- **`IInv`**. A claim is legal because the job is queued, which says nothing of
  how often it was claimed. `ClaimBudget` keeps a queued job one claim below its
  bound: reconciliation is the one way to queue a job that is not, and it spends
  `reconciledOnce`. `QueuedIsFree` does the same for holders, `StartedCounts` says
  a running job counted an attempt, and `ApprovalsRemembered` connects a decision
  that may since have been reversed to the history that `GatedRunApproved` is about.
  `IndexesAgree` needs nothing of its own: with the types it is inductive,
  because a job enters the dead letters in the action that gives it up and leaves them in none.
- **`JobsInv`**. A transition writes on a status it read earlier. `PendingLegal`
  says the write was legal for the status it read, `ClaimsCounted` that an
  attempt somebody holds is one the row has counted, and `GivenCounted` that every attempt ever handed out is:
  a new one is higher than all of them, since a row's counter never falls.
- **`WorkerInv`** adds the workers. A post uses up the attempt its job was claimed under:
  `Unposted(j)` are the attempts of j that are claimed and not posted yet, and `PostsCovered` bounds the posts
  made plus these by the attempts counted. A claim raises both sides by one, a post moves one
  from the second set to the first, and `OneCallerPerAttempt` is what makes that attempt leave the set: no
  second worker has it. `ReportsPending` ties a report on its way to its worker's task, `OperatorsNoted` says
  that an operator's write is on a job that counts as touched by hand, and `WorkersKeepBudget` that only such a job
  has attempts beyond the budget.
- **`TokensInv`**. `LockInv`: only the holder of the row lock is at TikTok or about to commit. `RefreshInv`: under
  the lock the row is still what the refresh began with, so what the commit replaces is what
  it used up, and what it stores TikTok accepts or was lost meanwhile. `LinkInv`: the refresh token a linker brings,
  if any, is its own and no refresh can have used it. `HerdInv`: a
  refresh that was accepted and not lost is being committed or has made the row fresh, and then the re-check under
  the lock stops the rest of the herd.
- **`PipelineInv`** is `OutboxInv /\ GroupInv`. `OutboxInv`: a dispatcher that is about to mark an event has
  published it, and one that works on an event holds its lease or has lost it. `GroupInv`
  has three parts: `OnceInv` (an event is reserved before it is
  handled, and one consumer at most is between the two), `LossInv` (a consumer
  that is about to acknowledge has handled or dead-lettered the entry) and
  `TriedInv` (attempt counters only rise, and a dead letter was preceded by the
  last). `EffectsAreUnique` is the simulation: the initial state maps to one of `EventDelivery`, and
  every step to `Record`, `Effect`, `Park` or a stutter.
- **`AffiliateInv`**. `TxOK` says that what a transaction saw under its row lock
  is still what the row says, which is why the event it appends chains to the last
  one; for the two reads without a lock it says only that what was seen was
  true once, which is all `LinkedWasActive` and `MarginsWereEarned` claim.

- **`OAuthInv`**. `StatesInv` says that a consumed state is with one request or has
  had its effect, never both; that is what makes a second delivery harmless. `OwnersInv` says that what a request
  was told about an identity was true when it was told, `RequestsInv` that it acts for the user its state belongs to.

- **`AccountsInv`**. The property counts: `LateLogins` bounds the sessions older than the
  password plus the logins on their way with an older one. A login that ends moves from the second set
  to the first, a reset empties the first and makes at most every waiting login late. `RecentTokensBounded`
  counts recent tokens plus inserts on their way likewise, and `ChangesArePaid` counts used tokens.
  `SeenWasSet` says that nobody has seen a password that was not set yet, `TokensBelong` that a token exists
  only for an account that does.
- **`FeedInv`**, **`CommerceInv`**. The feed's property is inductive with the types of its rows, because the
  insert looks again, under the unique index, at what the import asked for. In the catalogue
  `PricesWereReported` says that every price a claim may be compared with was reported for that offer,
  although offers are replaced, refused and lost in between. Freshness is asked about the time the claim is
  asked about, so the clock plays no part in it.
- **`IdentityInv`**. The property compares who may come in with a log of what was done. `KeysAreLogged` and
  `PeopleAreLogged` say, of keys and of people, which entries every state of theirs has left behind;
  `GrantsFollow` says that the bootstrap grant issued last ends last, so that if any is good that one is.
- **`AutomationInv`**. A switch that was ever engaged keeps its active record, which nothing replaces, and a policy
  is one that `createAutomationPolicy` normalised. That such a switch covers what it names (`Stops`) rests on the two
  conversions commuting, an assumption about `LowerCase` and `Trim`. The
  decision is an ordered list of checks without state: that the answer is monotone in the pressure is a lemma about
  `Decide`, from lemmas that each check is.
- **`RegistryInv`**. A promotion asks for a version in SHADOW, a rollback for a retired one, so
  `ShadowIsRemembered` says that both went through SHADOW, as the property claims of the version served.
- **`MigratorInv`**. `WorkIsBehind`: every file of a process's release that is not left to do is recorded, so
  when it records a file the earlier ones are; `BodyIsThere`: a file that commits by itself and is at its record
  has taken effect. Two processes cannot both be inside an enclosed file, and the primary key stops the
  second record, which rolls its body back.
- **`InvokerInv`**. Calls end in any order after the breaker moved on. `ClosedCounts` says that a closed breaker's
  counter is the failures in a row, `OpenIsEarned` that an open one has had them or a failed probe,
  `ProbeIsNoted` that a half-open one has exactly one probe, which is still out or was refused.
- **`OutreachInv`**. The caps are about the history of sends, the code asks counters and a log. `Within` ties them:
  the tries of an attempt count its sends, the budget of a day those of that day, and the log of a
  contact has at least those of the last hour, so a send that the log allows leaves every hour within its cap.
  `ContactsKept` says that a contact that was suppressed or refuses consent is one the pass skips.
  `Apart` says that attempts of one message are further apart than the retention and that the key names the last
  one if it is not; a queued attempt has a try left. A pass keeps both at every element, with its own
  copies of the counters, which is why they are parameters.
- **`BillingInv`**. `ChargedWasUsed` is about one invoice: its quantity is within what its period has by now, and usage
  only grows. Sums over periods apart give the property. `LedgerIsPaired` numbers the entries and balances each;
  `Balanced` connects the status of an invoice to its payments.
- **`MemoryInv`**. `ChainedRecords` says what a record rests on when it was stored, and records do not change;
  `OutboxesTell` splits an outbox into what was drained, in order, and what was not.
- **`AuditInv`**. `EntriesAsWritten`: each entry is what `append` made of it, which is more than that the chain
  verifies. The property changes, drops or inserts an entry and compares; a hash that contains its predecessor
  carries the difference on to the end. `RolesAreEarned` says that a role that is not the one assigned last was
  taken by an owner or admin.
- **`PolicyInv`**. The registered versions are those of the history, and one of them is newer than all
  others: `NewerIsLater` shows the code's comparison to be a total order. What the properties say of spellings is
  about the operators.
- **`BucketInv`**. `LeftOver`: the grants since any one and what is in the bucket are within the capacity and the refill since.
  `Promised`: a waiting caller finds its tokens at the end of its pause, unless somebody was granted some.
- **`LimiterInv`**. The same bound for the bucket in Redis (`SharedRoom`) and for each fallback
  (`LocalRoom`), in the clock of whoever writes; a bucket that expired has given no more than the time since refills.
  `LastWriter` says whose clock Redis holds, so that a step back of the clock is what `Lead` adds.
- **`BusInv`**. `WalkKept`: while nobody leaves, the places walked over are those who were called, although
  handlers join. `LettersKept`: each dead letter stands in the place that says how many failures came after it.
- **`StoreInv`**. No two envelopes share a key, and every key that was heard is stored; the property then is about
  sums over the products.
- **`AnalyticsInv`**. It holds no more than the types and that an event was in time when it came. What the property
  says is about the reports: the credits of a whole chain add up under each model because places in an order are
  taken once (`PlacesAreTakenOnce`), and cohorts and dimensions are parts of the window.
- **`TelemetryInv`**. `SpansStack`: while spans end innermost first, the parent of an open one is the next below it.
  `RowsTell` follows both stores through a call that one of them refuses, and a sample that is not finite.
- **`AiInv`**. The spending is the sum of what was metered; `Backed` says of every cached output that its request was
  metered once and allowed for its version, and it stays true as the logs grow.
- **`ContentInv`**. `ScriptHolds` keeps of a script that its scenes follow each other and end with its seconds, from the
  arithmetic of the shares. Drafts and showcases need their own conjuncts only.
- **`ExperimentsInv`**. `ArmTells`: the statistics of an arm are the sums over the outcomes. That one arm is best is
  compared by cross-multiplication and needs that this is an order (`OneIsBest`); that rolls follow the
  weights needs that the cumulative weights step by each one's own (`CumulativeSteps`).
- **`AdviceInv`**. `Sound` is what no feedback undoes. Ranking, slots and predictions are about the
  operators, over any candidates.
- **`RuntimesInv`** is the conjunction, and `RuntimesTypes` what the parts' invariants leave of their types: that a
  call that waits has a retry left, that a recorded checksum is one of a release, the length of the queue.

Only model-checked:

- liveness: `JobsComeToRest`, `ScheduledSettles`, `WaitersAnswered` and the
  leads-to of `DeliversAtLeastOnce` (its safety part, `AtLeast!AtMostOnce`, is
  `EffectsAreRecorded`): temporal proofs under fairness are out of reach of the
  installed provers.

## 5. Plan

What is left are operations of partly modelled components (their notes in PROJECT.json): the one-time state of
the TikTok authorisation, the store of refreshed grants in `packages/security/src/oauth.js`,
publications from inside a handler, drift and shadow statistics. Each adds actions to a module that
has an inductive invariant, so each comes with a step for every new action in its proof.

## 6. Deviations: where the code and its documents differ

Shown by a run that TLC refutes (PROJECT.json, findings):

- **tokens sealed for another identity** (`tiktok_sealed`): the callback seals with
  `openId`, the token service opens with the row's id.
- **event lost without a crash** (`stream_lost`): a reclaimed entry is taken for a
  duplicate while its first handler still runs, is acknowledged, and the handler fails.
- **commission corrected twice from one row** (`commission_replay`): a replay is
  recognised only against the latest evidence.
- **webhook lost** (`webhook_lost`): the replay guard records an event before its
  effect; a refused or failed first delivery is answered as a duplicate later.

Stated in the modules but in no run, since the code does not keep them:

| Definition | What the code does |
|---|---|
| `WorkflowRuntime!ReplayFindsJob` | a key stays registered when the clone after it throws |
| `PublicationJobs!AttemptsWithinBudget` | requeueing by hand starts attempts beyond the budget |
| `PublishWorker!UnansweredStaysProcessing` | a lost answer after acceptance is reported as a failure and may be posted again |
| `PublishWorker!NoAccountIsPermanent` | a NULL retry time is due at once, not never |
| `TikTokTokens!AnswersAreTokens` | a waiter that finds the account disconnected under the lock answers with no token |
| `TikTokTokens!RefusalIsRecorded` | the mark `reauth_required` is rolled back with its transaction |
| `TikTokTokens!DisconnectRevokes` | the token revoked is the one read before a refresh replaced it |
| `OAuthLogin!TokensHaveIdentity` | a link that commits between the two DELETEs of a disconnection keeps its tokens and loses its identity, though the answer names both as deleted |
| `TikTokTokens!ExpiringSoonIsRefreshed` | between one and five minutes the lock's re-check declares the token fresh |

Seen in the modules of the runtimes in memory, which model what the code does:

- `packages/automation/src/index.js:96` keeps a switch's id as it is given, `:162` puts the action's platform in lower
  case and leaves its spaces, `:179` trims it for the allow-list: a provider switch on 'TikTok' stops nothing, and an
  action on ' tiktok' is allowed past a switch on 'tiktok'. `KillSwitchHolds` is about switches in lower case and
  actions without spaces (`Stops`);
- `packages/adapters/src/policy-registry.js:180` looks a capability up in lower case and trimmed, `:192` and `:193` classify it in
  the letters of the request, and `policy-aware-registry.js:87` and `:97` look overrides up in those letters:
  'Content.Publish' is declared, counts as no change, is allowed without an approval and passes an override of
  'content.publish'. `MutationsAreApproved` is about the spelling of the entries there, and about every spelling for
  the adapter that asks no policy. Spaces around a capability do the same, and are left out of the model;
- `packages/affiliate-core/src/commerce.js:239`: only claims about a price or a discount are compared with evidence; a claim
  of another type is allowed however old the offer is, and `:245` and `:248` compare no value when none is named.
  `scheduledFor` (`:226`, `:268`) is copied to the answer and compared with nothing, so that a promotion ends before the
  publication goes unnoticed. `AllowedClaimsHaveEvidence` says what is left;
- `packages/outreach/src/runtime.js:347`: `processQueue` believes the `now` it is given. A caller that lets it run ahead and
  then back counts the sends of an hour in a log that was cut for a later one, so the hourly cap can be exceeded;
  only tests pass it, and `SendsWithinCaps` is about a clock that does not go back;
- `packages/db/src/automation-repo.js:54`: the rows of `automation_kill_switches` are written and cleared, and nothing in the
  repository decides by them;
- `packages/identity-billing/src/runtime.js:487`: an invoice period includes both its ends, so
  usage at the time where two periods meet is in two invoices (`BilledAtMostMetered` is about
  periods apart); `:532`: a payment that is reported twice is recorded twice;
- `packages/events/src/index.js:70`: the bus walks the live list, so a handler that unsubscribes itself or an
  earlier one makes the walk pass over the next subscriber (`DeliveriesAreAccounted` excepts those events);
- `packages/affiliate-core/src/commerce.js:134`: an offer is taken out before its
  successor is known to be storable, and a refused update loses it;
- `packages/security/src/rate-limit-redis.js:35`: the time of the last refill is set to the caller's
  clock even when that is behind, so instances whose clocks differ refill the same time again (`Lead`);
- `packages/db/src/migrator.js:92`: `db/migrations/019_commerce_source_separation.sql` begins with a
  comment, so its own BEGIN and COMMIT are not taken off: it commits before its record is written, although
  `docs/developer/migrations.md:3` says 'inside one transaction per migration';
- `packages/db/src/shopee-th-repo.js:170`: completing a batch does not ask for its status, so
  a batch that failed may be completed afterwards;
- `packages/contracts/src/grants.js:118`: what is called an escalation takes a lower role only, and an
  admin who takes `analyst` gains `export`, which an admin does not have.

Hazards met while reading that no property covers, beside those in PROJECT.json:

- `packages/workflow/src/runtime.js:136`: a pending cancellation is ignored by `completeJob`,
  `failJob` and `reconcile` and survives a requeue, so a later run may be cancelled by it;
- `packages/db/src/tiktok-accounts-repo.js:303`: the failure mark is written in a
  transaction that is rolled back (`TikTokTokens!RefusalIsRecorded`);

- `packages/events/src/redis-streams.js:258`: an undecodable entry throws out of its
  batch without being counted, so every reclaim that starts with it stops there;
- `packages/db/src/affiliate-core-repo.js:76`: outbox rows are read by `created_at`,
  the BEGIN of their transaction, so two that queue for one row lock may be published in the other order;
- `packages/db/src/conversion-reconciliation-repo.js:193`: `observedAt` is stored and
  never compared, so a late report of an older status overwrites the newer one;
- `packages/workflow/src/runtime.js:193` and `:238`: approving a superseded approval
  resumes a job that waits for a newer one; `drainOutbox` removes events before
  their reader has handled them;
- `packages/workflow/src/tiktok-publish-worker.js:107`: `privacyLevel` is stored at
  the top of the payload and read under `content`;
- `packages/db/src/outbox-repo.js:47`: events whose publication always fails stay the
  oldest candidates and keep newer ones waiting;
- `packages/security/src/oauth.js:250`: two refreshes of one stored grant overwrite each
  other (only tests use this store).

## 7. Not modelled

Every component with its status is in PROJECT.json. Left out for good:

- input and output without a protocol: storage, HTTP routing, front ends, scripts, configuration,
  releases; calendar and trends, whose rows have no life cycle;
- pure formatting, signing, hashing and statistics: schema validation, adapters' mappings of requests,
  envelopes, log formatting, exports, drift and evaluation in floating point;
- the `domain.js` helpers of several packages, which only their own tests call;
- of the modelled parts: payload columns, wording and validation that refuses
  without a change of state; the 24-hour expiry of stream reservations;
  undecodable stream entries (publishers always write decodable ones); the order of
  commits against `created_at`, by which the outbox is read.
