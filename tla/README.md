# bye-bye-boss-api: a TLA+ verification project

Bye Bye Boss is an asynchronous FastAPI application (a modular monolith on one
database) that matches candidates with job offers. This directory holds TLA+
modules that model its core logic, TLC configurations that check them on small
instances, and TLAPS proofs. Every definition is translated from the code under
`src/app`; `PROJECT.json` ("map") gives the lines.

## 1. The system

### Parts and state

| Part | State it keeps | Operations |
|---|---|---|
| matching pipeline (`modules/matching/service.py`, `batch_service.py`, `jobs.py`) | `candidate_matches` (one row per candidate and offer: status, `batch_id`, attempts), `matching_batches`, the cached embedding of a profile | 08:00 sync, run after a sign-up, submission every 15 minutes, poll every 10 minutes, purge on deletion |
| cv (`modules/cv`) | `candidate_profiles`: text, status draft/complete, `onboarding_matched_at` | import, verification, preferences, deletion |
| notifications (`modules/notifications`) | channel preferences, ledger of the offers already sent | brief on `MatchesScored`, cut-off job at 11:00 Paris, test brief |
| mailer (`modules/mailer`) | `email_messages` (pending, sent, failed; attempts) | enqueue inside the caller's transaction, flush every minute |
| auth (`modules/auth`) | `users` | sign-up, sign-in, Google sign-in, reset, verification, deletion |
| event bus (`core/events.py`) | subscriptions | emit to every listener concurrently, log or raise failures |
| offers (`modules/offers`, `core/*`) | `job_offers`: text, contract, salary, place, embedding | hourly keyword sync and full sync, filter by preferences, retention purge |
| market (`modules/market`) | market tags of offers and profiles, weekly counts, digests sent, opt-outs | classification, daily recount, Monday job, manual send |
| monitoring (`modules/monitoring`) | incidents, page views, announcements tested, opt-outs | report, status, announcements, admin screens |
| leads (`modules/leads`) | waitlist and invitations | capture, `import-leads` |
| cv variants, skill labels, regret index (`modules/matching`) | `cv_optimizations`, glossary, company profiles and reviews | generate and confirm, catch-up job, monthly refresh |
| core | rate-limit counters, the graph of modules | hit, validation at start |

All parts share one database and talk in three ways: direct calls through a
module's gateway inside the caller's transaction (mailer, auth), events of the
in-process bus (`UserRegistered`, `ProfileOnboardingCompleted`, `MatchesScored`,
`UserDeletionRequested`, `CandidateProfileDeleting`, `IncidentReported`), and
shared tables (the brief reads the matches).

### What is hard

* Scheduled jobs, background tasks and requests interleave at every `await`.
  A session reads its rows, awaits OpenAI, and writes back what it decided from
  what it had read; the only guards are unique keys and the rule that an UPDATE
  of a row that is gone raises.
* SQLAlchemy writes only the columns whose value differs from the loaded one:
  two transactions on one row merge column by column.
* A server restart loses open transactions, background tasks and events, but
  not what OpenAI or a mail server has already accepted.
* Requests of one person overlap too: two tabs, a form sent twice, a page
  refreshed while the model answers. Admin and scheduled sends read the same ledger.
* Several rules are written twice (the filter in SQL and in Python) or
  counted twice (the admin screens, the weekly digest), and must agree.
* One counter of attempts is shared by the two stages of the pipeline; batches
  come back in any order; a row may be queued again by a new CV.

`PROJECT.json` lists the hazards, each at its line, with the properties that
would notice it going wrong, and every component with what is left out of it.

## 2. The modules

| Module | What it is |
|---|---|
| `MatchingPipeline` | the matching pipeline: runs, submitters, OpenAI, poller, CV import, deletion, restarts |
| `MCMatchingPipeline` | its instances for TLC (symmetry) |
| `MatchingPipelineProofs` | type correctness, the lemmas on the operators of the pipeline; the brief never comes before the first-matches email; who owns a row: no row points at a batch the database does not list, no result brings a purged row back, no row is left without attempts, no pair costs more requests than it may |
| `MailDelivery` | what the outbox promises to the code that writes mails (abstract) |
| `MailOutbox`, `MCMailOutbox` | the mail table and its worker; shown to implement `MailDelivery` |
| `MailOutboxProofs` | the refinement and the bounds on attempts |
| `DailyBrief`, `MCDailyBrief` | the brief: two passes, ledger, channels, calendar |
| `DailyBriefProofs` | type correctness; an offer is in one email at most; one brief a day and one post per offer, a quiet first day and nobody held back, but for candidates the passes race for |
| `AccountPromise` | what the deletion of an account promises (abstract) |
| `AccountDeletion`, `MCAccountDeletion` | the deletion over the event bus; shown to implement `AccountPromise` |
| `Accounts` | sign-up, sign-in, links, Google, invitations of leads |
| `CvProfile` | import of a CV and onboarding wizard |
| `AccountProofs` | invitations of leads, the file of a profile, the refinement of `AccountPromise`, the admin screens |
| `CvOptimisation`, `MCCvOptimisation` | the variant of a CV for an offer |
| `Opportunities` | dashboard of the day and status of applications |
| `Incidents`, `Announcements` | incident groups; mails to an audience |
| `AdminStatistics` | the admin screens over the tables they read |
| `RateLimit`, `ModuleGraph` | the limiter with its two stores; the check of the modules at start |
| `People`, `MCPeople` | these components side by side; their instances for TLC |
| `PeopleProofs` | incidents, announcements, the dashboard, the variants of a CV, the limiter, the graph; `People` has the properties of its components |
| `OfferIngestion` | the two imports, the purge, a run's selection |
| `OfferCrawl` | the full crawl of France Travail |
| `OfferReading`, `OfferPreferences` | what the providers make of an advert; the filter in SQL and in Python |
| `Seniority` | exclusions and the penalty of the Career Score |
| `MarketCollection`, `MarketDigest`, `DigestContent` | tags and weekly counts; who gets a digest; what it says |
| `RegretIndex`, `SkillLabels` | employer scores; the French glossary |
| `Offers`, `MCOffers` | these components side by side; their instances for TLC |
| `OffersProofs` | the crawl, the import, the filter, seniority, employer scores, the glossary; `Offers` has the properties of its components |
| `MarketProofs` | weekly counts; who gets a digest; what it says |
| `CountingProofs` | lemmas on least and largest numbers, sums over finite sets, places in a ranking, quotients |

The modules that `People` and `Offers` put together are small machines that share
no table in what they model. One run each explores them: a variable
`part`, chosen at the start, says which component moves, the others stay in one
initial state. The states are the sum of the components', not their product;
nothing is claimed about their interaction. What does interact is modelled
in one module (leads with accounts, the purge with the imports, the digest with
the collection it extends).

### MatchingPipeline

A *pair* is a candidate's profile and an offer; `rows` holds its row of
`candidate_matches`, or `NoRow`.

| Code | Actions |
|---|---|
| `CvService.import_cv`, `apply_preferences` | `ImportCv`, `CompleteOnboarding` |
| `jobs.sync_matches`, `MatchingService.run_for_all_profiles` | `SyncStart`, then `RunRead`, `RunDecide` per profile |
| `jobs.run_matching_for_new_profile` | `OnboardStart`, `RunRead`, `RunDecide`, `OnboardNotify` |
| `MatchingBatchService.submit_pending` | `SubmitRead`, `SubmitSend` / `SubmitRefused` per chunk, `SubmitCommit` or `SubmitAbort` |
| `MatchingBatchService.poll` | `PollRead`, `PollPrefilter` / `PollAnalysis` or `PollAbort`, `PollFinish` |
| OpenAI (external) | `RemoteEnd`, `RemoteForget` |
| deletion listeners of matching and cv | `PurgeMatches`, `DeleteProfile` |
| a restart of the server | `Crash` |

Choices a reader should know:

* A transaction of a job is a read step and a commit step, with the network
  calls as steps between them where the outcome matters. `Update` is the
  ORM's partial UPDATE: it writes the columns that differ from what was
  loaded. `dead` remembers which of the loaded rows were deleted since, because
  an UPDATE of those raises and undoes the transaction.
* Row locks are not modelled: a transaction's writes take effect at its commit.
  A run and a poll that flush one row at the same time are ordered by the lock
  in the database and by their commits here, with the same result.
* Which offers are recent, fit the preferences, are excluded by seniority, how
  close they are, and how they score are nondeterministic (`excluded`, `fresh`,
  `queued`, `good`, `keep`). An excluded row the candidate acted on is not
  hidden: `hidden` is any subset for that reason.
* There is one poller and one sync at a time (APScheduler's `max_instances` is
  1), and one sign-up task at a time (an abstraction: two of them concern two
  profiles). A CV import is one step. An offer under a match never
  disappears (the retention purge keeps it), and a complete profile has a CV text.
* A run, a submission and a poll read their rows in one step and commit in
  another, and anything may happen in between. Two history variables record what
  that does: `stale` the pairs written by a transaction that had loaded another
  version of the row (the columns of two writers mix), `extra` the pairs that had a
  request sent beside another one, or lost with the transaction that sent it.
* The first-matches email is best effort, as in the code (`batch_service.py:427-444`):
  `SendFirstMatches` may fail for any of the candidates, and the results stay. `lost`
  remembers for whom.

### MailOutbox and MailDelivery

A mail is its rank in `created_at`. `Enqueue` is the caller's commit;
`List`, `SendOk` / `SendFails` and `Commit` are `MailerService.process_pending`,
whose batch is one transaction committed at its end; `LoseFlush` is a restart or
a failing commit. `SendFails` may have delivered the mail: the answer of the
provider can be lost. Without credentials the mail is logged and counts as
handled (`Configured`). One worker runs at a time, by the scheduler.

`MailDelivery` has two variables, the fate of each mail and what arrived, and
three actions. `MailOutbox` implements it with `fate` the committed status:
a call of the transport maps to `Arrive` or to a stutter, the commit to
`Settle`, a lost batch to a stutter.

### DailyBrief

| Code | Actions |
|---|---|
| shortlisting, pre-filter drops, analysis results, `MatchesScored` | `Shortlist`, `Drop`, `ScoreWave` |
| the clock, `jobs.send_cutoff_briefs` | `CutoffHour`, `Midnight` |
| `_should_wait` | `Consider` |
| `_send_for_profile` up to `_dispatch` | `Pick` |
| `_dispatch` | `Dispatch` |
| ledger entries and commit | `Record` |
| end of `send_briefs_for_profiles` / `send_due_briefs` | `PassEnds` |
| `NotificationPreferenceService.update`, address confirmed | `SetChannels`, `Confirm` |

* Dates are ages: today, yesterday, earlier. `Midnight` makes everything a day
  older, so the model runs for any number of days with finitely many states.
  A pass keeps the `now` it started with (`age`, `past`); it may cross one midnight.
* The check of a candidate and the choice of offers are separate reads of the
  database and separate steps; the reads of the preference, of the account and
  of the ledger that follow each other are one (`Pick`).
* The poller awaits its listener, so a wave of results starts no second
  listener pass while the first runs.
* Discord and WhatsApp behave alike here: they deliver at once or refuse, and a
  refusal is only logged and reported. The offers count as sent all the same,
  on purpose (`notifications/models.py:54-56`).
* Offers already analysed are not hidden again by a later run (an
  abstraction), and the profile stays complete.
* A pass holds a candidate from its check to its commit. A history variable, `raced`,
  collects those for whom something fell in that window: the other pass held
  them too, their very first results were stored, midnight passed, or a restart came
  after their messages had left. Nothing in the code prevents it; the properties
  that need it say so by leaving `raced` out.

### The account and its data

* `AccountDeletion`: `AskDeletion` is the request, `PurgeRows`, `FindProfile`,
  `PurgeMatches`, `DeleteProfile`, `DeleteFiles` the listeners of
  `UserDeletionRequested` and of the cv module's own event, each committing by
  itself; `AllFinished` is `emit(raise_on_error=True)`, `DeleteRow` the row and
  the farewell mail. Any step may fail (`PurgeFails` and the restarts), the
  request may be sent again and sent twice. `AccountPromise`, with the account's
  presence and the data some listener answers for, allows the account to go
  only when that data is gone.
* `Accounts`: a request is a read of the row and a commit of the columns it
  changed. `GoogleClaims`, `GoogleLinks` and `GoogleCreates` are the three
  outcomes of a Google sign-in. `MaxAccounts` rows are ever inserted, so that a
  deleted and recreated account has another id. An import of leads is killed
  (`ImportKilled`) between any two commits.
* `CvProfile`: `ImportReads`, `ImportSaves` and the commit are the three moments
  of `import_cv`: the row is flushed (and held), the file replaced on disk, the
  transaction committed or lost. Each import has a rank, which stands for its text
  and its file, so that "the file of the profile" means that of the import whose
  text the row holds. The row also names a kind of file; as it is read
  before it is written, an import may leave the name another one stored. The
  steps of the wizard are partial updates of what each request read.
* `Opportunities`: a request (of any tab) reads, then writes. Days are those of
  Paris; a request lasts less than a day. `raced` collects the offers that two requests
  found never shown, one on each side of midnight. The analysis of a match and the
  withdrawal of an offer come from outside.
* `CvOptimisation`: `Generate` reads the CV and the row, `Store` reconciles an answer
  with that CV and writes, while the CV may be replaced. An answer is a list of
  rewritten lines, each with or without the line it quotes; it may leave jobs out,
  invent some and repeat skills. A line is covered by a bullet that is similar enough
  (0.8 in the code): which lines resemble which texts is the relation `Resembles`, a
  constant, and two lines of one job may resemble each other. `madeFrom` remembers
  of which CV the skills and the jobs of the row were made.

### Monitoring and core

* `Incidents`: a session reads a group, then writes the columns that differ
  (`Flushed`); reports, status changes and the purge of an account interleave.
* `Announcements`: the audience is read in two queries (`ReadOptOuts`,
  `ReadAudience`) and mailed in a third step, while members register,
  leave and are deleted.
* `AdminStatistics`: the actions are what the other modules do to the tables,
  cut down to the columns the queries name; each screen is an operator
  translated from its own query, time counted in ticks. An operator may disable an
  account (`is_active`), whose rows stay: some screens leave it out and others count
  it. A page view reads its account, then commits, and the account may go in between.
* `RateLimit`: Redis's INCR and EXPIRE are two steps, a process may die in
  between; the memory store is one step. `ModuleGraph`: one step per dependency
  looked at, from every graph of three modules that may also name an unknown one.

### Offers

* `OfferIngestion`: an import looks the offers up, embeds and writes in three
  steps while the source edits its texts, and the two imports overlap freely.
  `crossed` remembers the offers that one committed while the other had read them and
  not written them yet. The purge is one SQL statement that
  spares matched offers; a run selects offers and stores its pairs later.
* `OfferCrawl`: `slices` is the stack of windows and pages still to ask for.
  Seconds are the grain; adverts are those of a source that may withdraw some. An
  answer may come without a total (`TotalMissing`): the code takes the slice for an
  empty one, and the history variable `untold` keeps it.
* `OfferReading` / `OfferPreferences`: an advert is what the patterns find in
  it; a postal code is its digits and what it begins with, as the code strips the rest.
  `Refreshed` is a re-import of the advert, `Backfilled` the command
  `backfill-contract-type`. A preference is compared criterion by criterion,
  because both forms of the filter are conjunctions.
* `Seniority`: years are months; a state is a candidate before an offer, and
  a step is a month more.
* `MarketCollection`: one family and one specialty, days numbered from a
  Monday. A failed or late recount leaves a week as it was; the purge removes the
  offers under a recount in progress. `MarketDigest` adds the hourly runs of the
  Monday, which a failure ends (`WeeklyFails`), and the admin's send.
* `DigestContent`: an action adds a week, the skills of its offers cleaned as
  `clean_skills` does; `Top`, `Evolution`, `Actions` and `Forecasts` are the digest.
* `RegretIndex`: one employer at a time, ratings, reviews, Indeed's pages, then
  the save. The job is registered by nobody (`matching/__init__.py:27-35`); the
  code is modelled as it would run.
* `SkillLabels`: a pass reads the newest analyses, asks for the missing names by
  chunks (answered, partly answered or refused), stores each in a savepoint, and
  flags.

## 3. What TLC checks

Every bound is a constant of its module, named there. `MaxAttempts = 2` is the
smallest number that has a first failure and a last one; `PoolSize` and
`MaxRequests` are as large as the instance; the embedding has as many versions
as `MaxImports` allows CVs.

| Run | Instance | What it shows |
|---|---|---|
| `matching_deletion` | 1 pair, both kinds of run, submitter and poller, the account deleted at any time | `TypeOK`; `NoRowStranded`; `PollOnlyUpdates`: no result brings a purged row back |
| `matching_retries` | 2 offers of one candidate, one of which may be excluded by a later run | `BriefComesAfterFirstMail`: nobody is cued for the brief before their first email was written or lost |
| `matching_live` | 1 pair, 1 new CV, 1 restart, fairness | `NoRowExhausted` and `BoundedRequests` but for `stale` and `extra` pairs; `EveryPairSettles`: a pair leaves the pipeline, or two overlapping writers left it without attempts |
| `mail_queue` | 3 mails, batches of 2, 1 lost batch, fairness | `CallsBounded`, `GivesUpLate`, `Promise` (the refinement), `EveryMailSettles` |
| `brief_passes` | 2 candidates with 2 offers and 1, email only, one of them changes channels, 1 restart, fairness | `TypeOK`, `MailedOnce`, `EveryMatchLeaves`; `QuietFirstDay` and `NobodyHeldBack` but for `raced` |
| `brief_direct` | 1 candidate with Discord and email, 3 offers, briefs of one offer, 1 restart | `PostedOnce`, `OneBriefUnlessRaced` |
| `people` | the ten components of `People`, side by side | see below |
| `offers` | the eight components of `Offers`, side by side | see below |
| `matching_stale_embedding`, `brief_twice_a_day`, `account_outlived`, `cv_paid_again` | the smallest instance with the actors | a counterexample each: section 5 |

| In `people` | Instance | What it shows |
|---|---|---|
| incidents | 1 group, 2 sessions, 4 reports, lists of 2 | `GroupsAreCredible`: the stamps are as many as the count says, up to the bound; the count and the list of accounts never exceed what was reported and what is kept |
| announcements | 2 members, 1 admin | `SentAsAsked`: a message leaves after a test of that very content, and to nobody who had left the list when it was asked for |
| deletion | 2 requests, 2 faults | `RowGoesLast`: the refinement of `AccountPromise` |
| accounts | 1 address, 2 imports, 1 killed | `InvitedOnceEach`: one invitation a lead at most, and nobody imported is forgotten unless an import was killed |
| profile | 2 requests, 2 uploads of 2 kinds, 2 ways to fill the availability form, 1 commit lost | `FileIsTheProfile`: between imports, what is on disk is the CV the profile was made of and nothing else, unless a commit was lost |
| variants | 2 CVs that replace each other, with lines that look alike, 2 answers, 2 requests, 3 calls | `NothingLost`: the variant has each skill and each job of the CV it was made from, and for each line of a list a bullet similar to it |
| opportunities | 2 offers, 2 tabs, 3 days, dashboard of 1 | `ShownOneDay`: an offer is on the dashboard of one day, of two if midnight fell between two requests |
| rates | budget of 2, 2 callers, 1 process killed | `LimitsAndForgets`: never more than the budget in a window, and an answer leaves an expiry behind |
| graph | every graph of 3 modules | `StartsIffAcyclic` |
| screens | 2 accounts that may be disabled, 2 offers, lists of 1, 3 events | `ScreensTellOneStory` (`ScreensAgree`, looked at while the tables move): figures that must agree do, up to the disabled accounts some of them add |

| In `offers` | Instance | What it shows |
|---|---|---|
| market | 1 offer, 1 reader, weeks of 2 days, kept 3 days, 1 failure | `RecountsAreWhole`: a recount never misses purged offers of the week it writes; `AutoOncePerWeek`; `NobodyForgotten`: who was due a digest has it when Monday ends, if one run goes through |
| preferences | 3 regions, 2 contracts, 3 printed figures, both providers | `FiltersAgree`: SQL and Python keep the same offers, and an offer with the tag asked for is kept |
| seniority | 10 years, month by month | `FairPenalty`: nothing inside the window, and monotone and capped outside |
| crawl | 3 adverts, 1 département, 2 refusals or missing totals, 1 withdrawal | `MissesAreKnown`: an advert that was not fetched lies in a slice that was set down, is over the cap or came without a total (or abroad, when the crawl goes by département) |
| ingestion | 1 offer, 1 edit, both imports at once | `VectorOfText` but for `crossed` offers |
| regret | 2 employers, 2 months | `FailureKeepsScore` |
| labels | 3 names, 2 analyses, 2 passes | `FlaggedIsLabelled` |
| digest | 5 names of 3 skills, 3 weeks of 3 offers | `DigestAgrees`: shares up to 100 %, one skill once, list, curves, plan and forecasts tell the same figures |

One candidate and one offer are enough where a property speaks of one row and
its actors: rows interact only through the ranking of one candidate's offers
(`matching_retries` has two offers), through sharing a batch and through the
cut of a stage into batches, which `NothingStranded` covers for every number
of candidates and size of batch (section 4); no run is kept for it. Two batch ids are enough
for a row to be in a new batch while a lost or orphaned one is still known to OpenAI. In the
mail queue two mails fill a batch and the third waits behind them. `briefs`,
`mailed` and `posted` are counted up to 2, one more than any property
allows. In `people` and `offers` two requests, passes or imports are what a race
takes; lists are cut at two, weeks last two days and the budget is two so that
each limit is reached, and the lists of the admin screens at one, so that they leave
something out. Not reached: the eight weeks a digest could use (it keeps four).

Deadlock is not checked where the system may rest: when every account is deleted
(`matching_deletion`, `account_outlived`), when every mail is settled, and where
a bounded component has used its bounds (`people`, `offers`, `cv_paid_again`).

Symmetry is used only in runs without a liveness property.

### Fairness

* Matching: the jobs are scheduled for ever (every 10 and 15 minutes, every
  day) and OpenAI ends what it accepted. Each job is strongly fair, because
  other steps may disable it and it is tried again at the next tick.
  `SendsFor` says that OpenAI does not refuse one candidate's rows for ever.
  Nothing is assumed of the results, of the candidates or of restarts.
* Mail: the job runs every minute and both transports have timeouts; weak
  fairness of listing, of the transport's answer and of the commit. A message that would
  kill the process at each attempt is excluded: `MaxLost` bounds the lost batches.
* `people` and `offers` assume no fairness: they check no liveness property.
  `NobodyForgotten` is a step property: the Monday cannot end before.
* Brief: the clock goes on, the 11:00 job fires, and a pass that was started
  makes its next step. Nothing is assumed of the waves of results.

Each property of a passing run has a mutant of the code (a dropped guard, a
counter not incremented, a column not reset), defined next to what it replaces
and marked as a variant, under which the same run finds it violated.

## 4. What is proved

TLAPS checks the theorems below for every value of the constants. The constants
meet the assumptions named in the modules that declare them (`PipelineConstants`,
`OutboxConstants`, `BriefConstants`, `DeletionConstants`, `AccountConstants`,
`WizardConstants`, `CvConstants`, `IncidentConstants`, `AudienceAssumption`,
`OppAssumption`, `RateAssumption`, `CrawlConstants`, `IngestionConstants`,
`ReadingConstants`, `PreferenceConstants`, `SeniorityConstants`,
`RegretAssumption`, `LabelConstants`, `CollectionConstants`, `DigestConstants`,
`ContentConstants`, `ScreenConstants`): bounds are natural numbers, limits and windows are
positive, sets that are counted or gone through (skills, requests of a deletion) are finite,
lists are lists. TLC evaluates each of them in the runs. What a theorem needs
besides stands in its hypotheses, given here in the second column.

| Theorem | Of | Holds when | Argument |
|---|---|---|---|
| `TypeCorrect` | `TypeOK` (matching) | | one lemma per action |
| `NothingStranded` | `NoRowStranded` | | invariant `Ownership` |
| `BriefAfterMail` | `BriefComesAfterFirstMail` | | `MailedFirst` |
| `ResultsOnlyUpdate` | `PollOnlyUpdates` | | `PollerHolds` |
| `RetriesLeft` | `NoRowExhausted` (`stale` pairs excepted) | | `RetryInv` |
| `RequestsBounded` | `BoundedRequests` (`stale` and `extra` pairs excepted) | | `BoundInv` |
| `KeepsThePromise` | `Promise`: `MailOutbox` implements `MailDelivery` | | `Accounts`, step by step |
| `CallsAreBounded`, `GivenUpLate` | `CallsBounded`, `GivesUpLate` | | `Accounts` |
| `BriefTypeCorrect` | `TypeOK` (brief) | | one lemma per action |
| `NeverMailedTwice` | `MailedOnce` | | `Listed` |
| `FirstDayIsQuiet` | `QuietFirstDay` (`raced` excepted) | | `HandInv` |
| `BriefOnceADay`, `NeverPostedTwice` | `OneBriefUnlessRaced`, `PostedOnce` (`raced` excepted) | | `HandInv`, `OnceInv` |
| `NobodyIsHeldBack` | `NobodyHeldBack` (`raced` excepted) | | `HandInv`, `OnceInv`, `DueInv` |
| `DeletionKeepsPromise` | `RowGoesLast`: `AccountDeletion` implements `AccountPromise` | | `DInv`, step by step |
| `LeadsInvitedOnce` | `InvitedOnceEach` | | `AccInv` |
| `FilesFollowTheProfile` | `FileIsTheProfile` | | `WizInv` |
| `CredibleGroups` | `GroupsAreCredible` | | `IncInv` |
| `AnnouncedAsAsked` | `SentAsAsked` | | `AnnInv` |
| `DashboardOfOneDay` | `ShownOneDay` | | `OInv` |
| `VariantsLoseNothing` | `NothingLost` | | `CvInv` and lemmas on sequences |
| `BudgetHolds` | `LimitsAndForgets` | | `RateInv` |
| `StartsOnAcyclicGraphs` | `StartsIffAcyclic` | | `GInv` |
| `CrawlForgetsNothing` | `MissesAreKnown` (`untold` slices and offers abroad excepted) | | `CrawlInv` |
| `VectorsFollowTheText` | `VectorOfText` (`crossed` excepted) | | `IngestionInv` |
| `FiltersGiveOneAnswer` | `FiltersAgree` | | `FilterInv` and case analysis |
| `PenaltiesAreFair` | `FairPenalty` | | types and arithmetic |
| `FailuresTakeNothing` | `FailureKeepsScore` | | `RegretInv` |
| `FlaggedForGood` | `FlaggedIsLabelled` | | `LInv` |
| `CountsAreWhole` | `RecountsAreWhole` | a retention of a day or more | `CollectionInv` |
| `DigestOnceAWeek` | `AutoOncePerWeek` | | `MarketInv` |
| `MondaysServeAll` | `NobodyForgotten` | more runs on a Monday than failures | `OwedInv` |
| `DigestTellsOneStory` | `DigestAgrees` | | `ContentInv`, lemmas on sums and quotients |
| `ScreensTell`, `ScreensTellTheSame` | `ScreensAgree`, `ScreensTellOneStory` | | `ScreenInv`, lemmas on sums and cardinals |
| `PeopleCompose`, `OffersCompose` | a behaviour of `People` / `Offers` is one of each of its components | | step by step |
| `PeopleAreTyped`, `OffersAreTyped` | `PeopleTypeOK`, `OffersTypeOK` | | the type invariant of each component |
| `PeopleKeepTheirPromises`, `OffersKeepTheirPromises` | the properties of the runs `people` / `offers` that have no hypothesis | | the theorem of each, and the composition |

So every property of a passing run but the three of liveness is a theorem. The
two composition theorems carry what is proved of a component to the specification that
the runs `people` and `offers` explore; those with a hypothesis
(`RecountsAreWhole`, `NobodyForgotten`) carry over under it in the same way.

Two hypotheses remain, on constants: a recount needs a retention of a day or more, and a
Monday with more runs than failures. No theorem assumes that sessions run alone.
Where overlapping sessions break a promise, a history variable names the orders in which
they do (`stale`, `extra`, `lost`, `raced`, `crossed`, `untold`), and the theorem
says that nothing else does; section 5 has the counterexample of each one dropped.
These variables are only written, never read by a guard.

Why the properties are not inductive, and what the invariants add:

* Matching. A commit of a submitter is safe only because the batches it
  sent are still its own and cover its rows (`SubmitterOwns`), and the end of a poll
  only because the poller has loaded every row of the batch it closes
  (`PollerOwns`); an absent row has no batch (`AbsentUnbatched`). A candidate is
  cued only when an older row is scored, and the first rows scored were mailed about
  or the writing of that email failed (`ScoredWasMailed`). For the pairs no transaction wrote after
  another had changed them, `RetryInv` says that a row in the pipeline or in a batch
  has an attempt left, and is at the stage of its batch; `BoundInv` adds that each request paid
  for a pair is an attempt, but for the one under way and the one that promoted
  the row to its analysis, as long as no request went out beside another.
* Mail. `Accounts` relates the worker's session to the table: it holds
  pending rows only, one attempt further than the committed ones, and each call is
  counted by a committed row, by the session or by a lost batch. That is why the
  bound on calls is the attempts plus the lost batches.
* Brief. `Listed` adds that a match without a ledger entry was in no email: the
  entry and the email are one commit, and the unique key refuses a second entry.
  `HandInv` says that one pass at most holds a candidate for whom nothing raced, that
  what it checked is still so, and that the offers it holds are in no brief;
  `OnceInv` that a brief that left today, or an offer that was posted, is in the ledger or in the
  hands of the pass that sent it; `DueInv` that whoever the cut-off hour found with
  something to receive is still to be considered, being served, or served.
* Deletion. A request past `AllFinished` has no listener that failed, and
  what a finished listener purged is still gone: nobody uses the application while
  a deletion runs, and the cv listener removes the matches before the profile a
  later request would look for.
* Accounts. An invitation about to be sent is for an account nobody has used
  and nobody has invited, two imports never hold the same one, and an unused
  account an import opened is either invited or in the hands of an import.
* Profile. Who saved a file holds the row until the commit, so that nobody else
  can replace it in between; overlapping imports have different versions.
* Incidents. A session that reports read fewer occurrences than were reported,
  whatever others wrote since. Announcements: at each step, what the request
  has read covers whoever had left when it was asked for, but for deleted accounts.
* Dashboard. A match has been shown on its stamped day only, unless raced; a request
  about to show it found it stamped that day, or never stamped, and two
  that found it never stamped are of the same day, or raced. The two days of a
  raced match are a day and the next.
* Variants. Each column of a stored row keeps the CV it was made from (`KeepsCv`), and what `ReconcileOne` and
  `ReconcileSkills` return keeps it, for sequences of any length. The elements
  at some positions of a sequence are taken by rank (`ElementsAt`); that each
  is there is an argument on cardinals and on the least position, without induction.
* Limiter. Each hit let through, or about to be, took one of the first `Times`
  values of the count of the living key; the count is at most the hits answered,
  under way or killed. Graph: the gray modules are the path, each depends on
  the next, and the finished ones depend on finished ones only, so that they
  have no cycle (`Circular` and acyclicity speak of sets of modules, not of paths).
* Crawl. Each offer is fetched, still in a window of the stack, or accounted for by
  a window that was set down, was over the cap, told no total, or cannot list it; splitting a
  window keeps its offers in one of the halves.
* Imports. What an import read of an offer is still what the table holds, unless crossed, and a
  vector in the table is that of the text beside it. Filter: a label is one a
  provider or the guess can give; SQL and Python are compared on those. Employers:
  the job is the only writer, so that what it read is still stored. Labels: nothing
  leaves the glossary, and a savepoint that fails means that another pass stored the name.
* Market. An offer too young to be purged is stored with its tags, and a week
  that is recounted is young. An automatic digest is in the ledger, and a run about to send one
  found it absent. Who is owed a digest, while failures are fewer than the runs
  left, is in the ledger, before the run, or served by a later one.

* Screens. `ScreenInv` says what the tables know of each other: a profile has an
  account, a pair and a tailored CV have a profile, a page view has an account or one
  deleted while it was under way, nothing in the tables the tiles
  compare is dated later than now, and a pair under analysis passed the pre-filter. Without
  it two counts through two joins may differ. The clauses that compare a chart with
  a total are about sums.
* Digest. Every week that is kept counts a skill at most once per offer, because
  `CleanSkills` keeps one place per key; then shares are shares, rounding keeps
  their order (`PctKeepsOrder`), and the first of a ranking are ahead of what is left out.
* Types. For most components the invariant above includes the types. Four have one
  of their own: `FarewellInv` (one farewell per request at most, so that their number stays
  within the requests), `OppTypes` (the columns of a match and the days it was shown), `PoolTypes` (what
  an import holds), `LabelsHeld` (what a pass is to flag was analysed).

Sums over finite sets (`CountingProofs`). `SumFunctionOnSet` is a fold, of which
nothing can be proved by an induction on a predicate. `SumsExist` shows instead
that a function on the subsets of a finite set exists which adds elements one by
one: a smallest subset without such a function would be one element more than
a subset with it (`OneByOne`, from the well-foundedness of the numbers).
`SumIsTheOne` shows that the fold is that function. `SumsAdd`, `SumsGrow`,
`SumsSplit`, `SumsOfGroups` and `SumsOfOnes` (a cardinal is a sum of ones) follow.

TLC checked the invariants before they were proved, on the instances of section 3 or smaller
(`HandInv`, `OnceInv` and `DueInv` in 16.2 million states, `AccInv` in 2 627 555,
`CrawlInv` in 33 064, `FileIsTheProfile` also with three uploads in 2 433 524).

Only model-checked:

* liveness (`EveryPairSettles`, `EveryMailSettles`, `EveryMatchLeaves`): fairness
  and ENABLED are outside what TLAPS proves;
* what a recursive definition computes for every input: there is none in the
  modules with theorems;
* what the theorems except, that is what happens to `raced`, `stale`, `extra` or
  `crossed` rows: section 5 has the counterexamples;
* the four properties of the runs that expect a violation, which the code does not have.

## 5. Where the code and its comments disagree

With a run each (`PROJECT.json`, "findings"):

* `matching_stale_embedding`: a CV imported while a run asks for the embedding
  of the previous text keeps the previous embedding (`matching/service.py:163-167`).
* `brief_twice_a_day`: a pass allowed before the other one commits sends what
  the other one left, as a second brief.
* `account_outlived`: rows of the market module about a person outlive the
  account (`auth/service.py:293-298`, `:312`): no listener purges them.
* `cv_paid_again`: a CV with a skill written with an underscore is adapted again
  at each request, and its variant is never served by GET, until it is confirmed
  (`cv_optimization_service.py:160-166`, `:209`).

Stated as properties and found violated by TLC, without a run kept for them:

* `NeverEvaluatedTwice` (matching): two submissions at once list the same rows
  and both send them (`batch_service.py:96-167`, against its own lines 13-16).
* `DeletionComplete` (matching): a run that read a candidate before the purge
  inserts rows that outlive the account (`matching/service.py:335`).
* `VectorOfText` without its exception for `crossed` offers: an import stores the
  embedding of the text it read over the text the other one wrote meanwhile, although
  `offers/jobs.py:35` calls overlapping runs harmless. One row per offer still holds.
* `NoRowExhausted` without its exception for `stale` pairs: a run that loaded a row with
  no attempts used queues it again without writing `attempts = 0` (the ORM sees no
  change); if a poll gave the row up in between, it waits with its attempts used
  up and `list_unbatched` never lists it (`service.py:318`). `EveryPairSettles`
  counts such a row as settled, and `NoRowExhausted` says that there is no other.
* `BoundedRequests` without its exception for `extra` pairs: two submissions, or one
  that a restart cut after the sending, pay for the same stage twice.
* `QuietFirstDay` without its exception for `raced`: first results stored between the check of
  a pass and its choice leave as a brief on the day of the first-opportunities email.
* "No task of the real CV may vanish" (`cv_optimization_service.py:132`): of two lines of
  one job that look alike (a ratio of 0.8, `:81-91`), the bullet of one covers the other,
  whose own words are then nowhere. `NothingLost` asks for a similar bullet only.
* `AutoNeverRepeats`: an admin's send committed after the Monday run read the
  ledger is mailed again by that run: `record_send` finds the record and adds
  none, so the unique key refuses nothing (`market/weekly.py:95`, `:63-78`,
  against `market/models.py:104-106`, "nobody gets the same week twice").
* `FailureKeepsEverySource`: a failed Indeed page yields the pages read so far,
  or an empty list, and replaces that source's reviews, although
  `regret_service.py:151-152` says a failed fetch leaves them; dormant job.
* `KeptIsStored`: a refresh in place, started before, replaces a variant the
  candidate confirmed meanwhile (`cv_optimization_service.py:227`).
* `ShownOneDay` without its exception for `raced`: two dashboards read on each side of
  midnight stamp one offer on two days (`matching_routes.py:174`, `:270-273`).
* `ConfirmedKeepsPassword` (two requests): a Google sign-in that read the account unconfirmed
  drops the password of an account confirmed meanwhile (`auth/service.py:193`).
* `OneAccountPerAddress` (two spellings): addresses are unique as spelled; two spellings of one
  address make two accounts.
* `DownloadIsTheCv` (three overlapping imports of two kinds of file): an import
  whose file has the kind it read does not write the name, though another import
  changed it since, and the download then finds no file of that name
  (`cv/service.py:79`, `:119`, against `:134-147`); 134 201 states to the violation.
* `OnboardingFiresOnce`: two submissions of the last step both fire the event.
* `ConfirmedListOnly`: only the size of an audience is compared with what the
  admin confirmed; one member may have taken another's place (`announcements.py:189`).

Met while modelling, without a property; the models contain the behaviour:

* A lead whose import was killed between the account's commit and the
  invitation counts as an account and is never invited (`leads/importer.py:55`).
* Two reports of an incident at once lose one; two status changes at once mix their
  columns; a report sent with a deleted account's token adds its id again. A page view needs
  an account that exists and is active when it is read (`track_routes.py:60`), so that
  only one under way during the deletion adds the id again.
* A click on an offer that read the match before the candidate corrected its
  status puts "applied" back.
* Two generations that overlap around a new CV may leave the skills of one CV with the jobs of the
  other in the row, and a stored variant stays that of the old CV after an import.
* The rate limiter's windows are fixed: up to twice the budget passes around a
  boundary. `Retry-After` is truncated to seconds.
* `prefilter_today` and "the last 24 hours" count rows by `updated_at`, which a
  candidate's change of status also moves (`stats.py:167`, `core/models.py:37`);
  `ProfilesComplete` also counts the profiles of admins and disabled accounts.
* The glossary catch-up takes the newest analyses first: with more than a pass
  can hold, the oldest wait as long as new ones come. A fallback label is stored
  for good, and overlapping passes pay twice for one name.
* A slice answered without a usable total is taken for an empty one and set down
  nowhere (`france_travail.py:358-359`, `:78-83`; `untold` in the model). Adverts without a département are missed when the
  crawl goes by département.
* A commit of a CV import that fails after the file was saved leaves the new
  file under the old profile (`cv/service.py:120-125`).
* A newcomer whose placeholder fails once and is then dropped gets the
  zero-offers email after the first-matches email (`batch_service.py:333`), and a newcomer whose
  every request fails is never told anything (`batch_service.py:269`), while
  `matching/emails.py:1-6` says one email, always.
* A row retried apart from its batch is cut to the best N alone
  (`batch_service.py:302`), on top of the N already kept.
* A pair hidden by a run while its batch is recorded or applied comes back as
  pending (`batch_service.py:313`).
* A first-matches email that cannot be written is logged and never written again: its
  candidate gets briefs without it (`batch_service.py:427-444`).
* Both brief passes may post the same offers to Discord before the second
  commit is refused, and that refusal ends the cut-off pass for the candidates still to come
  (`notifications/service.py:197`, `:312-347`).
* The pool of a brief is cut to four times its size before the ledger is
  subtracted: once those offers are sent, the ones ranked below never leave.

## 6. What is not modelled

* Pure I/O and formatting: HTTP gateways, prompts, parsing of pages and of
  model answers beyond their outcome, the PDF, the templates, the wording of
  every mail and screen, schemas, settings, logging, error formatting.
* External machinery: password hashing, token signatures and expiry, the
  triggers of the scheduler, Redis and PostgreSQL beyond what is said above, the
  vector search.
* Data: the tables of keywords, regions, families and specialties (one or two
  representatives of each stand for them), the texts of offers and CVs, dates as
  providers print them, the daily rate (`core/daily_rate.py`).
* `core/cache.py` (nothing uses it), `DailyBriefService.send_daily_briefs` (no
  caller), the lookup of one employer with a time to live (no caller), the test
  brief and the test CV of an admin (they write nothing), the code generator,
  the migrations and the deployment.
* `SqlAgreesWithPython` leaves aside the labels where the pattern's `_` stands
  for another character, and `FilterFollowsTag` those that name two contracts
  ("CDI Intérimaire"): there the tag shown is one of the two.
* Interaction between the components of `people` or of `offers`, except where
  one module holds both.
* Rounding: `Pct` rounds the exact quotient. A share that is half a percent exactly
  may round the other way in floating point (`digest.py:72-77`).
