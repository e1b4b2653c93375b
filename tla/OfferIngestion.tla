----------------------------- MODULE OfferIngestion -----------------------------
(***************************************************************************)
(* The table job_offers (src/app/modules/offers): the hourly keyword sync,    *)
(* one transaction for everything it finds, the hourly full sync, one          *)
(* transaction for each page, the daily purge and the selection of a           *)
(* candidate's new offers. An import reads the rows, calls the embedding model  *)
(* and then writes row by row, keeping each row it changed until it commits;    *)
(* the UPDATE carries the columns whose value differs from the one read.       *)
(***************************************************************************)
EXTENDS Integers, FiniteSets

CONSTANTS
  Postings,     \* offers of a source
  EmbedBatch,   \* _BATCH_SIZE of the embedding calls
  RetentionDays,    \* OFFERS_RETENTION_DAYS
  MaxAge,       \* MATCHING_MAX_OFFER_AGE_DAYS
  MaxEdits,     \* bound of the checks: texts changed at the source
  LastPostDay   \* bound of the checks: the last day

ASSUME IngestionConstants ==
  /\ EmbedBatch \in Nat \ {0}
  /\ {RetentionDays, MaxAge, MaxEdits, LastPostDay} \subseteq Nat
  /\ MaxAge < RetentionDays

VARIABLES
  today,
  source,     \* Postings -> title, body and date the source shows
  postings,   \* Postings -> row of job_offers, or NoRow
  importing,  \* ImportJobs -> the run in progress
  selecting,  \* offers a matching run has picked and not inserted yet
  midnights,  \* midnights that run has seen
  matched,    \* offers some candidate has a match on
  crossed     \* history: offers one import stored while the other had read them
              \* and not written them yet

ingestionVars == <<today, source, postings, importing, selecting, midnights, matched,
                   crossed>>

ImportJobs == {"sync", "full"}
NoRow == [title |-> -1]
NoVector == <<>>
Present(row) == row # NoRow
TextOf(x) == <<x.title, x.body>>
Resting2 == [step |-> "idle"]

IngestionInit ==
  /\ today = 0
  /\ source = [o \in Postings |-> [title |-> 0, body |-> 0, published |-> 0]]
  /\ postings = [o \in Postings |-> NoRow]
  /\ importing = [j \in ImportJobs |-> Resting2]
  /\ selecting = {} /\ midnights = 0 /\ matched = {} /\ crossed = {}

(* The employer edits the text of the offer, which is then of today.            *)
SourceEdits(o) ==
  /\ source[o].title + source[o].body < MaxEdits
  /\ \/ source' = [source EXCEPT ![o].title = @ + 1, ![o].published = today]
     \/ source' = [source EXCEPT ![o].body = @ + 1, ![o].published = today]
  /\ UNCHANGED <<today, postings, importing, selecting, midnights, matched, crossed>>

(* A matching run is over in hours: it sees one midnight at most.               *)
PostDay ==
  /\ today < LastPostDay
  /\ selecting # {} => midnights = 0
  /\ today' = today + 1
  /\ midnights' = IF selecting # {} THEN 1 ELSE 0
  /\ UNCHANGED <<source, postings, importing, selecting, matched, crossed>>

-----------------------------------------------------------------------------
(* OffersIngestionService                                                    *)

Runs(j, run) == importing' = [importing EXCEPT ![j] = run]
AtStep(j, step) == importing[j].step = step

(* One answer of a provider; none when it is down. Nothing is held before the    *)
(* first page or keyword.                                                     *)
Fetch(j, S) ==
  /\ AtStep(j, "idle")
  /\ Runs(j, [step |-> "fetched", held |-> [o \in {} |-> NoRow], items |-> [o \in S |-> source[o]]])
  /\ UNCHANGED <<today, source, postings, selecting, midnights, matched, crossed>>

(* The next keyword of the sync, in the same transaction; it may find the same     *)
(* offer again.                                                               *)
FetchMore(o) ==
  /\ AtStep("sync", "written")
  /\ Runs("sync", [step |-> "fetched", held |-> importing["sync"].held, items |-> [p \in {o} |-> source[p]]])
  /\ UNCHANGED <<today, source, postings, selecting, midnights, matched, crossed>>

(* get_by_source_external_id for each item, get_existing for a page.            *)
Look(j) ==
  /\ AtStep(j, "fetched")
  /\ LET run == importing[j]
     IN  Runs(j, [step |-> "looked", held |-> run.held, items |-> run.items,
                  seen |-> [o \in DOMAIN run.items |->
                              IF o \in DOMAIN run.held THEN run.held[o] ELSE postings[o]]])
  /\ UNCHANGED <<today, source, postings, selecting, midnights, matched, crossed>>

\* A changed body keeps the vector of the old one.
NeedsOnTitle(seen, item) ==
  ~Present(seen) \/ seen.vector = NoVector \/ seen.title # item.title

(* _needs_embedding                                                          *)
NeedsEmbedding(seen, item) ==
  ~Present(seen) \/ seen.vector = NoVector \/ TextOf(seen) # TextOf(item)

(* What the model may answer for: the sync calls it once for each offer, the      *)
(* full import for EmbedBatch texts at a time; a call that keeps failing, or no    *)
(* key, leaves its texts without a vector and raises nothing.                    *)
AnsweredFor(j, needs) ==
  {S \in SUBSET needs :
     j = "full" => \/ Cardinality(S) % EmbedBatch = 0
                   \/ Cardinality(needs \ S) % EmbedBatch = 0}

Embed(j, answered) ==
  /\ AtStep(j, "looked")
  /\ LET run == importing[j]
         needs == {o \in DOMAIN run.items : NeedsEmbedding(run.seen[o], run.items[o])}
     IN  /\ answered \in AnsweredFor(j, needs)
         /\ Runs(j, [step |-> "writing", held |-> run.held, items |-> run.items, seen |-> run.seen,
                     left |-> DOMAIN run.items,
                     vectors |-> [o \in DOMAIN run.items |->
                        IF o \in answered THEN TextOf(run.items[o])
                        ELSE IF o \in needs THEN NoVector ELSE run.seen[o].vector]])
  /\ UNCHANGED <<today, source, postings, selecting, midnights, matched, crossed>>

HeldBy(j) == IF AtStep(j, "idle") THEN {} ELSE DOMAIN importing[j].held
Free(j, o) == \A k \in ImportJobs \ {j} : o \notin HeldBy(k)

(* _upsert: an INSERT that meets the row of another import, or an UPDATE whose    *)
(* row was purged, ends the run; nothing it holds is kept.                      *)
Upsert(j, o) ==
  /\ AtStep(j, "writing")
  /\ o \in importing[j].left
  /\ Free(j, o)
  /\ LET run == importing[j]
         seen == run.seen[o]
         row == IF o \in DOMAIN run.held THEN run.held[o] ELSE postings[o]
         item == run.items[o]
         new == [title |-> item.title, body |-> item.body, published |-> item.published,
                 vector |-> run.vectors[o], created |-> IF Present(seen) THEN seen.created ELSE today]
         after == IF Present(seen) THEN [c \in DOMAIN new |-> IF new[c] # seen[c] THEN new[c] ELSE row[c]]
                  ELSE new
     IN  IF Present(seen) # Present(row) THEN Runs(j, Resting2)
         ELSE Runs(j, [run EXCEPT
                !.left = @ \ {o},
                !.held = IF new = seen THEN @
                         ELSE [p \in DOMAIN @ \cup {o} |-> IF p = o THEN after ELSE @[p]]])
  /\ UNCHANGED <<today, source, postings, selecting, midnights, matched, crossed>>

Written(j) ==
  /\ AtStep(j, "writing")
  /\ importing[j].left = {}
  /\ Runs(j, [step |-> "written", held |-> importing[j].held, items |-> importing[j].items])
  /\ UNCHANGED <<today, source, postings, selecting, midnights, matched, crossed>>

(* What an import still has to write as it read it.                            *)
StillToWrite(j) ==
  IF AtStep(j, "looked") THEN DOMAIN importing[j].items
  ELSE IF AtStep(j, "writing") THEN importing[j].left ELSE {}

ImportCommit(j) ==
  /\ AtStep(j, "written")
  /\ postings' = [o \in Postings |-> IF o \in HeldBy(j) THEN importing[j].held[o] ELSE postings[o]]
  /\ crossed' = crossed \cup (HeldBy(j) \cap UNION {StillToWrite(k) : k \in ImportJobs \ {j}})
  /\ Runs(j, Resting2)
  /\ UNCHANGED <<today, source, selecting, midnights, matched>>

(* A restart, a refused statement, two imports each waiting for a row the other   *)
(* holds.                                                                     *)
ImportAborts(j) ==
  /\ ~AtStep(j, "idle")
  /\ Runs(j, Resting2)
  /\ UNCHANGED <<today, source, postings, selecting, midnights, matched, crossed>>

-----------------------------------------------------------------------------
(* The purge and the selection of offers                                     *)

(* purge_older_than: stored and published before the cut-off, on no match.        *)
Expired ==
  {o \in Postings : /\ Present(postings[o])
                    /\ postings[o].created < today - RetentionDays
                    /\ postings[o].published < today - RetentionDays
                    /\ o \notin matched}

PurgeOld ==
  /\ Expired # {}
  /\ \A j \in ImportJobs : Expired \cap HeldBy(j) = {}
  /\ postings' = [o \in Postings |-> IF o \in Expired THEN NoRow ELSE postings[o]]
  /\ UNCHANGED <<today, source, importing, selecting, midnights, matched, crossed>>

(* A matching run reads its pool, fresh offers only, and stores its pairs later in  *)
(* the same run.                                                              *)
SelectOffers ==
  /\ selecting = {}
  /\ selecting' \in SUBSET {o \in Postings : Present(postings[o]) /\ postings[o].published >= today - MaxAge}
  /\ midnights' = 0
  /\ UNCHANGED <<today, source, postings, importing, matched, crossed>>

StorePairs ==
  /\ selecting # {}
  /\ matched' = matched \cup selecting
  /\ selecting' = {}
  /\ UNCHANGED <<today, source, postings, importing, midnights, crossed>>

IngestionNext ==
  \/ \E o \in Postings : SourceEdits(o) \/ FetchMore(o)
  \/ \E j \in ImportJobs :
       \/ \E S \in SUBSET Postings : Fetch(j, S) \/ Embed(j, S)
       \/ \E o \in Postings : Upsert(j, o)
       \/ Look(j) \/ Written(j) \/ ImportCommit(j) \/ ImportAborts(j)
  \/ PurgeOld \/ SelectOffers \/ StorePairs \/ PostDay

IngestionSpec == IngestionInit /\ [][IngestionNext]_ingestionVars

-----------------------------------------------------------------------------
IngestionTypeOK ==
  /\ today \in 0..LastPostDay
  /\ \A o \in Postings : Present(postings[o]) => postings[o].created \in 0..today
  /\ \A j \in ImportJobs :
       importing[j].step \in {"idle", "fetched", "looked", "writing", "written"}
  /\ matched \cup selecting \cup crossed \subseteq Postings /\ midnights \in 0..1

(* The vector an offer is ranked by is that of its present title and body, or     *)
(* there is none, whatever calls fail and whatever the text did meanwhile. "Over-  *)
(* lapping runs are harmless" (jobs.py:35) but for one order: the hourly imports    *)
(* read one row, and the second writes its columns over what the first committed.  *)
VectorOfText ==
  \A o \in Postings \ crossed :
    Present(postings[o]) /\ postings[o].vector # NoVector =>
      postings[o].vector = TextOf(postings[o])
=============================================================================
