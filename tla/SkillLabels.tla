---------------------------- MODULE SkillLabels ----------------------------
(***************************************************************************)
(* The French glossary of skill names: an analysed match is flagged once   *)
(* all its internal names are in the glossary. The five-minute catch-up    *)
(* and the pass after each poll run the same code and may overlap.         *)
(* Sources: matching/skill_labels_service.py, labels_gateway.py,           *)
(* skill_labels.py, jobs.py.                                               *)
(***************************************************************************)
EXTENDS Naturals, FiniteSets

CONSTANTS
    Terms,           \* internal names (needs_label)
    Analyses,        \* analysed matches
    TermsOf,         \* collect_keys of a match
    Passes,          \* runs that may overlap
    PerPass,         \* MATCHING_LABELS_MATCHES_PER_RUN
    ChunkTerms,      \* CHUNK_SIZE
    MaxAsked         \* BOUND: calls to the model

ASSUME LabelConstants ==
    /\ IsFiniteSet(Terms) /\ TermsOf \in [Analyses -> SUBSET Terms]
    /\ PerPass \in Nat \ {0} /\ ChunkTerms \in Nat \ {0} /\ MaxAsked \in Nat

VARIABLES
    analysed,        \* matches with an analysis
    flagged,         \* labels_done
    glossary,        \* term -> "french", "plain" or "none"
    pass,            \* per run: what it read and what it has
    asked            \* calls made

labelVars == <<analysed, flagged, glossary, pass, asked>>

NoPass == [pc |-> "idle", pending |-> {}, known |-> {}, chunks |-> {}, fresh |-> {}, forgot |-> {}]
InGlossary == {t \in Terms : glossary[t] # "none"}
TermsIn(matches) == UNION {TermsOf[m] : m \in matches}

LabelInit ==
    /\ analysed = {} /\ flagged = {}
    /\ glossary = [t \in Terms |-> "none"]
    /\ pass = [p \in Passes |-> NoPass]
    /\ asked = 0

\* The pipeline stores an analysis; its names never change afterwards.
AnalysisStored(m) ==
    /\ m \notin analysed /\ analysed' = analysed \cup {m}
    /\ UNCHANGED <<flagged, glossary, pass, asked>>

\* Up to PerPass unflagged matches; the newest first, that is any of them.
PendingChoices ==
    LET waiting == analysed \ flagged
        most == IF Cardinality(waiting) < PerPass THEN Cardinality(waiting) ELSE PerPass
    IN {s \in SUBSET waiting : Cardinality(s) = most}

\* Chunks of at most ChunkTerms: a partition of what is missing.
ChunksOf(missing) ==
    {c \in SUBSET (SUBSET missing) :
        /\ UNION c = missing /\ {} \notin c
        /\ \A a, b \in c : a # b => a \cap b = {}
        /\ \A a \in c : Cardinality(a) <= ChunkTerms
        /\ Cardinality({a \in c : Cardinality(a) < ChunkTerms}) <= 1}

\* process_pending, translate_keys: what is unflagged and what is missing.
StartPass(p) ==
    /\ pass[p].pc = "idle"
    /\ \E pending \in PendingChoices :
          /\ pending # {}
          /\ \E chunks \in ChunksOf(TermsIn(pending) \ InGlossary) :
                /\ asked + Cardinality(chunks) <= MaxAsked
                /\ pass' = [pass EXCEPT ![p] =
                      [pc |-> "asking", pending |-> pending, chunks |-> chunks,
                       known |-> TermsIn(pending) \cap InGlossary, fresh |-> {}, forgot |-> {}]]
                /\ asked' = asked + Cardinality(chunks)
    /\ UNCHANGED <<analysed, flagged, glossary>>

\* _translate_chunk: every term gets a label, or the chunk failed. The terms
\* the model forgot get the name without underscores.
ChunkAnswered(p, chunk, forgot) ==
    /\ chunk \in pass[p].chunks /\ forgot \subseteq chunk /\ forgot # chunk
    /\ pass' = [pass EXCEPT ![p].chunks = @ \ {chunk}, ![p].fresh = @ \cup chunk,
                            ![p].forgot = @ \cup forgot]
    /\ UNCHANGED <<analysed, flagged, glossary, asked>>

\* Three refused attempts, no key, or an answer that holds no label.
ChunkFailed(p, chunk) ==
    /\ chunk \in pass[p].chunks
    /\ pass' = [pass EXCEPT ![p].chunks = @ \ {chunk}]
    /\ UNCHANGED <<analysed, flagged, glossary, asked>>

\* A plausible bug: what was asked counts as known.
AskedIsEnough(r, m) == TRUE

\* keys <= known
Complete(r, m) == TermsOf[m] \subseteq r.known \cup r.fresh

\* The unique key and the savepoint: the first label stays.
Kept(old, new) == IF old # "none" THEN old ELSE new

\* _store, the flags and the commit.
FinishPass(p) ==
    /\ pass[p].pc = "asking" /\ pass[p].chunks = {}
    /\ glossary' = [t \in Terms |->
          IF t \in pass[p].fresh
          THEN Kept(glossary[t], IF t \in pass[p].forgot THEN "plain" ELSE "french")
          ELSE glossary[t]]
    /\ flagged' = flagged \cup {m \in pass[p].pending : Complete(pass[p], m)}
    /\ pass' = [pass EXCEPT ![p] = NoPass]
    /\ UNCHANGED <<analysed, asked>>

\* process_skill_labels swallows everything: nothing of the run is stored.
PassFails(p) ==
    /\ pass[p].pc = "asking"
    /\ pass' = [pass EXCEPT ![p] = NoPass]
    /\ UNCHANGED <<analysed, flagged, glossary, asked>>

LabelNext ==
    \/ \E m \in Analyses : AnalysisStored(m)
    \/ \E p \in Passes : StartPass(p) \/ FinishPass(p) \/ PassFails(p)
    \/ \E p \in Passes : \E c \in pass[p].chunks :
          ChunkFailed(p, c) \/ \E f \in SUBSET c : ChunkAnswered(p, c, f)

LabelSpec == LabelInit /\ [][LabelNext]_labelVars

----------------------------------------------------------------------------
(* The glossary, the flags and the runs have their types.                  *)
LabelTypeOK ==
    /\ flagged \subseteq analysed /\ analysed \subseteq Analyses
    /\ glossary \in [Terms -> {"none", "french", "plain"}]
    /\ asked \in 0..MaxAsked
    /\ \A p \in Passes : pass[p].pc \in {"idle", "asking"}

(* A match is flagged only when the glossary has every name in it, whatever*)
(* chunks failed and whichever run stored first: nobody would come back to *)
(* it (skill_labels_service.py:70-88).                                     *)
FlaggedIsLabelled == TermsIn(flagged) \subseteq InGlossary

=============================================================================
