--------------------------- MODULE DailyBriefProofs ---------------------------
(***************************************************************************)
(* For any number of candidates, matches and channels, and any bounds: the  *)
(* types, and that no offer is ever in two emails.  Listed is inductive.    *)
(* Then what a candidate whose handling nothing crossed (raced) may count   *)
(* on, whatever else the passes, the poller, the clock and restarts do:     *)
(* HandInv, and OnceInv and DueInv on top of it.                            *)
(***************************************************************************)
EXTENDS DailyBrief, CountingProofs

LEMMA IdleTyped == IdlePass \in PassType
  BY DEF IdlePass, PassType, PassRecord, InHand

LEMMA StartedTyped ==
    ASSUME NEW users \in SUBSET Users, NEW late \in BOOLEAN
    PROVE  Started(users, late) \in PassType
  BY DEF Started, PassType, PassRecord, InHand

LEMMA PassTyped ==
    ASSUME TypeOK, NEW s \in Passes
    PROVE  pass[s] \in PassType
  BY DEF TypeOK

\* Replacing one pass by a well-typed one.
LEMMA PassSet ==
    ASSUME TypeOK, NEW s \in Passes, NEW p \in PassType
    PROVE  [pass EXCEPT ![s] = p] \in [Passes -> PassType]
  BY DEF TypeOK

LEMMA CountTyped == \A n \in 0..2 : Capped(n) \in 0..2 /\ (n = 0 => Capped(n) = 1)
  BY DEF Capped

LEMMA AgesTyped ==
  /\ \A a \in 0..4 : Older(a) \in 0..4
  /\ \A a \in 0..3 : Older(a) \in 0..3 /\ (Older(a) = Unsent <=> a = Unsent)
  BY DEF Older, Unsent

LEMMA NextCandidateTyped ==
    ASSUME TypeOK, NEW s \in Passes
    PROVE  NextCandidate(s) \in PassType
  <1>1. pass[s] \in PassType
    BY PassTyped
  <1> QED BY <1>1 DEF NextCandidate, PassType, PassRecord, InHand

LEMMA ListedInit == Init => Listed
  <1> SUFFICES ASSUME Init PROVE Listed
    OBVIOUS
  <1>1. TypeOK
    <2>1. enabled \in [Users -> SUBSET Channels]
      BY DEF Init, Channels
    <2>2. pass \in [Passes -> PassType]
      BY IdleTyped DEF Init
    <2>3. /\ analysed \in [Matches -> 0..4] /\ ledger \in [Matches -> 0..3]
          /\ mailed \in [Matches -> 0..2] /\ posted \in [Matches -> 0..2]
          /\ briefs \in [Users -> 0..2]
      BY DEF Init, NotThere, Unsent
    <2>4. past \in BOOLEAN /\ due \subseteq Users /\ raced \subseteq Users /\ verified \subseteq Users
      BY DEF Init
    <2>5. crashes \in 0..MaxCrashes
      BY BriefConstants DEF Init
    <2> QED BY <2>1, <2>2, <2>3, <2>4, <2>5 DEF TypeOK
  <1>2. MailedIsListed /\ MailedOnce
    BY DEF Init, MailedIsListed, MailedOnce
  <1> QED BY <1>1, <1>2 DEF Listed

\* A step of a pass before its commit, or of anyone who does not touch the
\* ledger and the emails.
LEMMA ListedKept ==
    ASSUME Listed, TypeOK', UNCHANGED <<ledger, mailed>>
    PROVE  Listed'
  BY DEF Listed, MailedIsListed, MailedOnce

LEMMA TypeShortlist ==
    ASSUME TypeOK, NEW S \in SUBSET Matches, Shortlist(S)
    PROVE  TypeOK'
  BY DEF TypeOK, Shortlist, dayVars, settings, history, Analysing

LEMMA TypeDrop ==
    ASSUME TypeOK, NEW m \in Matches, Drop(m)
    PROVE  TypeOK'
  BY DEF TypeOK, Drop, dayVars, settings, history, NotThere

LEMMA TypeScoreWave ==
    ASSUME TypeOK, NEW S \in SUBSET Matches, ScoreWave(S)
    PROVE  TypeOK'
  <1> DEFINE cued == {u \in Users : Scored(u) # {} /\ \E m \in S : Owner[m] = u}
             p == Started(cued, past)
  <1>1. p \in PassType
    <2>1. cued \subseteq Users /\ past \in BOOLEAN
      BY DEF TypeOK
    <2> HIDE DEF cued
    <2> QED BY <2>1, StartedTyped
  <1>2. "scored" \in Passes
    BY DEF Passes
  <1>3. pass' \in [Passes -> PassType]
    <2> HIDE DEF cued
    <2>1. pass' = IF cued = {} THEN pass ELSE [pass EXCEPT !["scored"] = p]
      BY DEF ScoreWave, cued
    <2> QED BY <1>1, <1>2, <2>1, PassSet DEF TypeOK
  <1>4. raced' \subseteq Users
    BY DEF TypeOK, ScoreWave
  <1> QED BY <1>3, <1>4 DEF TypeOK, ScoreWave, settings, history

LEMMA TypeCutoff == TypeOK /\ CutoffHour => TypeOK'
  <1> SUFFICES ASSUME TypeOK, CutoffHour PROVE TypeOK'
    OBVIOUS
  <1> DEFINE p == Started(Users, TRUE)
  <1>1. p \in PassType
    BY StartedTyped
  <1>2. "cutoff" \in Passes
    BY DEF Passes
  <1>3. pass' \in [Passes -> PassType]
    BY <1>1, <1>2, PassSet DEF CutoffHour
  <1>4. past' \in BOOLEAN /\ due' \subseteq Users
    BY DEF CutoffHour
  <1> QED BY <1>3, <1>4 DEF TypeOK, CutoffHour, settings, history

LEMMA TypeMidnight == TypeOK /\ Midnight => TypeOK'
  <1> SUFFICES ASSUME TypeOK, Midnight PROVE TypeOK'
    OBVIOUS
  <1>1. pass' \in [Passes -> PassType]
    <2> SUFFICES ASSUME NEW s \in Passes
                 PROVE  [pass[s] EXCEPT !.age = 1] \in PassType /\ pass[s] \in PassType
      BY DEF Midnight
    <2> QED BY PassTyped DEF PassType, PassRecord, InHand
  <1>2. analysed' \in [Matches -> 0..4] /\ ledger' \in [Matches -> 0..3]
    BY AgesTyped DEF TypeOK, Midnight
  <1>3. past' \in BOOLEAN /\ due' \subseteq Users /\ raced' \subseteq Users
    BY DEF Midnight, TypeOK
  <1>4. briefs' \in [Users -> 0..2]
    BY DEF Midnight
  <1> QED BY <1>1, <1>2, <1>3, <1>4 DEF TypeOK, Midnight, settings

LEMMA TypeConsider ==
    ASSUME TypeOK, NEW s \in Passes, NEW u \in Users, Consider(s, u)
    PROVE  TypeOK'
  <1>0. pass[s] \in PassType
    BY PassTyped
  <1>1. Considered(s, u) \in PassType
    <2>1. CASE ShouldWait(s, u)
      BY <1>0, <2>1 DEF Considered, PassType, PassRecord, InHand, Consider
    <2>2. CASE ~ShouldWait(s, u)
      BY <1>0, <2>2 DEF Considered, PassType, PassRecord, InHand, Consider
    <2> QED BY <2>1, <2>2
  <1>2. pass' \in [Passes -> PassType]
    BY <1>1, PassSet DEF Consider
  <1>3. raced' \subseteq Users
    BY DEF TypeOK, Consider
  <1> QED BY <1>2, <1>3 DEF TypeOK, Consider, settings, history

LEMMA TypePick ==
    ASSUME TypeOK, NEW s \in Passes, Pick(s)
    PROVE  TypeOK'
  <1> DEFINE u == pass[s].user
             p == [pass[s] EXCEPT !.at = "picked", !.items = NewMatches(u), !.used = Usable(u)]
  <1>0. pass[s] \in PassType
    BY PassTyped
  <1>1. NewMatches(u) \subseteq Matches /\ \A m \in NewMatches(u) : Owner[m] = u
    BY DEF NewMatches, Top, Scored, MatchesOf
  <1>2. CASE Usable(u) = {} \/ NewMatches(u) = {}
    <2>1. pass' = [pass EXCEPT ![s] = NextCandidate(s)]
      BY <1>2 DEF Pick
    <2>2. pass' \in [Passes -> PassType]
      BY <2>1, NextCandidateTyped, PassSet
    <2> QED BY <2>2 DEF TypeOK, Pick, dayVars, settings, history
  <1>3. CASE ~(Usable(u) = {} \/ NewMatches(u) = {})
    <2>0. u \in Users
      BY <1>0 DEF Pick, PassType, InHand
    <2>1. Usable(u) \subseteq Channels
      BY <2>0 DEF Usable, TypeOK
    <2>2. p \in PassType
      BY <1>0, <1>1, <2>0, <2>1 DEF PassType, PassRecord, InHand
    <2>3. pass' = [pass EXCEPT ![s] = p]
      BY <1>3 DEF Pick
    <2>4. pass' \in [Passes -> PassType]
      BY <2>2, <2>3, PassSet
    <2> QED BY <2>4 DEF TypeOK, Pick, dayVars, settings, history
  <1> QED BY <1>2, <1>3

LEMMA TypeDispatch ==
    ASSUME TypeOK, NEW s \in Passes, Dispatch(s)
    PROVE  TypeOK'
  <1>0. pass[s] \in PassType
    BY PassTyped
  <1>1. PICK accepted \in SUBSET (pass[s].used \ {Email}) :
          /\ pass' = [pass EXCEPT ![s] =
                        [@ EXCEPT !.at = "dispatched", !.out = (accepted # {})]]
          /\ posted' = [m \in Matches |-> IF accepted # {} /\ m \in pass[s].items
                                          THEN Capped(posted[m]) ELSE posted[m]]
          /\ briefs' = IF accepted = {} THEN briefs
                       ELSE [briefs EXCEPT ![pass[s].user] = Capped(@)]
    BY DEF Dispatch
  <1>2. [pass[s] EXCEPT !.at = "dispatched", !.out = (accepted # {})] \in PassType
    BY <1>0 DEF PassType, PassRecord, Dispatch, InHand
  <1>3. pass' \in [Passes -> PassType]
    BY <1>1, <1>2, PassSet
  <1>4. posted' \in [Matches -> 0..2]
    BY <1>1, CountTyped DEF TypeOK
  <1>5. briefs' \in [Users -> 0..2]
    BY <1>1, CountTyped DEF TypeOK
  <1> QED BY <1>3, <1>4, <1>5 DEF TypeOK, Dispatch, dayVars, settings

LEMMA TypeRecord ==
    ASSUME TypeOK, NEW s \in Passes, Record(s)
    PROVE  TypeOK'
  <1>1. CASE Conflict(s)
    <2>1. pass' \in [Passes -> PassType]
      BY <1>1, IdleTyped, PassSet DEF Record
    <2>2. due' \subseteq Users
      BY <1>1 DEF TypeOK, Record, NotWaiting
    <2> QED BY <1>1, <2>1, <2>2 DEF TypeOK, Record, settings
  <1>2. CASE ~Conflict(s)
    <2>1. pass' \in [Passes -> PassType]
      BY <1>2, NextCandidateTyped, PassSet DEF Record
    <2>2. ledger' \in [Matches -> 0..3]
      BY <1>2 DEF TypeOK, Record
    <2>3. mailed' \in [Matches -> 0..2]
      BY <1>2, CountTyped DEF TypeOK, Record
    <2>4. briefs' \in [Users -> 0..2]
      BY <1>2, CountTyped DEF TypeOK, Record
    <2> QED BY <1>2, <2>1, <2>2, <2>3, <2>4 DEF TypeOK, Record, settings
  <1> QED BY <1>1, <1>2

LEMMA TypePassEnds ==
    ASSUME TypeOK, NEW s \in Passes, PassEnds(s)
    PROVE  TypeOK'
  <1>1. pass' \in [Passes -> PassType]
    BY IdleTyped, PassSet DEF PassEnds
  <1> QED BY <1>1 DEF TypeOK, PassEnds, dayVars, settings, history

LEMMA TypeSettings ==
    ASSUME TypeOK, NEW u \in Users,
           Confirm(u) \/ \E on \in SUBSET Channels : SetChannels(u, on)
    PROVE  TypeOK'
  <1>1. CASE Confirm(u)
    BY <1>1 DEF TypeOK, Confirm, dayVars, history
  <1>2. CASE \E on \in SUBSET Channels : SetChannels(u, on)
    BY <1>2 DEF TypeOK, SetChannels, dayVars, history
  <1> QED BY <1>1, <1>2

LEMMA TypeCrash == TypeOK /\ Crash => TypeOK'
  <1> SUFFICES ASSUME TypeOK, Crash PROVE TypeOK'
    OBVIOUS
  <1>1. pass' \in [Passes -> PassType]
    BY IdleTyped DEF Crash
  <1>2. crashes' \in 0..MaxCrashes
    BY BriefConstants DEF Crash, TypeOK
  <1>3. due' \subseteq Users /\ raced' \subseteq Users
    BY DEF TypeOK, Crash, NotWaiting
  <1> QED BY <1>1, <1>2, <1>3 DEF TypeOK, Crash, settings, history

\* Midnight ages the entries and makes none.
LEMMA ListedMidnight == Listed /\ Midnight => Listed'
  <1> SUFFICES ASSUME Listed, Midnight PROVE Listed'
    OBVIOUS
  <1>1. TypeOK'
    BY TypeMidnight DEF Listed
  <1>2. \A m \in Matches : ledger'[m] = Unsent => ledger[m] = Unsent
    BY AgesTyped DEF Listed, TypeOK, Midnight
  <1> QED BY <1>1, <1>2 DEF Listed, MailedIsListed, MailedOnce, Midnight

\* The commit of a brief: without a conflict none of its matches had an entry,
\* so none was in an email, and each one gets its entry with its email.
LEMMA ListedRecord ==
    ASSUME Listed, NEW s \in Passes, Record(s)
    PROVE  Listed'
  <1>1. TypeOK /\ TypeOK'
    BY TypeRecord DEF Listed
  <1>2. CASE Conflict(s)
    BY <1>1, <1>2, ListedKept DEF Record
  <1>3. CASE ~Conflict(s)
    <2>1. pass[s].items \subseteq Matches
      BY <1>1, PassTyped DEF PassType, PassRecord
    <2>2. \A m \in pass[s].items : ledger[m] = Unsent /\ mailed[m] = 0
      BY <1>3, <2>1 DEF Conflict, Listed, MailedIsListed
    <2>3. \A m \in Matches :
            /\ ledger'[m] = IF m \in pass[s].items THEN 0 ELSE ledger[m]
            /\ mailed'[m] = IF Email \in pass[s].used /\ m \in pass[s].items
                            THEN Capped(mailed[m]) ELSE mailed[m]
      BY <1>3 DEF Record
    <2>4. MailedIsListed'
      BY <2>3 DEF Listed, MailedIsListed, Unsent
    <2>5. MailedOnce'
      BY <2>2, <2>3 DEF Listed, MailedOnce, Capped
    <2> QED BY <1>1, <2>4, <2>5 DEF Listed
  <1> QED BY <1>2, <1>3

LEMMA ListedPassStep ==
    ASSUME Listed, NEW s \in Passes, PassStep(s)
    PROVE  Listed'
  <1>0. TypeOK
    BY DEF Listed
  <1>1. ASSUME NEW u \in Users, Consider(s, u) PROVE Listed'
    BY <1>0, <1>1, TypeConsider, ListedKept DEF Consider, history
  <1>2. CASE Pick(s)
    BY <1>0, <1>2, TypePick, ListedKept DEF Pick, history
  <1>3. CASE Dispatch(s)
    BY <1>0, <1>3, TypeDispatch, ListedKept DEF Dispatch
  <1>4. CASE Record(s)
    BY <1>4, ListedRecord
  <1>5. CASE PassEnds(s)
    BY <1>0, <1>5, TypePassEnds, ListedKept DEF PassEnds, history
  <1> QED BY <1>1, <1>2, <1>3, <1>4, <1>5 DEF PassStep

LEMMA ListedNext == Listed /\ [Next]_vars => Listed'
  <1> SUFFICES ASSUME Listed, [Next]_vars PROVE Listed'
    OBVIOUS
  <1>0. TypeOK
    BY DEF Listed
  <1>1. ASSUME NEW S \in SUBSET Matches, Shortlist(S) \/ ScoreWave(S) PROVE Listed'
    <2>1. CASE Shortlist(S)
      BY <1>0, <2>1, TypeShortlist, ListedKept DEF Shortlist, history
    <2>2. CASE ScoreWave(S)
      BY <1>0, <2>2, TypeScoreWave, ListedKept DEF ScoreWave, history
    <2> QED BY <1>1, <2>1, <2>2
  <1>2. ASSUME NEW m \in Matches, Drop(m) PROVE Listed'
    BY <1>0, <1>2, TypeDrop, ListedKept DEF Drop, history
  <1>3. CASE CutoffHour
    BY <1>0, <1>3, TypeCutoff, ListedKept DEF CutoffHour, history
  <1>4. CASE Midnight
    BY <1>4, ListedMidnight
  <1>5. ASSUME NEW s \in Passes, PassStep(s) PROVE Listed'
    BY <1>5, ListedPassStep
  <1>6. ASSUME NEW u \in Users,
               Confirm(u) \/ \E on \in SUBSET Channels : SetChannels(u, on)
        PROVE  Listed'
    <2>1. UNCHANGED <<ledger, mailed>>
      BY <1>6 DEF Confirm, SetChannels, history
    <2> QED BY <1>0, <1>6, <2>1, TypeSettings, ListedKept
  <1>7. CASE Crash
    BY <1>0, <1>7, TypeCrash, ListedKept DEF Crash, history
  <1>8. CASE UNCHANGED vars
    BY <1>8 DEF vars, Listed, TypeOK, MailedIsListed, MailedOnce
  <1> QED BY <1>1, <1>2, <1>3, <1>4, <1>5, <1>6, <1>7, <1>8 DEF Next

LEMMA ListedAlways == Spec => []Listed
  <1> QED BY ListedInit, ListedNext, PTL DEF Spec

(* Every state of every pass is well-formed.                                 *)
THEOREM BriefTypeCorrect == Spec => []TypeOK
  <1>1. Listed => TypeOK
    BY DEF Listed
  <1> QED BY <1>1, ListedAlways, PTL

(* Whatever the two passes, the poller, restarts and changes of channel do,   *)
(* an offer is in one committed email at most.                               *)
THEOREM NeverMailedTwice == Spec => []MailedOnce
  <1>1. Listed => MailedOnce
    BY DEF Listed
  <1> QED BY <1>1, ListedAlways, PTL

-----------------------------------------------------------------------------
(* Who is held, with what, and why a brief may be sent to them.              *)

LEMMA HandInit == Init => HandInv
  BY DEF Init, HandInv, OffersInHand, AnalysedBefore, OneHolder, EligibleInHand, NotTheFirstDay,
         Holds, IdlePass, InHand, Unsent, Ages

\* A candidate in somebody's hands is a candidate.
LEMMA HeldTyped ==
    ASSUME TypeOK, NEW s \in Passes, pass[s].at \in InHand
    PROVE  pass[s].user \in Users /\ pass[s].items \subseteq MatchesOf(pass[s].user)
  <1>1. pass[s] \in PassType
    BY PassTyped
  <1> QED BY <1>1 DEF PassType, PassRecord, MatchesOf

\* What a candidate may be sent depends on the matches of that candidate only.
LEMMA SameMatches ==
    ASSUME NEW u \in Users, analysed' = analysed,
           \A m \in MatchesOf(u) : ledger'[m] = ledger[m]
    PROVE  /\ Scored(u)' = Scored(u) /\ Sent(u)' = Sent(u) /\ NewMatches(u)' = NewMatches(u)
           /\ Eligible(u)' = Eligible(u)
  <1>1. MatchesOf(u)' = MatchesOf(u)
    BY DEF MatchesOf
  <1>2. Scored(u)' = Scored(u)
    BY <1>1 DEF Scored
  <1>3. Sent(u)' = Sent(u)
    BY <1>1 DEF Sent
  <1>4. \A m \in Sent(u) : ledger'[m] = ledger[m]
    BY DEF Sent
  <1>5. NewMatches(u)' = NewMatches(u)
    BY <1>2, <1>3 DEF NewMatches, Top
  <1>6. Eligible(u)' = Eligible(u)
    BY <1>2, <1>3, <1>4 DEF Eligible
  <1> QED BY <1>2, <1>3, <1>5, <1>6

\* Results only come on top of what a candidate has.
LEMMA MoreResults ==
    ASSUME NEW u \in Users, ledger' = ledger,
           \A m \in Matches : analysed[m] \in Ages => analysed'[m] = analysed[m]
    PROVE  /\ Scored(u) \subseteq Scored(u)' /\ Sent(u)' = Sent(u)
           /\ \A m \in Scored(u) : analysed'[m] = analysed[m]
           /\ Eligible(u) /\ (Scored(u) = {} => Scored(u)' = {}) => Eligible(u)'
  <1>1. MatchesOf(u)' = MatchesOf(u) /\ MatchesOf(u) \subseteq Matches
    BY DEF MatchesOf
  <1>2. Scored(u) \subseteq Scored(u)' /\ \A m \in Scored(u) : analysed'[m] = analysed[m]
    BY <1>1 DEF Scored
  <1>3. Sent(u)' = Sent(u)
    BY <1>1 DEF Sent
  <1>4. Eligible(u) /\ (Scored(u) = {} => Scored(u)' = {}) => Eligible(u)'
    BY <1>2, <1>3 DEF Eligible
  <1> QED BY <1>2, <1>3, <1>4

\* A step that takes nobody in hand, and under which a candidate in hand who
\* is not in raced stays eligible, with the same offers sent.
LEMMA HandKept ==
    ASSUME TypeOK, HandInv, raced \subseteq raced',
           \A s \in Passes : pass'[s] = pass[s] \/ pass'[s].at \notin InHand,
           \A u \in Users : Scored(u) \subseteq Scored(u)',
           AnalysedBefore', NotTheFirstDay',
           \A u \in Users \ raced', s \in Passes :
             Holds(s, u) /\ pass'[s] = pass[s] => Sent(u)' = Sent(u) /\ (Eligible(u) => Eligible(u)')
    PROVE  HandInv'
  <1>1. \A s \in Passes, u \in Users : Holds(s, u)' => Holds(s, u) /\ pass'[s] = pass[s]
    BY DEF Holds
  <1>2. OffersInHand'
    <2> SUFFICES ASSUME NEW u \in Users, NEW s \in Passes, Holds(s, u)', pass'[s].at # "allowed"
                 PROVE  pass'[s].items # {} /\ pass'[s].items \subseteq Scored(u)'
      BY DEF OffersInHand
    <2>1. Holds(s, u) /\ pass'[s] = pass[s]
      BY <1>1
    <2>2. pass[s].items # {} /\ pass[s].items \subseteq Scored(u)
      BY <2>1 DEF HandInv, OffersInHand
    <2>3. Scored(u) \subseteq Scored(u)'
      OBVIOUS
    <2> QED BY <2>1, <2>2, <2>3
  <1>3. OneHolder'
    BY <1>1 DEF HandInv, OneHolder
  <1>4. EligibleInHand'
    <2> SUFFICES ASSUME NEW u \in Users \ raced', NEW s \in Passes, Holds(s, u)'
                 PROVE  Eligible(u)' /\ (pass'[s].at # "allowed" => pass'[s].items \cap Sent(u)' = {})
      BY DEF EligibleInHand
    <2>1. Holds(s, u) /\ pass'[s] = pass[s] /\ u \in Users \ raced
      BY <1>1
    <2>2. Eligible(u) /\ (pass[s].at # "allowed" => pass[s].items \cap Sent(u) = {})
      BY <2>1 DEF HandInv, EligibleInHand
    <2> QED BY <2>1, <2>2
  <1> QED BY <1>2, <1>3, <1>4 DEF HandInv

\* A step of a pass that ends with a candidate in its hands.
LEMMA HandMove ==
    ASSUME TypeOK, HandInv, NEW s \in Passes, NEW q, pass' = [pass EXCEPT ![s] = q],
           NEW v \in Users, q.at \in InHand, q.user = v,
           UNCHANGED <<analysed, ledger>>, raced \subseteq raced', NotTheFirstDay',
           v \notin raced' => \A t \in Passes : Holds(t, v) => t = s,
           v \notin raced' => Eligible(v) /\ (q.at # "allowed" => q.items \cap Sent(v) = {}),
           q.at # "allowed" => q.items # {} /\ q.items \subseteq Scored(v)
    PROVE  HandInv'
  <1>1. pass'[s] = q /\ \A t \in Passes \ {s} : pass'[t] = pass[t]
    BY DEF TypeOK
  <1>2. \A u \in Users : Eligible(u)' = Eligible(u) /\ Scored(u)' = Scored(u) /\ Sent(u)' = Sent(u)
    BY SameMatches
  <1>3. \A u \in Users, t \in Passes : Holds(t, u)' <=> IF t = s THEN u = v ELSE Holds(t, u)
    BY <1>1 DEF Holds
  <1>4. OffersInHand'
    <2> SUFFICES ASSUME NEW u \in Users, NEW t \in Passes, Holds(t, u)', pass'[t].at # "allowed"
                 PROVE  pass'[t].items # {} /\ pass'[t].items \subseteq Scored(u)'
      BY DEF OffersInHand
    <2>0. Scored(u)' = Scored(u)
      BY <1>2
    <2>1. CASE t = s
      BY <1>1, <1>3, <2>0, <2>1
    <2>2. CASE t # s
      <3>1. Holds(t, u) /\ pass'[t] = pass[t]
        BY <1>1, <1>3, <2>2
      <3>2. pass[t].items # {} /\ pass[t].items \subseteq Scored(u)
        BY <3>1 DEF HandInv, OffersInHand
      <3> QED BY <2>0, <3>1, <3>2
    <2> QED BY <2>1, <2>2
  <1>5. AnalysedBefore'
    BY DEF HandInv, AnalysedBefore
  <1>6. OneHolder'
    BY <1>3 DEF HandInv, OneHolder
  <1>7. EligibleInHand'
    <2> SUFFICES ASSUME NEW u \in Users \ raced', NEW t \in Passes, Holds(t, u)'
                 PROVE  Eligible(u)' /\ (pass'[t].at # "allowed" => pass'[t].items \cap Sent(u)' = {})
      BY DEF EligibleInHand
    <2>1. CASE t = s
      BY <1>1, <1>2, <1>3, <2>1
    <2>2. CASE t # s
      <3>1. Holds(t, u) /\ pass'[t] = pass[t] /\ u \in Users \ raced
        BY <1>1, <1>3, <2>2
      <3>2. Eligible(u) /\ (pass[t].at # "allowed" => pass[t].items \cap Sent(u) = {})
        BY <3>1 DEF HandInv, EligibleInHand
      <3> QED BY <1>2, <3>1, <3>2
    <2> QED BY <2>1, <2>2
  <1> QED BY <1>4, <1>5, <1>6, <1>7 DEF HandInv

\* Shortlisting, dropping, storing results.
LEMMA PipelineAdds ==
    ASSUME TypeOK,
           \/ \E S \in SUBSET Matches : Shortlist(S) \/ ScoreWave(S)
           \/ \E m \in Matches : Drop(m)
    PROVE  /\ UNCHANGED <<ledger, briefs, posted, mailed, due, enabled, verified>>
           /\ \A m \in Matches : analysed[m] \in Ages => analysed'[m] = analysed[m]
           /\ \A s \in Passes : pass'[s] = pass[s] \/ /\ pass[s].at = "idle" /\ s = "scored"
                                                      /\ pass'[s].at = "next"
           /\ raced \subseteq raced'
  <1>1. ASSUME NEW S \in SUBSET Matches, Shortlist(S) \/ ScoreWave(S), NEW m \in Matches,
               analysed[m] \in Ages
        PROVE  analysed'[m] = analysed[m]
    <2>1. m \notin S
      BY <1>1 DEF Shortlist, ScoreWave, Ages, Analysing, NotThere
    <2> QED BY <1>1, <2>1 DEF Shortlist, ScoreWave
  <1>2. ASSUME NEW k \in Matches, Drop(k), NEW m \in Matches, analysed[m] \in Ages
        PROVE  analysed'[m] = analysed[m]
    BY <1>2 DEF Drop, Ages, Analysing, TypeOK
  <1>3. \/ pass' = pass
        \/ pass["scored"].at = "idle"
           /\ \E users : pass' = [pass EXCEPT !["scored"] = Started(users, past)]
    BY DEF Shortlist, ScoreWave, Drop
  <1>4. \A s \in Passes : pass'[s] = pass[s] \/ /\ pass[s].at = "idle" /\ s = "scored"
                                                /\ pass'[s].at = "next"
    BY <1>3 DEF Started, TypeOK, Passes
  <1>5. UNCHANGED <<ledger, briefs, posted, mailed, due, enabled, verified>> /\ raced \subseteq raced'
    BY DEF Shortlist, ScoreWave, Drop, history, settings, dayVars
  <1> QED BY <1>1, <1>2, <1>4, <1>5

\* The first results of a candidate in hand put them in raced.
LEMMA FirstResults ==
    ASSUME TypeOK, NEW u \in Users \ raced', NEW s \in Passes, Holds(s, u),
           \/ \E S \in SUBSET Matches : Shortlist(S) \/ ScoreWave(S)
           \/ \E m \in Matches : Drop(m)
    PROVE  Scored(u) = {} => Scored(u)' = {}
  <1>1. ASSUME NEW m \in Matches, Drop(m), Scored(u) = {} PROVE Scored(u)' = {}
    BY <1>1 DEF Drop, Scored, MatchesOf, TypeOK, NotThere, Ages
  <1>2. ASSUME NEW S \in SUBSET Matches, Shortlist(S), Scored(u) = {} PROVE Scored(u)' = {}
    BY <1>2 DEF Shortlist, Scored, MatchesOf, TypeOK, Analysing, Ages
  <1>3. ASSUME NEW S \in SUBSET Matches, ScoreWave(S), Scored(u) = {} PROVE Scored(u)' = {}
    <2>1. \A m \in S : Owner[m] # u
      BY <1>3 DEF ScoreWave
    <2>2. \A m \in MatchesOf(u) : m \in Matches /\ analysed'[m] = analysed[m]
      BY <1>3, <2>1 DEF ScoreWave, MatchesOf
    <2> QED BY <1>3, <2>2 DEF Scored, MatchesOf
  <1> QED BY <1>1, <1>2, <1>3

LEMMA HandPipeline ==
    ASSUME TypeOK, HandInv,
           \/ \E S \in SUBSET Matches : Shortlist(S) \/ ScoreWave(S)
           \/ \E m \in Matches : Drop(m)
    PROVE  HandInv'
  <1>1. /\ UNCHANGED <<ledger, briefs>> /\ raced \subseteq raced'
        /\ \A m \in Matches : analysed[m] \in Ages => analysed'[m] = analysed[m]
        /\ \A s \in Passes : pass'[s] = pass[s] \/ pass'[s].at = "next"
    BY PipelineAdds
  <1>2. \A u \in Users : /\ Scored(u) \subseteq Scored(u)' /\ Sent(u)' = Sent(u)
                         /\ \A m \in Scored(u) : analysed'[m] = analysed[m]
                         /\ Eligible(u) /\ (Scored(u) = {} => Scored(u)' = {}) => Eligible(u)'
    BY <1>1, MoreResults
  <1>3. AnalysedBefore' /\ NotTheFirstDay'
    <2>1. AnalysedBefore'
      BY <1>1 DEF HandInv, AnalysedBefore
    <2>2. NotTheFirstDay'
      BY <1>1, <1>2 DEF HandInv, NotTheFirstDay
    <2> QED BY <2>1, <2>2
  <1>4. \A s \in Passes : pass'[s] = pass[s] \/ pass'[s].at \notin InHand
    BY <1>1 DEF InHand
  <1>5. \A u \in Users \ raced', s \in Passes :
          Holds(s, u) => Sent(u)' = Sent(u) /\ (Eligible(u) => Eligible(u)')
    BY <1>2, FirstResults
  <1> QED BY <1>1, <1>2, <1>3, <1>4, <1>5, HandKept

LEMMA HandMidnight ==
    ASSUME TypeOK, HandInv, Midnight
    PROVE  HandInv'
  <1>1. \A s \in Passes : /\ pass'[s].at = pass[s].at /\ pass'[s].user = pass[s].user
                          /\ pass'[s].items = pass[s].items
    BY PassTyped DEF Midnight, PassType, PassRecord
  <1>2. \A u \in Users \ raced', s \in Passes : ~Holds(s, u)'
    BY <1>1 DEF Midnight, Holds
  <1>3. \A a \in 0..4 : Older(a) \in Ages <=> a \in Ages
    BY DEF Older, Ages
  <1>4. \A a, b \in Ages : a <= b => Older(a) <= Older(b)
    BY DEF Older, Ages
  <1>5. AnalysedBefore'
    BY <1>3, <1>4 DEF Midnight, HandInv, AnalysedBefore, TypeOK
  <1>6. NotTheFirstDay'
    BY DEF Midnight, NotTheFirstDay
  <1>7. \A u \in Users : Scored(u)' = Scored(u)
    BY <1>3 DEF Midnight, Scored, MatchesOf, TypeOK
  <1>8. OffersInHand'
    <2> SUFFICES ASSUME NEW u \in Users, NEW s \in Passes, Holds(s, u)', pass'[s].at # "allowed"
                 PROVE  pass'[s].items # {} /\ pass'[s].items \subseteq Scored(u)'
      BY DEF OffersInHand
    <2>1. Holds(s, u) /\ pass[s].at # "allowed"
      BY <1>1 DEF Holds
    <2>2. pass[s].items # {} /\ pass[s].items \subseteq Scored(u)
      BY <2>1 DEF HandInv, OffersInHand
    <2>3. Scored(u)' = Scored(u)
      BY <1>7
    <2> QED BY <1>1, <2>2, <2>3
  <1> QED BY <1>2, <1>5, <1>6, <1>8 DEF HandInv, OneHolder, EligibleInHand

\* A candidate who may be briefed and has something new has an older analysis.
LEMMA OlderAnalysis ==
    ASSUME TypeOK, AnalysedBefore, NEW u \in Users, Eligible(u), Scored(u) # {}
    PROVE  \E m \in Scored(u) : analysed[m] # 0
  <1>1. CASE Sent(u) # {}
    <2>1. PICK m \in Sent(u) : ledger[m] # 0
      BY <1>1 DEF Eligible
    <2>2. m \in MatchesOf(u) /\ m \in Matches /\ ledger[m] \in Ages
      BY DEF Sent, MatchesOf
    <2>3. m \in Scored(u) /\ analysed[m] # 0
      BY <2>1, <2>2 DEF AnalysedBefore, Scored, Ages
    <2> QED BY <2>3
  <1> QED BY <1>1 DEF Eligible

\* Whoever a pass allows a brief is eligible; the cut-off pass, which never
\* crosses midnight, allows one to all who are.
LEMMA WaitingIsRight ==
    ASSUME TypeOK, NEW s \in Passes, NEW u \in Users
    PROVE  /\ ~ShouldWait(s, u) => Eligible(u)
           /\ s = "cutoff" /\ pass[s].age = 0 /\ Eligible(u) => ~ShouldWait(s, u)
  <1>1. pass[s].age \in 0..1
    BY PassTyped DEF PassType, PassRecord
  <1>2. \A m \in Matches : ledger[m] \in 0..3 /\ analysed[m] \in 0..4
    BY DEF TypeOK
  <1>3. Sent(u) \subseteq Matches /\ Scored(u) \subseteq Matches
    BY DEF Sent, Scored, MatchesOf
  <1>4. /\ ~BriefedToday(s, u) => \A m \in Sent(u) : ledger[m] # 0
        /\ pass[s].age = 0 /\ (\A m \in Sent(u) : ledger[m] # 0) => ~BriefedToday(s, u)
    BY <1>1, <1>2, <1>3 DEF BriefedToday
  <1>5. /\ ~FirstAnalysisToday(s, u) =>
             Sent(u) # {} \/ Scored(u) = {} \/ \E m \in Scored(u) : analysed[m] # 0
        /\ pass[s].age = 0 /\ (Sent(u) # {} \/ Scored(u) = {} \/ \E m \in Scored(u) : analysed[m] # 0)
             => ~FirstAnalysisToday(s, u)
    BY <1>1, <1>2, <1>3 DEF FirstAnalysisToday
  <1> QED BY <1>4, <1>5 DEF ShouldWait, Eligible

LEMMA HandConsider ==
    ASSUME TypeOK, HandInv, NEW s \in Passes, NEW v \in Users, Consider(s, v)
    PROVE  HandInv'
  <1>0. pass[s] \in PassType /\ pass[s].at = "next"
    BY PassTyped DEF Consider
  <1>1. PICK q : q = Considered(s, v)
    OBVIOUS
  <1>2. pass' = [pass EXCEPT ![s] = q] /\ UNCHANGED <<analysed, ledger, briefs>> /\ raced \subseteq raced'
    BY <1>1 DEF Consider, history
  <1>3. \A u \in Users : /\ Scored(u)' = Scored(u) /\ Sent(u)' = Sent(u)
                         /\ Eligible(u)' = Eligible(u)
    BY <1>2, SameMatches
  <1>4. NotTheFirstDay' /\ AnalysedBefore'
    BY <1>2, <1>3 DEF HandInv, NotTheFirstDay, AnalysedBefore
  <1>5. CASE ShouldWait(s, v)
    <2>1. q.at \notin InHand
      BY <1>0, <1>1, <1>5 DEF Considered, PassType, PassRecord, InHand
    <2>2. \A t \in Passes : pass'[t] = pass[t] \/ pass'[t].at \notin InHand
      BY <1>2, <2>1 DEF TypeOK
    <2> QED BY <1>2, <1>3, <1>4, <2>2, HandKept
  <1>6. CASE ~ShouldWait(s, v)
    <2>1. q.at = "allowed" /\ q.user = v
      BY <1>0, <1>1, <1>6 DEF Considered, PassType, PassRecord
    <2>2. Eligible(v)
      BY <1>6, WaitingIsRight
    <2>3. v \notin raced' => \A t \in Passes : ~Holds(t, v)
      BY <1>6 DEF Consider
    <2> QED BY <1>2, <1>4, <2>1, <2>2, <2>3, HandMove DEF InHand
  <1> QED BY <1>5, <1>6

LEMMA HandPick ==
    ASSUME TypeOK, HandInv, NEW s \in Passes, Pick(s)
    PROVE  HandInv'
  <1>0. pass[s] \in PassType /\ pass[s].at = "allowed"
    BY PassTyped DEF Pick
  <1>1. PICK v \in Users : v = pass[s].user
    BY <1>0, HeldTyped DEF InHand
  <1>2. UNCHANGED <<analysed, ledger, briefs, raced>>
    BY DEF Pick, history, dayVars
  <1>3. \A u \in Users : /\ Scored(u)' = Scored(u) /\ Sent(u)' = Sent(u)
                         /\ Eligible(u)' = Eligible(u)
    BY <1>2, SameMatches
  <1>4. NotTheFirstDay' /\ AnalysedBefore'
    BY <1>2, <1>3 DEF HandInv, NotTheFirstDay, AnalysedBefore
  <1>5. CASE Usable(v) = {} \/ NewMatches(v) = {}
    <2>1. PICK q : q = NextCandidate(s)
      OBVIOUS
    <2>2. pass' = [pass EXCEPT ![s] = q] /\ q.at \notin InHand
      BY <1>0, <1>1, <1>5, <2>1 DEF Pick, NextCandidate, PassType, PassRecord, InHand
    <2>3. \A t \in Passes : pass'[t] = pass[t] \/ pass'[t].at \notin InHand
      BY <2>2 DEF TypeOK
    <2> QED BY <1>2, <1>3, <1>4, <2>3, HandKept
  <1>6. CASE ~(Usable(v) = {} \/ NewMatches(v) = {})
    <2>1. PICK q : q = [pass[s] EXCEPT !.at = "picked", !.items = NewMatches(v), !.used = Usable(v)]
      OBVIOUS
    <2>2. /\ pass' = [pass EXCEPT ![s] = q] /\ NewMatches(v) # {}
          /\ q.at = "picked" /\ q.user = v /\ q.items = NewMatches(v)
      BY <1>0, <1>1, <1>6, <2>1 DEF Pick, PassType, PassRecord
    <2>3. NewMatches(v) \subseteq Scored(v) /\ NewMatches(v) \cap Sent(v) = {}
      BY DEF NewMatches, Top
    <2>4. Holds(s, v)
      BY <1>0, <1>1 DEF Holds, InHand
    <2>5. v \notin raced' => Eligible(v) /\ \A t \in Passes : Holds(t, v) => t = s
      BY <1>2, <2>4 DEF HandInv, EligibleInHand, OneHolder
    <2> QED BY <1>2, <1>4, <2>2, <2>3, <2>5, HandMove DEF InHand
  <1> QED BY <1>5, <1>6

\* What a pass has in hand when it sends.
LEMMA SentInHand ==
    ASSUME TypeOK, HandInv, NEW s \in Passes, pass[s].at \in {"picked", "dispatched"}
    PROVE  /\ pass[s].user \in Users /\ Holds(s, pass[s].user)
           /\ pass[s].items # {} /\ pass[s].items \subseteq Scored(pass[s].user)
           /\ pass[s].user \notin raced =>
                /\ Eligible(pass[s].user)
                /\ \E m \in Scored(pass[s].user) : analysed[m] # 0
                /\ \A m \in pass[s].items : ledger[m] = Unsent
                /\ \A t \in Passes : Holds(t, pass[s].user) => t = s
  <1>1. PICK v \in Users : v = pass[s].user
    BY HeldTyped DEF InHand
  <1>2. Holds(s, v)
    BY <1>1 DEF Holds, InHand
  <1>3. pass[s].items # {} /\ pass[s].items \subseteq Scored(v)
    BY <1>2 DEF HandInv, OffersInHand
  <1>4. ASSUME v \notin raced
        PROVE  /\ Eligible(v) /\ \E m \in Scored(v) : analysed[m] # 0
               /\ \A m \in pass[s].items : ledger[m] = Unsent
               /\ \A t \in Passes : Holds(t, v) => t = s
    <2>1. Eligible(v) /\ pass[s].items \cap Sent(v) = {}
      BY <1>2, <1>4 DEF HandInv, EligibleInHand
    <2>2. \E m \in Scored(v) : analysed[m] # 0
      BY <1>3, <2>1, OlderAnalysis DEF HandInv
    <2>3. \A m \in pass[s].items : ledger[m] = Unsent
      BY <1>3, <2>1 DEF Scored, Sent, MatchesOf, TypeOK, Unsent, Ages
    <2>4. \A t \in Passes : Holds(t, v) => t = s
      BY <1>2, <1>4 DEF HandInv, OneHolder
    <2> QED BY <2>1, <2>2, <2>3, <2>4
  <1> QED BY <1>1, <1>2, <1>3, <1>4

\* A brief only goes to the candidate in hand, who has an older analysis.
LEMMA BriefsOfTheHeld ==
    ASSUME TypeOK, HandInv, NEW s \in Passes, Dispatch(s) \/ Record(s)
    PROVE  NotTheFirstDay' /\ UNCHANGED <<analysed, raced>>
  <1>1. PICK v \in Users : v = pass[s].user
    BY SentInHand DEF Dispatch, Record
  <1>2. v \notin raced => \E m \in Scored(v) : analysed[m] # 0
    BY <1>1, SentInHand DEF Dispatch, Record
  <1>3. UNCHANGED <<analysed, raced>> /\ \A u \in Users : Scored(u)' = Scored(u)
    BY DEF Dispatch, Record, Scored, MatchesOf, dayVars
  <1>4. \A u \in Users : u # v => briefs'[u] = briefs[u]
    BY <1>1 DEF Dispatch, Record, TypeOK
  <1> QED BY <1>2, <1>3, <1>4 DEF HandInv, NotTheFirstDay

LEMMA HandDispatch ==
    ASSUME TypeOK, HandInv, NEW s \in Passes, Dispatch(s)
    PROVE  HandInv'
  <1>0. pass[s] \in PassType /\ pass[s].at = "picked"
    BY PassTyped DEF Dispatch
  <1>1. PICK v \in Users : v = pass[s].user
    BY <1>0, SentInHand
  <1>2. PICK out : pass' = [pass EXCEPT ![s] = [pass[s] EXCEPT !.at = "dispatched", !.out = out]]
    BY DEF Dispatch
  <1>3. PICK q : q = [pass[s] EXCEPT !.at = "dispatched", !.out = out]
    OBVIOUS
  <1>4. q.at = "dispatched" /\ q.user = v /\ q.items = pass[s].items
    BY <1>0, <1>1, <1>3 DEF PassType, PassRecord
  <1>5. UNCHANGED <<analysed, ledger, raced>> /\ NotTheFirstDay'
    BY BriefsOfTheHeld DEF Dispatch
  <1>6. /\ Holds(s, v) /\ q.items # {} /\ q.items \subseteq Scored(v)
        /\ v \notin raced => Eligible(v) /\ \A t \in Passes : Holds(t, v) => t = s
    BY <1>0, <1>1, <1>4, SentInHand
  <1>7. v \notin raced => q.items \cap Sent(v) = {}
    BY <1>0, <1>4, <1>6 DEF HandInv, EligibleInHand
  <1> QED BY <1>2, <1>3, <1>4, <1>5, <1>6, <1>7, HandMove DEF InHand

LEMMA HandRecord ==
    ASSUME TypeOK, HandInv, NEW s \in Passes, Record(s)
    PROVE  HandInv'
  <1>0. pass[s] \in PassType /\ pass[s].at = "dispatched"
    BY PassTyped DEF Record
  <1>1. PICK v \in Users : v = pass[s].user
    BY <1>0, SentInHand
  <1>2. PICK q : q = IF Conflict(s) THEN IdlePass ELSE NextCandidate(s)
    OBVIOUS
  <1>3. pass' = [pass EXCEPT ![s] = q] /\ q.at \notin InHand
    BY <1>0, <1>2 DEF Record, IdlePass, NextCandidate, PassType, PassRecord, InHand
  <1>4. \A t \in Passes : (t # s => pass'[t] = pass[t]) /\ (t = s => pass'[t].at \notin InHand)
    BY <1>3 DEF TypeOK
  <1>5. NotTheFirstDay' /\ UNCHANGED <<analysed, raced>>
    BY BriefsOfTheHeld
  <1>6. pass[s].items \subseteq Scored(v) /\ Holds(s, v)
    BY <1>0, <1>1, SentInHand
  <1>7. \A m \in Matches : ledger'[m] = ledger[m] \/ /\ ledger'[m] = 0 /\ m \in pass[s].items
                                                     /\ analysed[m] \in Ages /\ Owner[m] = v
    BY <1>6 DEF Record, Scored, MatchesOf
  <1>8. AnalysedBefore'
    BY <1>5, <1>7 DEF HandInv, AnalysedBefore, Ages
  <1>9. \A u \in Users : Scored(u)' = Scored(u)
    BY <1>5 DEF Scored, MatchesOf
  <1>10. \A u \in Users : u # v => Sent(u)' = Sent(u) /\ Eligible(u)' = Eligible(u)
    <2> SUFFICES ASSUME NEW u \in Users, u # v
                 PROVE  Sent(u)' = Sent(u) /\ Eligible(u)' = Eligible(u)
      OBVIOUS
    <2>1. \A m \in MatchesOf(u) : ledger'[m] = ledger[m]
      BY <1>7 DEF MatchesOf
    <2> QED BY <1>5, <2>1, SameMatches
  <1>11. \A u \in Users \ raced', t \in Passes : Holds(t, u) /\ t # s => u # v
    BY <1>5, <1>6 DEF HandInv, OneHolder
  <1>12. \A u \in Users \ raced', t \in Passes : Holds(t, u) /\ pass'[t] = pass[t] => t # s
    BY <1>4 DEF Holds
  <1> QED BY <1>4, <1>5, <1>8, <1>9, <1>10, <1>11, <1>12, HandKept

\* The other steps let go of whom they held, or hold nobody.
LEMMA HandOther ==
    ASSUME TypeOK, HandInv,
           \/ \E s \in Passes : PassEnds(s)
           \/ CutoffHour \/ Crash
           \/ \E u \in Users : Confirm(u) \/ \E on \in SUBSET Channels : SetChannels(u, on)
           \/ UNCHANGED vars
    PROVE  HandInv'
  <1>1. UNCHANGED <<analysed, ledger, briefs>> /\ raced \subseteq raced'
    BY DEF PassEnds, CutoffHour, Crash, Confirm, SetChannels, vars, dayVars, history
  <1>2. \A u \in Users : /\ Scored(u)' = Scored(u) /\ Sent(u)' = Sent(u)
                         /\ Eligible(u)' = Eligible(u)
    BY <1>1, SameMatches
  <1>3. NotTheFirstDay' /\ AnalysedBefore'
    BY <1>1, <1>2 DEF HandInv, NotTheFirstDay, AnalysedBefore
  <1>4. \A t \in Passes : pass'[t] = pass[t] \/ pass'[t].at \in {"idle", "next"}
    <2>1. CASE \E s \in Passes : PassEnds(s)
      BY <2>1 DEF PassEnds, TypeOK, IdlePass
    <2>2. CASE CutoffHour
      BY <2>2 DEF CutoffHour, TypeOK, Started
    <2>3. CASE Crash
      BY <2>3 DEF Crash, IdlePass
    <2>4. CASE \/ \E u \in Users : Confirm(u) \/ \E on \in SUBSET Channels : SetChannels(u, on)
               \/ UNCHANGED vars
      BY <2>4 DEF Confirm, SetChannels, vars
    <2> QED BY <2>1, <2>2, <2>3, <2>4
  <1>5. \A t \in Passes : pass'[t] = pass[t] \/ pass'[t].at \notin InHand
    BY <1>4 DEF InHand
  <1> QED BY <1>1, <1>2, <1>3, <1>5, HandKept

LEMMA HandNext == Listed /\ HandInv /\ [Next]_vars => HandInv'
  <1> SUFFICES ASSUME TypeOK, HandInv, [Next]_vars PROVE HandInv'
    BY DEF Listed
  <1>1. CASE \/ \E S \in SUBSET Matches : Shortlist(S) \/ ScoreWave(S)
             \/ \E m \in Matches : Drop(m)
    BY <1>1, HandPipeline
  <1>2. CASE Midnight
    BY <1>2, HandMidnight
  <1>3. CASE \E s \in Passes : (\E u \in Users : Consider(s, u)) \/ Pick(s) \/ Dispatch(s) \/ Record(s)
    BY <1>3, HandConsider, HandPick, HandDispatch, HandRecord
  <1>4. CASE \/ \E s \in Passes : PassEnds(s)
             \/ CutoffHour \/ Crash
             \/ \E u \in Users : Confirm(u) \/ \E on \in SUBSET Channels : SetChannels(u, on)
             \/ UNCHANGED vars
    BY <1>4, HandOther
  <1> QED BY <1>1, <1>2, <1>3, <1>4 DEF Next, PassStep

LEMMA HandAlways == Spec => [](Listed /\ HandInv)
  <1>1. Listed /\ HandInv /\ [Next]_vars => (Listed /\ HandInv)'
    BY ListedNext, HandNext
  <1> QED BY <1>1, ListedInit, HandInit, PTL DEF Spec

(* Nobody gets a brief on the day of their first analysis, unless its results *)
(* are stored between the check and the commit of that candidate.            *)
THEOREM FirstDayIsQuiet == Spec => []QuietFirstDay
  <1>1. Listed /\ HandInv => QuietFirstDay
    BY DEF Listed, TypeOK, HandInv, NotTheFirstDay, QuietFirstDay
  <1> QED BY <1>1, HandAlways, PTL

-----------------------------------------------------------------------------
(* A brief that left stays known until midnight, an offer that was posted    *)
(* for ever.                                                                *)

LEMMA OnceInit == Init => OnceInv /\ DueInv
  BY DEF Init, OnceInv, BriefIsListed, PostIsListed, OneBriefUnlessRaced, PostedOnce, DueInv,
         EmailInHand, OutOf, IdlePass, Passes

\* A step that sends nothing, after which a pass whose messages have left
\* still has the same candidate and offers, or the candidate is in raced.
LEMMA OnceKept ==
    ASSUME TypeOK, OnceInv, UNCHANGED <<ledger, briefs, posted>>, raced \subseteq raced',
           \A s \in Passes : OutOf(s) =>
             \/ /\ OutOf(s)' /\ pass'[s].user = pass[s].user /\ pass'[s].items = pass[s].items
             \/ pass[s].user \in raced'
    PROVE  OnceInv'
  <1>1. \A u \in Users : Sent(u)' = Sent(u)
    BY DEF Sent, MatchesOf
  <1>2. \A s \in Passes : OutOf(s) => \A m \in pass[s].items : Owner[m] = pass[s].user
    BY PassTyped DEF PassType
  <1>3. BriefIsListed'
    <2> SUFFICES ASSUME NEW u \in Users \ raced', briefs[u] > 0
                 PROVE  \/ \E m \in Sent(u) : ledger[m] = 0
                        \/ \E s \in Passes : OutOf(s)' /\ pass'[s].user = u
      BY <1>1 DEF BriefIsListed
    <2> QED BY DEF OnceInv, BriefIsListed
  <1>4. PostIsListed'
    <2> SUFFICES ASSUME NEW m \in Matches, Owner[m] \notin raced', posted[m] > 0
                 PROVE  ledger[m] # Unsent \/ \E s \in Passes : OutOf(s)' /\ m \in pass'[s].items
      BY DEF PostIsListed
    <2>1. ledger[m] # Unsent \/ \E s \in Passes : OutOf(s) /\ m \in pass[s].items
      BY DEF OnceInv, PostIsListed
    <2> QED BY <1>2, <2>1
  <1>5. OneBriefUnlessRaced' /\ PostedOnce'
    BY DEF OnceInv, OneBriefUnlessRaced, PostedOnce
  <1> QED BY <1>3, <1>4, <1>5 DEF OnceInv

LEMMA OnceMidnight ==
    ASSUME TypeOK, OnceInv, Midnight
    PROVE  OnceInv'
  <1>1. \A m \in Matches : ledger'[m] = Unsent <=> ledger[m] = Unsent
    BY AgesTyped DEF TypeOK, Midnight
  <1>2. \A s \in Passes : /\ pass'[s].at = pass[s].at /\ pass'[s].out = pass[s].out
                          /\ pass'[s].items = pass[s].items
    BY PassTyped DEF Midnight, PassType, PassRecord
  <1>3. PostIsListed'
    <2> SUFFICES ASSUME NEW m \in Matches, Owner[m] \notin raced', posted'[m] > 0
                 PROVE  ledger'[m] # Unsent \/ \E s \in Passes : OutOf(s)' /\ m \in pass'[s].items
      BY DEF PostIsListed
    <2>1. Owner[m] \notin raced /\ posted[m] > 0
      BY DEF Midnight
    <2>2. ledger[m] # Unsent \/ \E s \in Passes : OutOf(s) /\ m \in pass[s].items
      BY <2>1 DEF OnceInv, PostIsListed
    <2> QED BY <1>1, <1>2, <2>2 DEF OutOf
  <1>4. PostedOnce'
    BY DEF OnceInv, PostedOnce, Midnight
  <1> QED BY <1>3, <1>4 DEF OnceInv, BriefIsListed, OneBriefUnlessRaced, Midnight

\* Whoever is held by a pass whose messages have not left had no brief today,
\* and no offer in hand was posted.
LEMMA NoBriefYet ==
    ASSUME TypeOK, HandInv, OnceInv, NEW s \in Passes, NEW v \in Users \ raced, Holds(s, v), ~OutOf(s)
    PROVE  /\ briefs[v] = 0
           /\ pass[s].at # "allowed" => \A m \in pass[s].items : posted[m] = 0
           /\ \A t \in Passes : ~(OutOf(t) /\ pass[t].user = v)
  <1>1. \A t \in Passes : ~(OutOf(t) /\ pass[t].user = v)
    BY DEF HandInv, OneHolder, Holds, OutOf, InHand
  <1>2. Eligible(v)
    BY DEF HandInv, EligibleInHand
  <1>3. ~(briefs[v] > 0) /\ briefs[v] \in 0..2
    BY <1>1, <1>2 DEF OnceInv, BriefIsListed, Eligible, TypeOK
  <1>4. ASSUME pass[s].at # "allowed", NEW m \in pass[s].items PROVE posted[m] = 0
    <2>1. pass[s].at \in {"picked", "dispatched"} /\ v = pass[s].user
      BY <1>4 DEF Holds, InHand
    <2>2. m \in Scored(v) /\ ledger[m] = Unsent
      BY <2>1, SentInHand
    <2>3. m \in Matches /\ Owner[m] = v
      BY <2>2 DEF Scored, MatchesOf
    <2>4. \A t \in Passes : OutOf(t) /\ m \in pass[t].items => pass[t].user = v
      BY <2>3, PassTyped DEF PassType
    <2>5. ~(posted[m] > 0) /\ posted[m] \in 0..2
      BY <1>1, <2>2, <2>3, <2>4 DEF OnceInv, PostIsListed, TypeOK
    <2> QED BY <2>5
  <1> QED BY <1>1, <1>3, <1>4

LEMMA OnceDispatch ==
    ASSUME TypeOK, HandInv, OnceInv, NEW s \in Passes, Dispatch(s)
    PROVE  OnceInv'
  <1>0. pass[s] \in PassType /\ pass[s].at = "picked" /\ ~OutOf(s)
    BY PassTyped DEF Dispatch, OutOf
  <1>1. PICK v \in Users : v = pass[s].user /\ Holds(s, v)
    BY <1>0, SentInHand
  <1>2. PICK accepted \in SUBSET (pass[s].used \ {Email}) :
          /\ pass' = [pass EXCEPT ![s] =
                        [@ EXCEPT !.at = "dispatched", !.out = (accepted # {})]]
          /\ posted' = [m \in Matches |-> IF accepted # {} /\ m \in pass[s].items
                                          THEN Capped(posted[m]) ELSE posted[m]]
          /\ briefs' = IF accepted = {} THEN briefs
                       ELSE [briefs EXCEPT ![pass[s].user] = Capped(@)]
    BY DEF Dispatch
  <1>3. UNCHANGED <<ledger, raced>> /\ \A u \in Users : Sent(u)' = Sent(u)
    BY DEF Dispatch, Sent, MatchesOf, dayVars
  <1>4. \A t \in Passes : t # s => pass'[t] = pass[t]
    BY <1>2 DEF TypeOK
  <1>5. CASE accepted = {}
    <2>1. briefs' = briefs /\ posted' = posted
      BY <1>2, <1>5 DEF TypeOK
    <2>2. \A t \in Passes : OutOf(t) => OutOf(t)' /\ pass'[t].user = pass[t].user /\ pass'[t].items = pass[t].items
      BY <1>0, <1>4 DEF OutOf
    <2> QED BY <1>3, <2>1, <2>2, OnceKept
  <1>6. CASE accepted # {}
    <2>1. OutOf(s)' /\ pass'[s].user = v /\ pass'[s].items = pass[s].items
      BY <1>0, <1>1, <1>2, <1>6 DEF OutOf, TypeOK, PassType, PassRecord
    <2>2. \A t \in Passes : OutOf(t) => OutOf(t)' /\ pass'[t] = pass[t]
      BY <1>0, <1>4 DEF OutOf
    <2>3. \A u \in Users : u # v => briefs'[u] = briefs[u]
      BY <1>1, <1>2, <1>6 DEF TypeOK
    <2>4. v \notin raced => briefs'[v] = 1
      BY <1>0, <1>1, <1>2, <1>6, NoBriefYet, CountTyped DEF TypeOK
    <2>5. \A m \in Matches : m \notin pass[s].items => posted'[m] = posted[m]
      BY <1>2 DEF TypeOK
    <2>6. \A m \in pass[s].items : m \in Matches /\ Owner[m] = v
      BY <1>0, <1>1 DEF PassType, PassRecord
    <2>7. v \notin raced => \A m \in pass[s].items : posted'[m] = 1
      BY <1>0, <1>1, <1>2, <1>6, <2>6, NoBriefYet, CountTyped DEF TypeOK
    <2>8. BriefIsListed'
      BY <1>3, <2>1, <2>2, <2>3 DEF OnceInv, BriefIsListed
    <2>9. PostIsListed'
      BY <1>3, <2>1, <2>2, <2>5 DEF OnceInv, PostIsListed
    <2>10. OneBriefUnlessRaced'
      BY <1>3, <2>3, <2>4 DEF OnceInv, OneBriefUnlessRaced
    <2>11. PostedOnce'
      BY <1>3, <2>5, <2>6, <2>7 DEF OnceInv, PostedOnce
    <2> QED BY <2>8, <2>9, <2>10, <2>11 DEF OnceInv
  <1> QED BY <1>5, <1>6

\* The second entry of an offer: somebody else held the candidate.
LEMMA ConflictIsRaced ==
    ASSUME TypeOK, HandInv, NEW s \in Passes, Record(s), Conflict(s)
    PROVE  pass[s].user \in raced
  BY SentInHand DEF Record, Conflict

LEMMA OnceRecord ==
    ASSUME TypeOK, HandInv, OnceInv, NEW s \in Passes, Record(s)
    PROVE  OnceInv'
  <1>0. pass[s] \in PassType /\ pass[s].at = "dispatched"
    BY PassTyped DEF Record
  <1>1. PICK v \in Users : v = pass[s].user /\ Holds(s, v)
    BY <1>0, SentInHand
  <1>2. raced' = raced /\ \A t \in Passes : t # s => pass'[t] = pass[t]
    BY DEF Record, TypeOK
  <1>3. CASE Conflict(s)
    <2>1. UNCHANGED <<ledger, briefs, posted>>
      BY <1>3 DEF Record
    <2>2. v \in raced
      BY <1>1, <1>3, ConflictIsRaced
    <2>3. \A t \in Passes : OutOf(t) =>
             \/ /\ OutOf(t)' /\ pass'[t].user = pass[t].user /\ pass'[t].items = pass[t].items
             \/ pass[t].user \in raced'
      BY <1>1, <1>2, <2>2 DEF OutOf
    <2> QED BY <1>2, <2>1, <2>3, OnceKept
  <1>4. CASE ~Conflict(s)
    <2>1. /\ \A m \in Matches : ledger'[m] = IF m \in pass[s].items THEN 0 ELSE ledger[m]
          /\ briefs' = IF Email \in pass[s].used /\ ~pass[s].out THEN [briefs EXCEPT ![v] = Capped(@)]
                       ELSE briefs
          /\ posted' = posted
      BY <1>1, <1>4 DEF Record
    <2>2. pass[s].items # {} /\ pass[s].items \subseteq Scored(v)
      BY <1>0, <1>1, SentInHand
    <2>3. \E m \in Sent(v)' : ledger'[m] = 0
      <3>1. PICK m \in pass[s].items : m \in Scored(v)
        BY <2>2
      <3>2. m \in MatchesOf(v) /\ m \in Matches
        BY <3>1 DEF Scored, MatchesOf
      <3>3. ledger'[m] = 0
        BY <2>1, <3>1, <3>2
      <3> QED BY <3>2, <3>3 DEF Sent, MatchesOf, Ages
    <2>4. \A t \in Passes : t # s /\ OutOf(t) => OutOf(t)' /\ pass'[t] = pass[t]
      BY <1>2 DEF OutOf
    <2>5. BriefIsListed'
      <3> SUFFICES ASSUME NEW u \in Users \ raced, u # v, briefs'[u] > 0
                   PROVE  \/ \E m \in Sent(u)' : ledger'[m] = 0
                          \/ \E t \in Passes : OutOf(t)' /\ pass'[t].user = u
        BY <1>2, <2>3 DEF BriefIsListed
      <3>1. briefs'[u] = briefs[u]
        BY <2>1 DEF TypeOK
      <3>2. CASE \E m \in Sent(u) : ledger[m] = 0
        <4>1. PICK m \in Sent(u) : ledger[m] = 0
          BY <3>2
        <4>2. m \in MatchesOf(u) /\ m \in Matches
          BY DEF Sent, MatchesOf
        <4>3. ledger'[m] = 0
          BY <2>1, <4>1, <4>2
        <4> QED BY <4>2, <4>3 DEF Sent, MatchesOf, Ages
      <3>3. CASE \E t \in Passes : OutOf(t) /\ pass[t].user = u
        BY <1>1, <2>4, <3>3
      <3> QED BY <3>1, <3>2, <3>3 DEF OnceInv, BriefIsListed
    <2>6. PostIsListed'
      BY <1>2, <2>1, <2>4 DEF OnceInv, PostIsListed, Unsent
    <2>7. OneBriefUnlessRaced'
      <3>1. CASE pass[s].out
        BY <1>2, <2>1, <3>1 DEF OnceInv, OneBriefUnlessRaced
      <3>2. CASE ~pass[s].out
        <4>1. v \notin raced => briefs[v] = 0
          BY <1>1, <3>2, NoBriefYet DEF OutOf
        <4>2. \A u \in Users : u # v => briefs'[u] = briefs[u]
          BY <2>1 DEF TypeOK
        <4>3. v \notin raced => briefs'[v] \in 0..1
          BY <2>1, <4>1, CountTyped DEF TypeOK
        <4> QED BY <1>2, <4>2, <4>3 DEF OnceInv, OneBriefUnlessRaced
      <3> QED BY <3>1, <3>2
    <2>8. PostedOnce'
      BY <1>2, <2>1 DEF OnceInv, PostedOnce
    <2> QED BY <2>5, <2>6, <2>7, <2>8 DEF OnceInv
  <1> QED BY <1>3, <1>4

\* The steps at which nothing leaves.
LEMMA OnceOther ==
    ASSUME TypeOK, OnceInv,
           \/ \E S \in SUBSET Matches : Shortlist(S) \/ ScoreWave(S)
           \/ \E m \in Matches : Drop(m)
           \/ CutoffHour \/ Crash
           \/ \E s \in Passes : (\E u \in Users : Consider(s, u)) \/ Pick(s) \/ PassEnds(s)
           \/ \E u \in Users : Confirm(u) \/ \E on \in SUBSET Channels : SetChannels(u, on)
           \/ UNCHANGED vars
    PROVE  OnceInv'
  <1>1. UNCHANGED <<ledger, briefs, posted>> /\ raced \subseteq raced'
    BY DEF Shortlist, ScoreWave, Drop, CutoffHour, Crash, Consider, Pick, PassEnds, Confirm, SetChannels,
           vars, dayVars, history
  <1>2. CASE Crash
    <2>1. \A s \in Passes : OutOf(s) => pass[s].user \in raced'
      BY <1>2, HeldTyped DEF Crash, OutOf, InHand
    <2> QED BY <1>1, <2>1, OnceKept
  <1>3. CASE ~Crash
    <2>1. \A t \in Passes : OutOf(t) => pass'[t] = pass[t]
      <3>1. CASE \/ \E S \in SUBSET Matches : Shortlist(S) \/ ScoreWave(S)
                 \/ \E m \in Matches : Drop(m)
        BY <3>1, PipelineAdds DEF OutOf
      <3>2. CASE CutoffHour
        BY <3>2 DEF CutoffHour, OutOf, TypeOK
      <3>3. CASE \E s \in Passes : (\E u \in Users : Consider(s, u)) \/ Pick(s) \/ PassEnds(s)
        BY <3>3 DEF Consider, Pick, PassEnds, OutOf, TypeOK
      <3>4. CASE \/ \E u \in Users : Confirm(u) \/ \E on \in SUBSET Channels : SetChannels(u, on)
                 \/ UNCHANGED vars
        BY <3>4 DEF Confirm, SetChannels, vars
      <3> QED BY <1>3, <3>1, <3>2, <3>3, <3>4
    <2>2. \A t \in Passes : OutOf(t) => OutOf(t)' /\ pass'[t].user = pass[t].user /\ pass'[t].items = pass[t].items
      BY <2>1 DEF OutOf
    <2> QED BY <1>1, <2>2, OnceKept
  <1> QED BY <1>2, <1>3

LEMMA OnceNext == Listed /\ HandInv /\ OnceInv /\ [Next]_vars => OnceInv'
  <1> SUFFICES ASSUME TypeOK, HandInv, OnceInv, [Next]_vars PROVE OnceInv'
    BY DEF Listed
  <1>1. CASE Midnight
    BY <1>1, OnceMidnight
  <1>2. CASE \E s \in Passes : Dispatch(s) \/ Record(s)
    BY <1>2, OnceDispatch, OnceRecord
  <1>3. CASE \/ \E S \in SUBSET Matches : Shortlist(S) \/ ScoreWave(S)
             \/ \E m \in Matches : Drop(m)
             \/ CutoffHour \/ Crash
             \/ \E s \in Passes : (\E u \in Users : Consider(s, u)) \/ Pick(s) \/ PassEnds(s)
             \/ \E u \in Users : Confirm(u) \/ \E on \in SUBSET Channels : SetChannels(u, on)
             \/ UNCHANGED vars
    BY <1>3, OnceOther
  <1> QED BY <1>1, <1>2, <1>3 DEF Next, PassStep

LEMMA OnceAlways == Spec => [](Listed /\ HandInv /\ OnceInv)
  <1>1. Listed /\ HandInv /\ OnceInv /\ [Next]_vars => (Listed /\ HandInv /\ OnceInv)'
    BY ListedNext, HandNext, OnceNext
  <1> QED BY <1>1, ListedInit, HandInit, OnceInit, PTL DEF Spec

(* The brief of a candidate leaves once a day at most, whatever the passes,   *)
(* the poller, the clock and restarts do elsewhere: a second one needs        *)
(* something to fall between the check and the commit of that candidate.     *)
THEOREM BriefOnceADay == Spec => []OneBriefUnlessRaced
  <1>1. Listed /\ HandInv /\ OnceInv => OneBriefUnlessRaced
    BY DEF OnceInv
  <1> QED BY <1>1, OnceAlways, PTL

(* Under no other condition an offer is posted once at most, on whatever      *)
(* direct channels the candidate has, and however they change.               *)
THEOREM NeverPostedTwice == Spec => []PostedOnce
  <1>1. Listed /\ HandInv /\ OnceInv => PostedOnce
    BY DEF OnceInv
  <1> QED BY <1>1, OnceAlways, PTL

-----------------------------------------------------------------------------
(* Whom the cut-off pass must serve.                                        *)

\* Some offers have a best one, and the pool is never empty by itself.
LEMMA BestOffer ==
    ASSUME NEW S \in SUBSET Matches, S # {}
    PROVE  \E k \in S : \A m \in S : k <= m
  <1>1. S \in SUBSET Nat
    BY BriefConstants DEF Matches
  <1> QED BY <1>1, LeastNumber

LEMMA TopNotEmpty ==
    ASSUME NEW S \in SUBSET Matches, S # {}, NEW n \in Nat \ {0}
    PROVE  Top(S, n) # {}
  <1>1. PICK k \in S : \A m \in S : k <= m
    BY BestOffer
  <1>2. \A m \in S : m \in Nat
    BY BriefConstants DEF Matches
  <1>3. {m \in S : m < k} = {}
    BY <1>1, <1>2
  <1>4. Cardinality({m \in S : m < k}) = 0
    BY <1>3, FS_EmptySet
  <1> QED BY <1>4 DEF Top

\* New results push offers out of the pool, but never all that is new: the
\* best offer that was not sent is still in it.
LEMMA NewsIsNotHidden ==
    ASSUME NEW A \in SUBSET Matches, NEW B \in SUBSET Matches, NEW sent \in SUBSET A,
           A \subseteq B, NEW m \in Top(A, Pool), m \notin sent
    PROVE  Top(B, Pool) \ sent # {}
  <1>1. m \in A /\ Cardinality({k \in A : k < m}) < Pool
    BY DEF Top
  <1>2. PICK k \in B \ sent : \A j \in B \ sent : k <= j
    BY <1>1, BestOffer
  <1>3. k <= m
    BY <1>1, <1>2
  <1>4. \A j \in Matches : j \in Nat
    BY BriefConstants DEF Matches
  <1>5. {j \in B : j < k} \subseteq {j \in A : j < m}
    <2> SUFFICES ASSUME NEW j \in B, j < k PROVE j \in A /\ j < m
      OBVIOUS
    <2>1. j \in Nat /\ k \in Nat /\ m \in Nat
      BY <1>1, <1>4
    <2>2. j \in sent
      BY <1>2, <2>1
    <2> QED BY <1>3, <2>1, <2>2
  <1>6. IsFiniteSet({j \in A : j < m})
    <2>1. IsFiniteSet(Matches)
      BY BriefConstants, FS_Interval DEF Matches
    <2>2. {j \in A : j < m} \subseteq Matches
      OBVIOUS
    <2> QED BY <2>1, <2>2, FS_Subset
  <1>7. IsFiniteSet({j \in B : j < k})
    BY <1>5, <1>6, FS_Subset
  <1>8. Cardinality({j \in B : j < k}) <= Cardinality({j \in A : j < m})
    BY <1>5, <1>6, FS_Subset
  <1>9. /\ Cardinality({j \in B : j < k}) \in Nat
        /\ Cardinality({j \in A : j < m}) \in Nat
    BY <1>6, <1>7, FS_CardinalityType
  <1>10. Cardinality({j \in B : j < k}) < Pool
    BY <1>1, <1>8, <1>9, BriefConstants
  <1>11. k \in Top(B, Pool)
    BY <1>10 DEF Top
  <1> QED BY <1>11

\* A candidate whose channels and briefs do not change stays one to serve.
LEMMA StillToServe ==
    ASSUME TypeOK, AnalysedBefore, NEW u \in Users, ToServe(u), Sent(u)' = Sent(u),
           Scored(u) \subseteq Scored(u)', Eligible(u) => Eligible(u)',
           enabled'[u] = enabled[u], verified \subseteq verified'
    PROVE  ToServe(u)'
  <1>1. Email \in Usable(u)'
    BY DEF ToServe, Usable
  <1>2. Scored(u) \in SUBSET Matches /\ Scored(u)' \in SUBSET Matches /\ Sent(u) \subseteq Scored(u)
    BY DEF Scored, Sent, MatchesOf, AnalysedBefore
  <1>3. PICK A \in SUBSET Matches : A = Scored(u)
    BY <1>2
  <1>4. PICK B \in SUBSET Matches : B = Scored(u)'
    BY <1>2
  <1>5. PICK sent \in SUBSET A : sent = Sent(u)
    BY <1>2, <1>3
  <1>6. PICK m : m \in Top(A, Pool) /\ m \notin sent
    BY <1>3, <1>5 DEF ToServe, NewMatches, Top
  <1>7. Top(B, Pool) \ sent # {} /\ Top(B, Pool) \ sent \in SUBSET Matches
    <2>1. A \subseteq B
      BY <1>3, <1>4
    <2>2. Top(B, Pool) \ sent # {}
      BY <1>6, <2>1, NewsIsNotHidden
    <2> QED BY <2>2 DEF Top
  <1>8. Top(Top(B, Pool) \ sent, MaxItems) # {}
    BY <1>7, TopNotEmpty, BriefConstants
  <1>9. NewMatches(u)' = Top(Top(B, Pool) \ sent, MaxItems)
    BY <1>4, <1>5 DEF NewMatches, Top
  <1> QED BY <1>1, <1>8, <1>9 DEF ToServe

\* Served goes on when the cut-off pass keeps the candidate.
LEMMA ServedKept ==
    ASSUME NEW u \in Users, Served(u), ToServe(u) => ToServe(u)', briefs'[u] = briefs[u],
           briefs[u] > 0 \/ pass'["cutoff"] = pass["cutoff"]
    PROVE  Served(u)'
  BY DEF Served, Holds

LEMMA DuePipeline ==
    ASSUME TypeOK, HandInv, DueInv,
           \/ \E S \in SUBSET Matches : Shortlist(S) \/ ScoreWave(S)
           \/ \E m \in Matches : Drop(m)
    PROVE  DueInv'
  <1>1. /\ UNCHANGED <<ledger, briefs, due, enabled, verified>> /\ raced \subseteq raced'
        /\ \A m \in Matches : analysed[m] \in Ages => analysed'[m] = analysed[m]
        /\ \A s \in Passes : pass'[s] = pass[s] \/ (s = "scored" /\ pass'[s].at = "next")
    BY PipelineAdds
  <1>2. pass'["cutoff"] = pass["cutoff"]
    BY <1>1 DEF Passes
  <1>3. \A s \in Passes, u \in Users : Holds(s, u)' => Holds(s, u) /\ pass'[s] = pass[s]
    BY <1>1 DEF Holds, InHand
  <1>4. ASSUME NEW u \in due \ raced' PROVE Served(u)'
    <2>1. u \in Users /\ Served(u)
      BY <1>1 DEF TypeOK, DueInv
    <2>2. ASSUME ToServe(u) PROVE ToServe(u)'
      <3>1. Scored(u) # {}
        BY <2>2 DEF ToServe, NewMatches, Top
      <3>2. Scored(u) \subseteq Scored(u)' /\ Sent(u)' = Sent(u) /\ (Eligible(u) => Eligible(u)')
        BY <1>1, <2>1, <3>1, MoreResults
      <3> QED BY <1>1, <2>1, <2>2, <3>2, StillToServe DEF HandInv
    <2> QED BY <1>1, <1>2, <2>1, <2>2, ServedKept
  <1>5. \A s \in Passes : OutOf(s)' => OutOf(s) /\ pass'[s] = pass[s]
    BY <1>1 DEF OutOf
  <1>6. EmailInHand'
    BY <1>1, <1>3 DEF DueInv, EmailInHand, TypeOK
  <1> QED BY <1>1, <1>2, <1>4, <1>5, <1>6 DEF DueInv

LEMMA DueCutoff ==
    ASSUME TypeOK, HandInv, DueInv, CutoffHour
    PROVE  DueInv'
  <1>1. UNCHANGED <<analysed, ledger, briefs, enabled, verified, raced>>
    BY DEF CutoffHour, settings, history
  <1>2. pass'["cutoff"] = Started(Users, TRUE) /\ pass'["scored"] = pass["scored"]
    BY DEF CutoffHour, TypeOK, Passes
  <1>3. \A u \in due' : u \in Users \ Edits /\ ToServe(u) /\ ~Holds("scored", u)
    BY DEF CutoffHour, ToServe, Eligible
  <1>4. ASSUME NEW u \in due' PROVE Served(u)'
    <2>1. Scored(u)' = Scored(u) /\ Sent(u)' = Sent(u) /\ Eligible(u)' = Eligible(u)
      BY <1>1, <1>3, SameMatches
    <2>2. ToServe(u)'
      BY <1>1, <1>3, <2>1, StillToServe DEF HandInv
    <2> QED BY <1>2, <1>3, <2>2 DEF Served, Started
  <1>5. EmailInHand'
    BY <1>2, <1>3 DEF EmailInHand, Holds, Started, InHand, Passes
  <1>6. \A s \in Passes : OutOf(s)' => OutOf(s) /\ pass'[s] = pass[s]
    BY <1>2 DEF OutOf, Started, Passes
  <1> QED BY <1>1, <1>2, <1>3, <1>4, <1>5, <1>6 DEF DueInv, Started

LEMMA DueMidnight ==
    ASSUME TypeOK, DueInv, Midnight
    PROVE  DueInv'
  <1>1. due' = {} /\ pass'["cutoff"] = pass["cutoff"]
    BY DEF Midnight, Passes
  <1>2. \A s \in Passes, u \in Users \ raced' : ~(OutOf(s)' /\ pass'[s].user = u)
    BY PassTyped DEF Midnight, OutOf, Holds, InHand, PassType, PassRecord
  <1> QED BY <1>1, <1>2 DEF DueInv, EmailInHand

\* A pass takes a step for v, which ends with it at q: who else is to be served
\* is left alone.
LEMMA DueElsewhere ==
    ASSUME TypeOK, HandInv, DueInv, NEW s \in Passes, NEW q, pass' = [pass EXCEPT ![s] = q],
           NEW v \in Users, NEW u \in (due \ raced) \ {v}, briefs'[u] = briefs[u],
           UNCHANGED <<analysed, enabled, verified>>, \A m \in MatchesOf(u) : ledger'[m] = ledger[m],
           s = "cutoff" => pass[s].user = v \/ pass[s].at = "next",
           q.at # "idle", q.todo \in {pass[s].todo, pass[s].todo \ {v}}
    PROVE  Served(u)'
  <1>1. u \in Users /\ Served(u)
    BY DEF TypeOK, DueInv
  <1>2. ASSUME ToServe(u) PROVE ToServe(u)'
    <2>1. Scored(u)' = Scored(u) /\ Sent(u)' = Sent(u) /\ Eligible(u)' = Eligible(u)
      BY <1>1, SameMatches
    <2> QED BY <1>1, <1>2, <2>1, StillToServe DEF HandInv
  <1>3. CASE briefs[u] > 0 \/ s # "cutoff"
    <2>1. s # "cutoff" => pass'["cutoff"] = pass["cutoff"]
      BY DEF TypeOK, Passes
    <2> QED BY <1>1, <1>2, <1>3, <2>1, ServedKept
  <1>4. CASE ~(briefs[u] > 0) /\ s = "cutoff"
    <2>1. ToServe(u) /\ (u \in pass["cutoff"].todo \/ Holds("cutoff", u))
      BY <1>1, <1>4 DEF Served
    <2>2. u \in pass["cutoff"].todo
      BY <1>4, <2>1 DEF Holds, InHand
    <2>3. u \in q.todo /\ pass'["cutoff"] = q
      BY <1>4, <2>2 DEF TypeOK
    <2> QED BY <1>2, <2>1, <2>3 DEF Served
  <1> QED BY <1>3, <1>4

\* The candidate in hand, as the cut-off hour saw them, is still to be served,
\* or their messages have left.
LEMMA HeldToServe ==
    ASSUME TypeOK, HandInv, OnceInv, DueInv, NEW s \in Passes, NEW v \in due \ raced, Holds(s, v), ~OutOf(s)
    PROVE  v \in Users /\ ToServe(v)
  <1>1. v \in Users /\ Served(v)
    BY DEF TypeOK, DueInv
  <1>2. briefs[v] = 0
    BY <1>1, NoBriefYet
  <1> QED BY <1>1, <1>2 DEF Served

LEMMA DueConsider ==
    ASSUME TypeOK, HandInv, DueInv, NEW s \in Passes, NEW v \in Users, Consider(s, v)
    PROVE  DueInv'
  <1>0. pass[s] \in PassType /\ pass[s].at = "next"
    BY PassTyped DEF Consider
  <1>1. PICK q : q = Considered(s, v)
    OBVIOUS
  <1>2. /\ pass' = [pass EXCEPT ![s] = q] /\ raced \subseteq raced'
        /\ UNCHANGED <<analysed, ledger, enabled, verified, briefs, due>>
    BY <1>1 DEF Consider, settings, history
  <1>3. /\ q.todo = pass[s].todo \ {v} /\ q.age = pass[s].age
        /\ IF ShouldWait(s, v) THEN q.at = "next" ELSE q.at = "allowed" /\ q.user = v
    BY <1>0, <1>1 DEF Considered, PassType, PassRecord
  <1>4. \A t \in Passes : IF t = s THEN pass'[t] = q ELSE pass'[t] = pass[t]
    BY <1>2 DEF TypeOK
  <1>5. ASSUME NEW u \in due \ raced' PROVE Served(u)'
    <2>1. u \in Users /\ u \in due \ raced /\ Served(u)
      BY <1>2 DEF TypeOK, DueInv
    <2>2. CASE u # v
      BY <1>0, <1>2, <1>3, <2>1, <2>2, DueElsewhere
    <2>3. CASE u = v
      <3>1. ASSUME ToServe(u) PROVE ToServe(u)'
        <4>1. Scored(u)' = Scored(u) /\ Sent(u)' = Sent(u) /\ Eligible(u)' = Eligible(u)
          BY <1>2, <2>1, SameMatches
        <4> QED BY <1>2, <2>1, <3>1, <4>1, StillToServe DEF HandInv
      <3>2. CASE briefs[u] > 0 \/ s # "cutoff"
        <4>1. s # "cutoff" => pass'["cutoff"] = pass["cutoff"]
          BY <1>4 DEF Passes
        <4> QED BY <1>2, <2>1, <3>1, <3>2, <4>1, ServedKept
      <3>3. CASE ~(briefs[u] > 0) /\ s = "cutoff"
        <4>1. ToServe(u) /\ pass[s].age = 0
          BY <2>1, <3>3 DEF Served, DueInv
        <4>2. ~ShouldWait(s, v)
          BY <2>3, <3>3, <4>1, WaitingIsRight DEF ToServe
        <4>3. Holds("cutoff", u)' /\ pass'["cutoff"].at # "idle"
          BY <1>3, <1>4, <2>3, <3>3, <4>2 DEF Holds, InHand
        <4> QED BY <3>1, <4>1, <4>3 DEF Served
      <3> QED BY <3>2, <3>3
    <2> QED BY <2>2, <2>3
  <1>6. EmailInHand'
    BY <1>2, <1>3, <1>4 DEF DueInv, EmailInHand, Holds, InHand
  <1>7. \A t \in Passes : OutOf(t)' => OutOf(t) /\ pass'[t] = pass[t]
    BY <1>3, <1>4 DEF OutOf
  <1>8. pass'["cutoff"].age = 0
    BY <1>3, <1>4 DEF DueInv, Passes
  <1> QED BY <1>2, <1>5, <1>6, <1>7, <1>8 DEF DueInv

LEMMA DuePick ==
    ASSUME TypeOK, HandInv, OnceInv, DueInv, NEW s \in Passes, Pick(s)
    PROVE  DueInv'
  <1>0. pass[s] \in PassType /\ pass[s].at = "allowed" /\ ~OutOf(s)
    BY PassTyped DEF Pick, OutOf
  <1>1. PICK v \in Users : v = pass[s].user /\ Holds(s, v)
    BY <1>0, HeldTyped DEF InHand, Holds
  <1>2. UNCHANGED <<analysed, ledger, enabled, verified, briefs, due, raced>>
    BY DEF Pick, settings, history, dayVars
  <1>3. PICK q : q = IF Usable(v) = {} \/ NewMatches(v) = {} THEN NextCandidate(s)
                     ELSE [pass[s] EXCEPT !.at = "picked", !.items = NewMatches(v), !.used = Usable(v)]
    OBVIOUS
  <1>4. pass' = [pass EXCEPT ![s] = q]
    BY <1>1, <1>3 DEF Pick
  <1>5. /\ q.todo = pass[s].todo /\ q.age = pass[s].age
        /\ IF Usable(v) = {} \/ NewMatches(v) = {} THEN q.at = "next"
           ELSE q.at = "picked" /\ q.user = v /\ q.used = Usable(v)
    BY <1>0, <1>1, <1>3 DEF NextCandidate, PassType, PassRecord
  <1>6. \A t \in Passes : IF t = s THEN pass'[t] = q ELSE pass'[t] = pass[t]
    BY <1>4 DEF TypeOK
  <1>7. ASSUME v \in due \ raced PROVE ToServe(v) /\ q.at = "picked" /\ q.user = v /\ Email \in q.used
    <2>1. ToServe(v)
      BY <1>0, <1>1, <1>7, HeldToServe
    <2> QED BY <1>5, <2>1 DEF ToServe
  <1>8. ASSUME NEW u \in due \ raced PROVE Served(u)'
    <2>1. u \in Users /\ Served(u)
      BY DEF TypeOK, DueInv
    <2>2. CASE u # v
      <3>1. u \in (due \ raced) \ {v} /\ q.at # "idle" /\ q.todo \in {pass[s].todo, pass[s].todo \ {v}}
        BY <1>5, <2>2
      <3>2. pass[s].user = v /\ \A m \in MatchesOf(u) : ledger'[m] = ledger[m]
        BY <1>1, <1>2
      <3>3. briefs'[u] = briefs[u] /\ UNCHANGED <<analysed, enabled, verified>>
        BY <1>2
      <3> QED BY <1>4, <3>1, <3>2, <3>3, DueElsewhere
    <2>3. CASE u = v
      <3>1. ToServe(u)'
        <4>1. Scored(u)' = Scored(u) /\ Sent(u)' = Sent(u) /\ Eligible(u)' = Eligible(u)
          BY <1>2, <2>1, SameMatches
        <4> QED BY <1>2, <1>7, <2>1, <2>3, <4>1, StillToServe DEF HandInv
      <3>2. s # "cutoff" => pass'["cutoff"] = pass["cutoff"]
        BY <1>6 DEF Passes
      <3>3. s = "cutoff" => Holds("cutoff", u)' /\ pass'["cutoff"].at # "idle"
        BY <1>6, <1>7, <2>3 DEF Holds, InHand
      <3>4. CASE s = "cutoff"
        BY <3>1, <3>3, <3>4 DEF Served
      <3>5. CASE s # "cutoff"
        BY <1>2, <2>1, <3>1, <3>2, <3>5, ServedKept
      <3> QED BY <3>4, <3>5
    <2> QED BY <2>2, <2>3
  <1>9. EmailInHand'
    BY <1>1, <1>2, <1>5, <1>6, <1>7 DEF DueInv, EmailInHand, Holds, InHand
  <1>10. \A t \in Passes : OutOf(t)' => OutOf(t) /\ pass'[t] = pass[t]
    BY <1>5, <1>6 DEF OutOf
  <1>11. pass'["cutoff"].age = 0
    BY <1>5, <1>6 DEF DueInv, Passes
  <1> QED BY <1>2, <1>8, <1>9, <1>10, <1>11 DEF DueInv

LEMMA DueDispatch ==
    ASSUME TypeOK, HandInv, OnceInv, DueInv, NEW s \in Passes, Dispatch(s)
    PROVE  DueInv'
  <1>0. pass[s] \in PassType /\ pass[s].at = "picked" /\ ~OutOf(s)
    BY PassTyped DEF Dispatch, OutOf
  <1>1. PICK v \in Users : v = pass[s].user /\ Holds(s, v)
    BY <1>0, SentInHand
  <1>2. PICK accepted \in SUBSET (pass[s].used \ {Email}) :
          /\ pass' = [pass EXCEPT ![s] =
                        [@ EXCEPT !.at = "dispatched", !.out = (accepted # {})]]
          /\ briefs' = IF accepted = {} THEN briefs
                       ELSE [briefs EXCEPT ![pass[s].user] = Capped(@)]
    BY DEF Dispatch
  <1>3. PICK q : q = [pass[s] EXCEPT !.at = "dispatched", !.out = (accepted # {})]
    OBVIOUS
  <1>4. /\ pass' = [pass EXCEPT ![s] = q] /\ q.at = "dispatched" /\ q.todo = pass[s].todo
        /\ q.user = v /\ q.used = pass[s].used /\ q.out = (accepted # {}) /\ q.age = pass[s].age
    BY <1>0, <1>1, <1>2, <1>3 DEF PassType, PassRecord
  <1>5. UNCHANGED <<analysed, ledger, enabled, verified, due, raced>>
    BY DEF Dispatch, settings, dayVars
  <1>6. \A t \in Passes : IF t = s THEN pass'[t] = q ELSE pass'[t] = pass[t]
    BY <1>4 DEF TypeOK
  <1>7. /\ \A u \in Users : u # v => briefs'[u] = briefs[u]
        /\ accepted # {} /\ v \notin raced => briefs'[v] > 0
        /\ accepted = {} => briefs'[v] = briefs[v]
    <2>1. v \notin raced => briefs[v] = 0
      BY <1>0, <1>1, NoBriefYet
    <2> QED BY <1>1, <1>2, <2>1, CountTyped DEF TypeOK
  <1>8. ASSUME NEW u \in due \ raced PROVE Served(u)'
    <2>1. u \in Users /\ Served(u)
      BY DEF TypeOK, DueInv
    <2>2. CASE u # v
      <3>1. u \in (due \ raced) \ {v} /\ q.at # "idle" /\ q.todo \in {pass[s].todo, pass[s].todo \ {v}}
        BY <1>4, <2>2
      <3>2. pass[s].user = v /\ \A m \in MatchesOf(u) : ledger'[m] = ledger[m]
        BY <1>1, <1>5
      <3>3. briefs'[u] = briefs[u] /\ UNCHANGED <<analysed, enabled, verified>>
        BY <1>5, <1>7, <2>1, <2>2
      <3>4. pass' = [pass EXCEPT ![s] = q]
        BY <1>4
      <3> QED BY <3>1, <3>2, <3>3, <3>4, DueElsewhere
    <2>3. CASE u = v /\ accepted # {}
      BY <1>7, <2>3 DEF Served
    <2>4. CASE u = v /\ accepted = {}
      <3>1. ASSUME ToServe(u) PROVE ToServe(u)'
        <4>1. Scored(u)' = Scored(u) /\ Sent(u)' = Sent(u) /\ Eligible(u)' = Eligible(u)
          BY <1>5, <2>1, SameMatches
        <4> QED BY <1>5, <2>1, <3>1, <4>1, StillToServe DEF HandInv
      <3>2. s # "cutoff" => pass'["cutoff"] = pass["cutoff"]
        BY <1>6 DEF Passes
      <3>3. s = "cutoff" => Holds("cutoff", u)' /\ pass'["cutoff"].at # "idle"
        BY <1>4, <1>6, <2>4 DEF Holds, InHand
      <3>4. CASE s = "cutoff"
        BY <1>7, <2>1, <2>4, <3>1, <3>3, <3>4 DEF Served
      <3>5. CASE s # "cutoff"
        BY <1>7, <2>1, <2>4, <3>1, <3>2, <3>5, ServedKept
      <3> QED BY <3>4, <3>5
    <2> QED BY <2>2, <2>3, <2>4
  <1>9. EmailInHand'
    <2> SUFFICES ASSUME NEW u \in due \ raced, NEW t \in Passes, Holds(t, u)', pass'[t].at # "allowed"
                 PROVE  Email \in pass'[t].used
      BY <1>5 DEF EmailInHand
    <2>1. Holds(t, u) /\ pass[t].at # "allowed" /\ pass'[t].used = pass[t].used
      BY <1>0, <1>1, <1>4, <1>6 DEF Holds, InHand
    <2> QED BY <2>1 DEF DueInv, EmailInHand
  <1>10. ASSUME NEW u \in Users \ raced, NEW t \in Passes, OutOf(t)', pass'[t].user = u
         PROVE  briefs'[u] > 0
    <2>1. CASE t = s
      BY <1>4, <1>6, <1>7, <1>10, <2>1 DEF OutOf
    <2>2. CASE t # s
      <3>1. OutOf(t) /\ pass[t].user = u /\ Holds(t, u)
        BY <1>6, <1>10, <2>2 DEF OutOf, Holds, InHand
      <3>2. u # v
        BY <1>1, <2>2, <3>1 DEF HandInv, OneHolder
      <3> QED BY <1>7, <3>1, <3>2 DEF DueInv
    <2> QED BY <2>1, <2>2
  <1>11. pass'["cutoff"].age = 0
    BY <1>4, <1>6 DEF DueInv, Passes
  <1> QED BY <1>5, <1>8, <1>9, <1>10, <1>11 DEF DueInv

\* The commit of a brief counts it, unless its messages have left already.
LEMMA DueCommit ==
    ASSUME TypeOK, HandInv, OnceInv, DueInv, NEW s \in Passes, Record(s), ~Conflict(s)
    PROVE  DueInv'
  <1>0. pass[s] \in PassType /\ pass[s].at = "dispatched"
    BY PassTyped DEF Record
  <1>1. PICK v \in Users : v = pass[s].user /\ Holds(s, v)
    BY <1>0, SentInHand
  <1>2. PICK q : q = NextCandidate(s)
    OBVIOUS
  <1>3. /\ pass' = [pass EXCEPT ![s] = q] /\ q.at = "next" /\ q.todo = pass[s].todo
        /\ q.age = pass[s].age
    BY <1>0, <1>2 DEF Record, NextCandidate, PassType, PassRecord
  <1>4. /\ ledger' = [m \in Matches |-> IF m \in pass[s].items THEN 0 ELSE ledger[m]]
        /\ briefs' = IF Email \in pass[s].used /\ ~pass[s].out THEN [briefs EXCEPT ![v] = Capped(@)]
                     ELSE briefs
        /\ UNCHANGED <<analysed, enabled, verified, due, raced>>
    BY <1>1 DEF Record, settings
  <1>5. \A t \in Passes : IF t = s THEN pass'[t] = q ELSE pass'[t] = pass[t]
    BY <1>3 DEF TypeOK
  <1>6. \A u \in Users : briefs[u] \in 0..2 /\ (u # v => briefs'[u] = briefs[u])
    BY <1>4 DEF TypeOK
  <1>7. ASSUME NEW u \in (due \ raced) \ {v} PROVE Served(u)'
    <2>0. u \in Users
      BY DEF TypeOK
    <2>1. \A m \in pass[s].items : Owner[m] = v
      BY <1>0, <1>1 DEF PassType
    <2>2. \A m \in MatchesOf(u) : m \in Matches /\ m \notin pass[s].items
      BY <2>1 DEF MatchesOf
    <2>3. \A m \in MatchesOf(u) : ledger'[m] = ledger[m]
      BY <1>4, <2>2
    <2> QED BY <1>1, <1>3, <1>4, <1>6, <2>0, <2>3, DueElsewhere
  <1>8. ASSUME v \in due \ raced PROVE briefs'[v] > 0
    <2>1. Email \in pass[s].used
      BY <1>0, <1>1, <1>8 DEF DueInv, EmailInHand
    <2>2. CASE pass[s].out
      <3>1. briefs[v] > 0
        BY <1>0, <1>1, <1>8, <2>2 DEF DueInv, OutOf
      <3> QED BY <1>4, <2>2, <3>1
    <2>3. CASE ~pass[s].out
      <3>1. briefs' = [briefs EXCEPT ![v] = Capped(@)]
        BY <1>4, <2>1, <2>3
      <3>2. briefs'[v] = Capped(briefs[v])
        BY <3>1 DEF TypeOK
      <3> QED BY <1>6, <3>2 DEF Capped
    <2> QED BY <2>2, <2>3
  <1>9. \A u \in due' \ raced' : Served(u)'
    BY <1>4, <1>7, <1>8 DEF Served
  <1>10. EmailInHand'
    BY <1>3, <1>4, <1>5 DEF DueInv, EmailInHand, Holds, InHand
  <1>11. \A t \in Passes : OutOf(t)' => OutOf(t) /\ pass'[t] = pass[t] /\ t # s
    BY <1>3, <1>5 DEF OutOf
  <1>12. ASSUME NEW u \in Users \ raced', NEW t \in Passes, OutOf(t)', pass'[t].user = u
         PROVE  briefs'[u] > 0
    <2>1. u \notin raced /\ OutOf(t) /\ pass[t].user = u /\ t # s /\ Holds(t, u)
      BY <1>4, <1>11, <1>12 DEF OutOf, Holds, InHand
    <2>2. u # v
      BY <1>1, <2>1 DEF HandInv, OneHolder
    <2> QED BY <1>6, <2>1, <2>2 DEF DueInv
  <1>13. pass'["cutoff"].age = 0
    BY <1>3, <1>5 DEF DueInv, Passes
  <1> QED BY <1>4, <1>9, <1>10, <1>12, <1>13 DEF DueInv

\* Passes that go idle: a refused commit, the end of the list, a restart.
LEMMA DueIdle ==
    ASSUME TypeOK, HandInv, DueInv,
           Crash \/ \E s \in Passes : PassEnds(s) \/ (Record(s) /\ Conflict(s))
    PROVE  DueInv'
  <1>1. UNCHANGED <<analysed, ledger, briefs, enabled, verified>> /\ raced \subseteq raced' /\ due' \subseteq due
    BY DEF Crash, PassEnds, Record, history, settings, dayVars, NotWaiting
  <1>2. \A t \in Passes : pass'[t] = pass[t] \/ pass'[t] = IdlePass
    BY DEF Crash, PassEnds, Record, TypeOK
  <1>3. ASSUME NEW u \in due' \ raced', pass'["cutoff"] # pass["cutoff"] PROVE briefs[u] > 0
    <2>1. u \in Users /\ Served(u)
      BY <1>1 DEF TypeOK, DueInv
    <2>2. CASE \E s \in Passes : PassEnds(s)
      <3>1. PICK s \in Passes : PassEnds(s)
        BY <2>2
      <3>2. s = "cutoff"
        BY <1>3, <3>1 DEF PassEnds, TypeOK, Passes
      <3> QED BY <2>1, <3>1, <3>2 DEF PassEnds, Served, Holds, InHand
    <2>3. CASE Crash \/ \E s \in Passes : Record(s) /\ Conflict(s)
      <3>1. u \in NotWaiting
        BY <1>3, <2>3 DEF Crash, Record, TypeOK, Passes
      <3> QED BY <2>1, <3>1 DEF NotWaiting, Served, Holds
    <2> QED BY <2>2, <2>3
  <1>4. ASSUME NEW u \in due' \ raced' PROVE Served(u)'
    <2>1. u \in Users /\ Served(u)
      BY <1>1 DEF TypeOK, DueInv
    <2>2. ASSUME ToServe(u) PROVE ToServe(u)'
      <3>1. Scored(u)' = Scored(u) /\ Sent(u)' = Sent(u) /\ Eligible(u)' = Eligible(u)
        BY <1>1, <2>1, SameMatches
      <3> QED BY <1>1, <2>1, <2>2, <3>1, StillToServe DEF HandInv
    <2> QED BY <1>1, <1>3, <2>1, <2>2, ServedKept
  <1>5. EmailInHand'
    BY <1>1, <1>2 DEF DueInv, EmailInHand, Holds, InHand, IdlePass
  <1>6. \A t \in Passes : OutOf(t)' => OutOf(t) /\ pass'[t] = pass[t]
    BY <1>2 DEF OutOf, IdlePass
  <1>7. pass'["cutoff"].age = 0
    BY <1>2 DEF DueInv, Passes, IdlePass
  <1> QED BY <1>1, <1>4, <1>5, <1>6, <1>7 DEF DueInv

\* Channels change for who is not due, and a confirmed address stays confirmed.
LEMMA DueSettings ==
    ASSUME TypeOK, HandInv, DueInv,
           \/ \E u \in Users : Confirm(u) \/ \E on \in SUBSET Channels : SetChannels(u, on)
           \/ UNCHANGED vars
    PROVE  DueInv'
  <1>1. /\ UNCHANGED <<due, raced, pass, briefs, analysed, ledger>> /\ verified \subseteq verified'
        /\ \A u \in Users \ Edits : enabled'[u] = enabled[u]
    BY DEF Confirm, SetChannels, vars, dayVars, history, TypeOK
  <1>2. ASSUME NEW u \in due \ raced PROVE Served(u)'
    <2>1. u \in Users \ Edits /\ Served(u)
      BY DEF TypeOK, DueInv
    <2>2. ASSUME ToServe(u) PROVE ToServe(u)'
      <3>1. Scored(u)' = Scored(u) /\ Sent(u)' = Sent(u) /\ Eligible(u)' = Eligible(u)
        BY <1>1, <2>1, SameMatches
      <3> QED BY <1>1, <2>1, <2>2, <3>1, StillToServe DEF HandInv
    <2> QED BY <1>1, <2>1, <2>2, ServedKept
  <1> QED BY <1>1, <1>2 DEF DueInv, EmailInHand, Holds, OutOf

LEMMA DueNext == Listed /\ HandInv /\ OnceInv /\ DueInv /\ [Next]_vars => DueInv'
  <1> SUFFICES ASSUME TypeOK, HandInv, OnceInv, DueInv, [Next]_vars PROVE DueInv'
    BY DEF Listed
  <1>1. CASE \/ \E S \in SUBSET Matches : Shortlist(S) \/ ScoreWave(S)
             \/ \E m \in Matches : Drop(m)
    BY <1>1, DuePipeline
  <1>2. CASE CutoffHour
    BY <1>2, DueCutoff
  <1>3. CASE Midnight
    BY <1>3, DueMidnight
  <1>4. CASE \E s \in Passes : (\E u \in Users : Consider(s, u)) \/ Pick(s) \/ Dispatch(s)
    BY <1>4, DueConsider, DuePick, DueDispatch
  <1>5. CASE \E s \in Passes : Record(s)
    BY <1>5, DueCommit, DueIdle
  <1>6. CASE Crash \/ \E s \in Passes : PassEnds(s)
    BY <1>6, DueIdle
  <1>7. CASE \/ \E u \in Users : Confirm(u) \/ \E on \in SUBSET Channels : SetChannels(u, on)
             \/ UNCHANGED vars
    BY <1>7, DueSettings
  <1> QED BY <1>1, <1>2, <1>3, <1>4, <1>5, <1>6, <1>7 DEF Next, PassStep

(* The day does not end before everybody the cut-off hour found with something *)
(* to receive, a usable address and no pass of their own under way has had a   *)
(* brief, from either pass, and whatever results come meanwhile; but for those *)
(* whose turn a pass that was cut short had not reached, and those raced for. *)
THEOREM NobodyIsHeldBack == Spec => NobodyHeldBack
  <1> DEFINE I == Listed /\ HandInv /\ OnceInv /\ DueInv
  <1>1. Init => I
    BY ListedInit, HandInit, OnceInit
  <1>2. I /\ [Next]_vars => I'
    BY ListedNext, HandNext, OnceNext, DueNext
  <1>3. I => [Midnight => \A u \in due \ raced : briefs[u] > 0]_vars
    <2>1. I /\ Midnight => \A u \in due \ raced : briefs[u] > 0
      BY DEF Midnight, DueInv, Served
    <2> QED BY <2>1
  <1> QED BY <1>1, <1>2, <1>3, PTL DEF Spec, NobodyHeldBack
===============================================================================
