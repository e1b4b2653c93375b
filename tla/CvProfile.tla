------------------------------- MODULE CvProfile -------------------------------
(***************************************************************************)
(* The profile of one candidate (src/app/modules/cv): imports of a CV, the    *)
(* verification and the preferences steps of the onboarding wizard, in any    *)
(* order and several at once. A request reads the row at its beginning; its    *)
(* UPDATE carries the columns that changed and holds the row until its commit. *)
(***************************************************************************)
EXTENDS Naturals, FiniteSets

CONSTANTS
  WizardRequests, \* requests in progress at the same time
  Uploads,        \* <<kind detected from the content type, kind the name tells>>
  Forms,          \* what the form of the verification sends of the availability
  MaxUploads,     \* bound of the checks: imports
  MaxLostCommits  \* bound of the checks: commits that fail after the file is saved

Form == [status : {"unset", "immediate", "date", "notice"}, date : BOOLEAN, notice : BOOLEAN]

ASSUME WizardConstants ==
  /\ Uploads \subseteq {"pdf", "docx"} \X {"pdf", "docx"}
  /\ Forms \subseteq Form
  /\ "unlocked" \notin WizardRequests
  /\ MaxUploads \in Nat /\ MaxLostCommits \in Nat

VARIABLES
  profile,  \* the row of candidate_profiles, or NoProfile
  files,    \* kind of file -> version of the CV stored under it, 0 if none
  wizard,   \* WizardRequests -> what each has read and written
  rowLock,  \* the request whose statement holds the row, or Nobody
  uploads,  \* imports started: the version of the last CV
  fired,    \* ProfileOnboardingCompleted events
  lost      \* commits lost after the file was saved

wizardVars == <<profile, files, wizard, rowLock, uploads, fired, lost>>

Kinds == {"pdf", "docx"}
Unlocked == "unlocked"
NoProfile == [status |-> "none", matched |-> FALSE, text |-> 0, name |-> "pdf",
              availability |-> "immediate", date |-> FALSE, notice |-> FALSE]
HasProfile(row) == row.status # "none"
Resting == [op |-> "idle"]

WizardInit ==
  /\ profile = NoProfile
  /\ files = [k \in Kinds |-> 0]
  /\ wizard = [q \in WizardRequests |-> Resting]
  /\ rowLock = Unlocked
  /\ uploads = 0 /\ fired = 0 /\ lost = 0

Doing(q, op) == wizard[q].op = op
Becomes(q, request) == wizard' = [wizard EXCEPT ![q] = request]

(* The UPDATE of the columns whose value is not the one read.                 *)
Changed(row, seen, new) == [c \in DOMAIN row |-> IF new[c] # seen[c] THEN new[c] ELSE row[c]]

-----------------------------------------------------------------------------
(* import_cv: the text and the model first, then the row as it is by then      *)

ImportParses(q, upload) ==
  /\ Doing(q, "idle")
  /\ uploads < MaxUploads
  /\ uploads' = uploads + 1
  /\ Becomes(q, [op |-> "parsed", version |-> uploads + 1, kind |-> upload[1], name |-> upload[2]])
  /\ UNCHANGED <<profile, files, rowLock, fired, lost>>

(* An unreadable file, the model unavailable or its answer useless: an         *)
(* incident, and nothing else.                                                *)
ImportFails(q) ==
  /\ Doing(q, "parsed")
  /\ Becomes(q, Resting)
  /\ UNCHANGED <<profile, files, rowLock, uploads, fired, lost>>

ImportReads(q) ==
  /\ Doing(q, "parsed")
  /\ Becomes(q, [op |-> "read", version |-> wizard[q].version, kind |-> wizard[q].kind,
                 name |-> wizard[q].name, seen |-> profile])
  /\ UNCHANGED <<profile, files, rowLock, uploads, fired, lost>>

(* Back to draft only while onboarding was never finished.                     *)
Imported(seen, request) ==
  [seen EXCEPT !.text = request.version, !.name = request.name,
               !.status = IF seen.matched THEN @ ELSE "draft"]

(* The flush: an INSERT meeting the row of another import is refused, an        *)
(* UPDATE waits for the row.                                                  *)
ImportWrites(q) ==
  /\ Doing(q, "read")
  /\ rowLock = Unlocked
  /\ IF HasProfile(profile) /\ ~HasProfile(wizard[q].seen)
     THEN Becomes(q, Resting) /\ UNCHANGED rowLock
     ELSE /\ Becomes(q, [wizard[q] EXCEPT !.op = "written"])
          /\ rowLock' = q
  /\ UNCHANGED <<profile, files, uploads, fired, lost>>

\* The file is saved as soon as the CV is parsed.
SavedWhenRead(q) ==
  /\ Doing(q, "read")
  /\ files' = [k \in Kinds |-> IF k = wizard[q].kind THEN wizard[q].version ELSE 0]
  /\ Becomes(q, [wizard[q] EXCEPT !.op = "saved"])
  /\ UNCHANGED <<profile, rowLock, uploads, fired, lost>>

(* save_original_file: the file of the other kind goes.                        *)
ImportSaves(q) ==
  /\ Doing(q, "written")
  /\ files' = [k \in Kinds |-> IF k = wizard[q].kind THEN wizard[q].version ELSE 0]
  /\ Becomes(q, [wizard[q] EXCEPT !.op = "saved"])
  /\ UNCHANGED <<profile, rowLock, uploads, fired, lost>>

ImportCommits(q) ==
  /\ Doing(q, "saved")
  /\ rowLock \in {q, Unlocked}
  /\ profile' = Changed(profile, wizard[q].seen, Imported(wizard[q].seen, wizard[q]))
  /\ rowLock' = Unlocked
  /\ Becomes(q, Resting)
  /\ UNCHANGED <<files, uploads, fired, lost>>

ImportLosesCommit(q) ==
  /\ Doing(q, "saved")
  /\ lost < MaxLostCommits
  /\ lost' = lost + 1
  /\ rowLock' = Unlocked
  /\ Becomes(q, Resting)
  /\ UNCHANGED <<profile, files, uploads, fired>>

-----------------------------------------------------------------------------
(* The wizard                                                                *)

WizardReads(q, op) ==
  /\ Doing(q, "idle")
  /\ HasProfile(profile)
  /\ Becomes(q, [op |-> op, seen |-> profile])
  /\ UNCHANGED <<profile, files, rowLock, uploads, fired, lost>>

WizardCommits(q, new) ==
  /\ rowLock = Unlocked
  /\ profile' = Changed(profile, wizard[q].seen, new)
  /\ Becomes(q, Resting)
  /\ UNCHANGED <<files, rowLock, uploads, lost>>

(* What apply_verification makes of the availability sent: the field of the    *)
(* other status is cleared, if a status is sent. An unavailable candidate is    *)
(* stored like an immediate one.                                              *)
Verified(seen, form) ==
  [seen EXCEPT
    !.status = IF seen.matched THEN "complete" ELSE @,
    !.availability = IF form.status = "unset" THEN @ ELSE form.status,
    !.date = IF form.status \in {"immediate", "notice"} THEN FALSE ELSE @ \/ form.date,
    !.notice = IF form.status \in {"immediate", "date"} THEN FALSE ELSE @ \/ form.notice]

ApplyVerification(q) ==
  /\ Doing(q, "verification")
  /\ \E form \in Forms : WizardCommits(q, Verified(wizard[q].seen, form))
  /\ UNCHANGED fired

(* The first completion sends the event that starts a matching run.            *)
ApplyPreferences(q) ==
  /\ Doing(q, "preferences")
  /\ WizardCommits(q, [wizard[q].seen EXCEPT !.status = "complete", !.matched = TRUE])
  /\ fired' = IF wizard[q].seen.matched THEN fired ELSE fired + 1

WizardStep(q) ==
  \/ \E upload \in Uploads : ImportParses(q, upload)
  \/ ImportFails(q) \/ ImportReads(q) \/ ImportWrites(q) \/ ImportSaves(q)
  \/ ImportCommits(q) \/ ImportLosesCommit(q)
  \/ \E op \in {"verification", "preferences"} : WizardReads(q, op)
  \/ ApplyVerification(q) \/ ApplyPreferences(q)

WizardNext == \E q \in WizardRequests : WizardStep(q)

WizardSpec == WizardInit /\ [][WizardNext]_wizardVars

-----------------------------------------------------------------------------
WizardTypeOK ==
  /\ profile.status \in {"none", "draft", "complete"}
  /\ profile.text \in 0..uploads
  /\ profile.availability \in {"immediate", "date", "notice"}
  /\ files \in [Kinds -> 0..MaxUploads]
  /\ rowLock \in WizardRequests \cup {Unlocked}
  /\ fired \in Nat /\ lost \in 0..MaxLostCommits

(* get_cv_file: the kind is told by the name of the row.                       *)
Downloaded == files[profile.name]

(* Whichever imports overlap, what is stored on disk is the CV the profile was   *)
(* made of, and nothing of another: the row is held from the flush to the        *)
(* commit, and the file is replaced in between. A commit that fails after the     *)
(* save breaks it until the next import.                                        *)
FileIsTheProfile ==
  rowLock = Unlocked /\ lost = 0 =>
    \E kind \in Kinds : files = [k \in Kinds |-> IF k = kind THEN profile.text ELSE 0]

(* "Returns (path, filename, content_type) for downloading the original uploaded  *)
(* file back": the kind told by the name of the row is that of the file. An import *)
(* does not write the name it read, though another import changed it since.        *)
DownloadIsTheCv ==
  HasProfile(profile) /\ rowLock = Unlocked /\ lost = 0 => Downloaded = profile.text

(* "Never fired again for that account afterwards."                              *)
OnboardingFiresOnce == fired <= 1

=============================================================================
