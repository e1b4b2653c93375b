---- MODULE People ----
(* The components that act on what a person stores, side by side. They share  *)
(* no table: each behaviour picks one of them, `part`, and moves only that    *)
(* one, so that the states explored are the sum of theirs, not the product.   *)
EXTENDS Incidents, Announcements, AccountDeletion, Accounts, CvProfile,
        CvOptimisation, Opportunities, RateLimit, ModuleGraph, AdminStatistics

VARIABLE part

peopleVars == <<part, incidentVars, announcementVars, deletionVars, accountVars, wizardVars, cvVars,
                oppVars, rateVars, graphVars, screenVars>>

Parts == {"incidents", "announcements", "deletion", "accounts", "profile",
          "variants", "opportunities", "rates", "graph", "screens"}

\* The parts that are not explored stay in one of their initial states.
PeopleInit ==
  /\ part \in Parts
  /\ part = "announcements" \/ active = Members
  /\ part = "deletion" \/ data = {}
  /\ part = "variants" \/ (cv = (CHOOSE c \in Cvs : TRUE) /\ variant = NoVariant)
  /\ part = "rates" \/ backend = "memory"
  /\ part = "screens" \/ people = [f \in Folk |-> Absent]
  /\ part = "graph" \/ dependsOn = [n \in Names |-> << >>]
  /\ IncidentInit /\ AnnouncementInit /\ DeletionInit /\ AccountInit /\ WizardInit
  /\ CvInit /\ OppInit /\ RateInit /\ GraphInit /\ ScreensInit

Alone(p) ==
  /\ part = p /\ UNCHANGED part
  /\ IF p = "incidents" THEN TRUE ELSE UNCHANGED incidentVars
  /\ IF p = "announcements" THEN TRUE ELSE UNCHANGED announcementVars
  /\ IF p = "deletion" THEN TRUE ELSE UNCHANGED deletionVars
  /\ IF p = "accounts" THEN TRUE ELSE UNCHANGED accountVars
  /\ IF p = "profile" THEN TRUE ELSE UNCHANGED wizardVars
  /\ IF p = "variants" THEN TRUE ELSE UNCHANGED cvVars
  /\ IF p = "opportunities" THEN TRUE ELSE UNCHANGED oppVars
  /\ IF p = "rates" THEN TRUE ELSE UNCHANGED rateVars
  /\ IF p = "graph" THEN TRUE ELSE UNCHANGED graphVars
  /\ IF p = "screens" THEN TRUE ELSE UNCHANGED screenVars

PeopleNext ==
  \/ Alone("incidents") /\ IncidentNext
  \/ Alone("announcements") /\ AnnouncementNext
  \/ Alone("deletion") /\ DeletionNext
  \/ Alone("accounts") /\ AccountNext
  \/ Alone("profile") /\ WizardNext
  \/ Alone("variants") /\ CvNext
  \/ Alone("opportunities") /\ OppNext
  \/ Alone("rates") /\ RateNext
  \/ Alone("graph") /\ GraphNext
  \/ Alone("screens") /\ ScreensNext

PeopleSpec == PeopleInit /\ [][PeopleNext]_peopleVars

(* The screens agree whatever happens to the tables they read. Elsewhere the    *)
(* tables stay empty: it is enough to look when they move.                      *)
ScreensTellOneStory == part = "screens" => ScreensAgree

\* The component that moves keeps its variables in the types its module declares.
PeopleTypeOK ==
  /\ part = "incidents" => IncidentTypeOK
  /\ part = "announcements" => AnnouncementTypeOK
  /\ part = "deletion" => DeletionTypeOK
  /\ part = "accounts" => AccountTypeOK
  /\ part = "profile" => WizardTypeOK
  /\ part = "variants" => CvTypeOK
  /\ part = "opportunities" => OppTypeOK
  /\ part = "rates" => RateTypeOK
  /\ part = "graph" => GraphTypeOK
  /\ part = "screens" => ScreenTypeOK
====
