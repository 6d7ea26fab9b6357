---------------------------- MODULE VolumeListing ----------------------------
(***************************************************************************)
(* GetVolumeByName (pkg/cloud/cds.go:158-195): all volumes are listed page *)
(* by page and searched for a name, while volumes come and go.             *)
(*                                                                         *)
(* CdsProvision takes the lookup for one step.  Here it is one step for    *)
(* each page, and the properties say how far that is the same: as long as  *)
(* no two volumes have the name at the same time, which CdsProvision       *)
(* proves.                                                                 *)
(***************************************************************************)
EXTENDS Naturals, FiniteSets

CONSTANTS
    Ids,         \* the volume ids, in the order in which the cloud lists them
    MaxKeys,     \* the size of a page
    NotFound, MultiVolumes, Failed,   \* the answers that are no volume
    Nil,         \* no answer yet
    Faults,      \* the kinds of faults the environment may produce
    MaxFaults    \* bound on the number of faults in a behaviour

ASSUME ConstantsAssumption ==
    /\ Ids \subseteq Nat /\ IsFiniteSet(Ids)
    /\ MaxKeys \in Nat \ {0}
    /\ MaxFaults \in Nat
    /\ Faults \subseteq {"list_error"}

Refusals == {NotFound, MultiVolumes, Failed}

ASSUME AnswersAssumption ==
    /\ Nil \notin Ids \cup Refusals
    /\ Ids \cap Refusals = {}
    /\ NotFound # MultiVolumes /\ Failed \notin {NotFound, MultiVolumes}

VARIABLES
    vols,        \* vols[i]: whether there is a volume, and its name
    pc,          \* "idle", "list" while pages are fetched, "done"
    marker,      \* where the next page begins
    volumes,     \* the volumes of that name found so far
    answer,      \* what GetVolumeByName returned
    truths,      \* history: what a look at all volumes would have answered
    faults       \* the number of faults so far

vars == <<vols, pc, marker, volumes, answer, truths, faults>>

-----------------------------------------------------------------------------
(* Data.                                                                   *)

Answers == Ids \cup Refusals

\* The volumes of that name.
Named(v) == {i \in Ids : v[i] = "name"}

\* What the volumes found are answered with.
Outcome(found) ==
    IF found = {} THEN {NotFound}
    ELSE IF \E i, j \in found : i # j THEN {MultiVolumes}
    ELSE found

Init ==
    /\ vols \in [Ids -> {"none", "name", "other"}]
    /\ \A i, j \in Named(vols) : i = j
    /\ pc = "idle"
    /\ marker = 0
    /\ volumes = {}
    /\ answer = Nil
    /\ truths = {}
    /\ faults = 0

-----------------------------------------------------------------------------
(* The cloud.                                                              *)

Look == truths' = IF pc = "list" THEN truths \cup Outcome(Named(vols')) ELSE truths

\* A volume is created; no other one has the name.
Create(i) ==
    /\ vols[i] = "none"
    /\ \E name \in {"name", "other"} :
          /\ name = "name" => Named(vols) = {}
          /\ vols' = [vols EXCEPT ![i] = name]
    /\ Look
    /\ UNCHANGED <<pc, marker, volumes, answer, faults>>

Delete(i) ==
    /\ vols[i] # "none"
    /\ vols' = [vols EXCEPT ![i] = "none"]
    /\ Look
    /\ UNCHANGED <<pc, marker, volumes, answer, faults>>

\* What is still to be listed, and the page of it that ListCDSVolume returns.
Rest == {i \in Ids : vols[i] # "none" /\ marker <= i}

Page == {i \in Rest : Cardinality({j \in Rest : j < i}) < MaxKeys}

-----------------------------------------------------------------------------
(* GetVolumeByName.                                                        *)

GetVolumeByName ==
    /\ pc = "idle"
    /\ pc' = "list"
    /\ marker' = 0
    /\ volumes' = {}
    /\ truths' = Outcome(Named(vols))
    /\ UNCHANGED <<vols, answer, faults>>

\* IsTruncated: go on at NextMarker, the first volume after the page.
NextPage ==
    /\ Page # Rest
    /\ \E next \in Rest \ Page :
          /\ \A i \in Rest \ Page : next <= i
          /\ marker' = next
    /\ UNCHANGED <<pc, answer>>

LastPage ==
    /\ Page = Rest
    /\ pc' = "done"
    /\ answer' \in Outcome(volumes')
    /\ UNCHANGED marker

\* Mutant of ListPage: only the volumes of the last page are kept.
ListPageForgets ==
    /\ pc = "list"
    /\ volumes' = Named(vols) \cap Page
    /\ NextPage \/ LastPage
    /\ UNCHANGED <<vols, truths, faults>>

\* ListCDSVolume, and the search of its page for the name.
ListPage ==
    /\ pc = "list"
    /\ volumes' = volumes \cup (Named(vols) \cap Page)
    /\ NextPage \/ LastPage
    /\ UNCHANGED <<vols, truths, faults>>

\* ListCDSVolume fails, and GetVolumeByName with it.
ListFails ==
    /\ pc = "list"
    /\ "list_error" \in Faults /\ faults < MaxFaults
    /\ faults' = faults + 1
    /\ pc' = "done"
    /\ answer' = Failed
    /\ UNCHANGED <<vols, marker, volumes, truths>>

-----------------------------------------------------------------------------
Next ==
    \/ \E i \in Ids : Create(i) \/ Delete(i)
    \/ GetVolumeByName
    \/ ListPage
    \/ ListFails

Spec == Init /\ [][Next]_vars

-----------------------------------------------------------------------------
(* Properties.                                                             *)

\* Every variable keeps its type, and the call ends with its answer.
TypeOK ==
    /\ vols \in [Ids -> {"none", "name", "other"}]
    /\ pc \in {"idle", "list", "done"}
    /\ marker \in Ids \cup {0}
    /\ volumes \subseteq Ids
    /\ answer \in Answers \cup {Nil} /\ (answer = Nil <=> pc # "done")
    /\ truths \subseteq Answers
    /\ faults \in 0 .. MaxFaults

\* An answer read page by page was true at some moment of the call: the volume
\* was there, or there was none, however many others came and went meanwhile.
\* Only where the name had two volumes during the call, one after the other, may
\* the answer be that there are several, which one look never answers.
AnswerWasTrue ==
    /\ answer \in Ids \cup {NotFound} => answer \in truths
    /\ answer = MultiVolumes => \E i, j \in truths \cap Ids : i # j
=============================================================================
