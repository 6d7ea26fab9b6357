------------------------ MODULE VolumeListingProofs ------------------------
(***************************************************************************)
(* Theorems about VolumeListing, for every set of volumes and every size   *)
(* of a page.                                                              *)
(***************************************************************************)
EXTENDS VolumeListing, TLAPS

-----------------------------------------------------------------------------
(* The answers of one look at the volumes.                                 *)

Unique(S) == \A i, j \in S : i = j

LEMMA OutcomeNone == Outcome({}) = {NotFound}
BY DEF Outcome

LEMMA OutcomeOne ==
    ASSUME NEW S, NEW v \in S, Unique(S)
    PROVE  Outcome(S) = {v}
<1>1. S = {v} /\ S # {}
  BY DEF Unique
<1>2. ~(\E i, j \in S : i # j)
  BY DEF Unique
<1> QED BY <1>1, <1>2 DEF Outcome

LEMMA OutcomeType ==
    ASSUME NEW S \in SUBSET Ids
    PROVE  Outcome(S) \subseteq Answers
BY DEF Outcome, Answers, Refusals

\* No refusal is a volume.
LEMMA RefusalsDiffer ==
    /\ NotFound \notin Ids /\ MultiVolumes \notin Ids /\ Failed \notin Ids
    /\ NotFound # MultiVolumes /\ Failed # NotFound /\ Failed # MultiVolumes
    /\ Nil \notin Ids /\ Nil # NotFound /\ Nil # MultiVolumes /\ Nil # Failed
BY AnswersAssumption DEF Refusals

-----------------------------------------------------------------------------
(* The invariant.                                                          *)

\* No two volumes have the name.
UniqueInv == Unique(Named(vols))

\* What has been found was there, what is there now has been seen by the history,
\* and a volume that has been there all the time is found or still to be listed.
ListInv ==
    pc = "list" =>
        /\ volumes \subseteq truths
        /\ Outcome(Named(vols)) \subseteq truths
        /\ NotFound \notin truths
               => \E v \in Named(vols) : v \in volumes \/ marker <= v

Inv == TypeOK /\ UniqueInv /\ ListInv /\ AnswerWasTrue

LEMMA InitInv == Init => Inv
<1> SUFFICES ASSUME Init PROVE Inv
  OBVIOUS
<1>1. TypeOK
  BY ConstantsAssumption DEF Init, TypeOK
<1>2. UniqueInv /\ ListInv
  BY DEF Init, UniqueInv, Unique, ListInv
<1>3. AnswerWasTrue
  BY RefusalsDiffer DEF Init, AnswerWasTrue
<1> QED BY <1>1, <1>2, <1>3 DEF Inv

\* The cloud: at most one volume gets the name, and the history sees it.
LEMMA CloudInv ==
    ASSUME Inv, NEW i \in Ids, Create(i) \/ Delete(i)
    PROVE  Inv'
<1>1. /\ vols' \in [Ids -> {"none", "name", "other"}]
      /\ UNCHANGED <<pc, marker, volumes, answer, faults>>
  BY DEF Inv, TypeOK, Create, Delete
<1>2. \/ Named(vols') = Named(vols)
      \/ Named(vols) = {} /\ Named(vols') = {i}
      \/ Named(vols') = Named(vols) \ {i}
  <2>1. \A j \in Ids : j # i => vols'[j] = vols[j]
    BY DEF Inv, TypeOK, Create, Delete
  <2>2. CASE Create(i)
    <3>1. CASE vols'[i] = "name"
      <4>1. Named(vols) = {}
        BY <2>2, <3>1 DEF Create, Inv, TypeOK
      <4> QED BY <2>1, <3>1, <4>1 DEF Named
    <3>2. CASE vols'[i] # "name"
      BY <2>1, <2>2, <3>2 DEF Create, Named, Inv, TypeOK
    <3> QED BY <3>1, <3>2
  <2>3. CASE Delete(i)
    <3>1. vols'[i] = "none"
      BY <2>3 DEF Delete, Inv, TypeOK
    <3> QED BY <2>1, <3>1 DEF Named
  <2> QED BY <2>2, <2>3
<1>3. UniqueInv'
  BY <1>2 DEF Inv, UniqueInv, Unique
<1>4. Named(vols') \in SUBSET Ids
  BY DEF Named
<1>5. truths' = IF pc = "list" THEN truths \cup Outcome(Named(vols')) ELSE truths
  BY DEF Create, Delete, Look
<1>6. TypeOK'
  BY <1>1, <1>4, <1>5, OutcomeType DEF Inv, TypeOK
<1>7. ListInv'
  <2> SUFFICES ASSUME pc = "list"
               PROVE  /\ volumes' \subseteq truths'
                      /\ Outcome(Named(vols')) \subseteq truths'
                      /\ NotFound \notin truths'
                            => \E v \in Named(vols') : v \in volumes' \/ marker' <= v
    BY <1>1 DEF ListInv
  <2>1. volumes \subseteq truths /\ Outcome(Named(vols)) \subseteq truths
    BY DEF Inv, ListInv
  <2>2. ASSUME NotFound \notin truths'
        PROVE  Named(vols') = Named(vols)
    <3>1. Named(vols) # {} /\ Named(vols') # {}
      BY <1>5, <2>1, <2>2, OutcomeNone
    <3> QED BY <1>2, <3>1 DEF Inv, UniqueInv, Unique
  <2>3. NotFound \notin truths' => \E v \in Named(vols') : v \in volumes \/ marker <= v
    BY <1>5, <2>2 DEF Inv, ListInv
  <2> QED BY <1>1, <1>5, <2>1, <2>3
<1>8. AnswerWasTrue'
  BY <1>1, <1>5 DEF Inv, AnswerWasTrue
<1> QED BY <1>3, <1>6, <1>7, <1>8 DEF Inv

\* A page: what it adds is there now.
LEMMA PageFound ==
    ASSUME Inv, ListPage
    PROVE  volumes' \subseteq truths /\ volumes' \subseteq Ids
<1>1. pc = "list" /\ volumes' = volumes \cup (Named(vols) \cap Page)
  BY DEF ListPage
<1>2. \A v \in Named(vols) : v \in truths /\ v \in Ids
  BY <1>1, OutcomeOne DEF Inv, UniqueInv, ListInv, Named
<1> QED BY <1>1, <1>2 DEF Inv, ListInv, TypeOK

LEMMA PageInv ==
    ASSUME Inv, ListPage
    PROVE  Inv'
<1>1. /\ pc = "list" /\ volumes' = volumes \cup (Named(vols) \cap Page)
      /\ UNCHANGED <<vols, truths, faults>>
  BY DEF ListPage
<1>2. NotFound \notin truths
          => \E v \in Named(vols) : v \in volumes \/ (v \in Rest /\ marker <= v)
  BY <1>1, ConstantsAssumption DEF Inv, ListInv, Named, Rest
<1>3. UniqueInv'
  BY <1>1 DEF Inv, UniqueInv
<1>4. CASE NextPage
  <2>1. PICK next \in Rest \ Page : (\A i \in Rest \ Page : next <= i) /\ marker' = next
    BY <1>4 DEF NextPage
  <2>2. pc' = "list" /\ answer' = answer
    BY <1>1, <1>4 DEF NextPage
  <2>3. NotFound \notin truths => \E v \in Named(vols) : v \in volumes' \/ marker' <= v
    BY <1>1, <1>2, <2>1
  <2>4. ListInv'
    BY <1>1, <2>2, <2>3, PageFound DEF Inv, ListInv
  <2>5. TypeOK'
    BY <1>1, <2>1, <2>2, PageFound DEF Inv, TypeOK, Rest
  <2>6. AnswerWasTrue'
    BY <1>1, <2>2 DEF Inv, AnswerWasTrue
  <2> QED BY <1>3, <2>4, <2>5, <2>6 DEF Inv
<1>5. CASE LastPage
  <2>1. pc' = "done" /\ answer' \in Outcome(volumes') /\ marker' = marker /\ Page = Rest
    BY <1>5 DEF LastPage
  <2>2. answer' \in Answers /\ answer' # Nil
    BY <2>1, PageFound, OutcomeType, RefusalsDiffer DEF Answers, Refusals
  <2>3. TypeOK'
    BY <1>1, <2>1, <2>2, PageFound DEF Inv, TypeOK
  <2>4. answer' = NotFound => NotFound \in truths
    <3>1. answer' = NotFound => volumes' = {}
      BY <2>1, PageFound, RefusalsDiffer DEF Outcome
    <3> QED BY <1>1, <1>2, <2>1, <3>1
  <2>5. answer' \in Ids => answer' \in truths
    <3>1. answer' \in Ids => answer' \in volumes'
      BY <2>1, RefusalsDiffer DEF Outcome
    <3> QED BY <3>1, PageFound
  <2>6. answer' = MultiVolumes => \E i, j \in truths \cap Ids : i # j
    <3>1. answer' = MultiVolumes => \E i, j \in volumes' : i # j
      BY <2>1, PageFound, RefusalsDiffer DEF Outcome
    <3> QED BY <3>1, PageFound
  <2> QED BY <1>1, <1>3, <2>1, <2>3, <2>4, <2>5, <2>6
          DEF Inv, ListInv, AnswerWasTrue
<1> QED BY <1>4, <1>5 DEF ListPage

LEMMA NextInv == Inv /\ [Next]_vars => Inv'
<1> SUFFICES ASSUME Inv, [Next]_vars PROVE Inv'
  OBVIOUS
<1>1. CASE \E i \in Ids : Create(i) \/ Delete(i)
  BY <1>1, CloudInv
<1>2. CASE GetVolumeByName
  <2>1. Named(vols) \in SUBSET Ids
    BY DEF Named
  <2>2. TypeOK'
    BY <1>2, <2>1, OutcomeType DEF GetVolumeByName, Inv, TypeOK
  <2>3. ListInv'
    <3>1. NotFound \notin truths' => Named(vols) # {}
      BY <1>2, OutcomeNone DEF GetVolumeByName
    <3>2. \A v \in Named(vols) : 0 <= v
      BY ConstantsAssumption DEF Named
    <3> QED BY <1>2, <3>1, <3>2 DEF GetVolumeByName, ListInv
  <2>4. answer' = Nil
    BY <1>2 DEF GetVolumeByName, Inv, TypeOK
  <2> QED BY <1>2, <2>2, <2>3, <2>4, RefusalsDiffer
          DEF GetVolumeByName, Inv, UniqueInv, AnswerWasTrue
<1>3. CASE ListPage
  BY <1>3, PageInv
<1>4. CASE ListFails
  <2>1. TypeOK'
    BY <1>4, RefusalsDiffer, ConstantsAssumption DEF ListFails, Inv, TypeOK, Answers, Refusals
  <2>2. AnswerWasTrue'
    BY <1>4, RefusalsDiffer DEF ListFails, AnswerWasTrue
  <2> QED BY <1>4, <2>1, <2>2 DEF ListFails, Inv, UniqueInv, ListInv
<1>5. CASE UNCHANGED vars
  BY <1>5 DEF vars, Inv, TypeOK, UniqueInv, ListInv, AnswerWasTrue
<1> QED BY <1>1, <1>2, <1>3, <1>4, <1>5 DEF Next

-----------------------------------------------------------------------------
(* Theorems.                                                               *)

LEMMA Invariant == Spec => []Inv
<1>1. Init => Inv
  BY InitInv
<1>2. Inv /\ [Next]_vars => Inv'
  BY NextInv
<1> QED BY <1>1, <1>2, PTL DEF Spec

\* Every variable keeps its type.
THEOREM TypeCorrect == Spec => []TypeOK
<1>1. Inv => TypeOK
  BY DEF Inv
<1> QED BY <1>1, Invariant, PTL

\* A lookup of one name that reads pages answers what one look at all volumes
\* would have answered at some moment, or finds several where the name was used anew.
THEOREM LookupIsAtomic == Spec => []AnswerWasTrue
<1>1. Inv => AnswerWasTrue
  BY DEF Inv
<1> QED BY <1>1, Invariant, PTL
=============================================================================
