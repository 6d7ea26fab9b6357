------------------------- MODULE CdsProvisionProofs -------------------------
(***************************************************************************)
(* Proofs about CdsProvision for any number of replicas, names, sizes,     *)
(* calls, volumes and faults.                                              *)
(***************************************************************************)
EXTENDS CdsProvision, TLAPS

-----------------------------------------------------------------------------
(* Type correctness.  TypeOK alone is not inductive: a lock is a name with  *)
(* a size, and an answer has a volume, only because a flight at work and a  *)
(* call under way carry them.                                              *)

FlightInv ==
    /\ flight \in [Replicas -> [Names -> Flight]]
    /\ \A r \in Replicas, n \in Names :
          /\ flight[r][n].pc # "idle" => flight[r][n].size \in Sizes
          /\ flight[r][n].pc = "fetch" => flight[r][n].id \in VolIds
          /\ flight[r][n].pc = "ret" /\ flight[r][n].res = "OK"
                => flight[r][n].id \in VolIds

CallInv ==
    /\ call \in [Calls -> Call]
    /\ \A c \in Calls :
          /\ call[c].st = "create" => call[c].size \in Sizes
          /\ call[c].st \in {"del_get", "del_do"} => /\ call[c].id \in VolIds
                                                     /\ call[c].name \in Names

LockInv == locks \in [Replicas -> SUBSET (Names \X Sizes)]

RestInv ==
    /\ cache \in [Replicas -> SUBSET Names]
    /\ vol \in [VolIds -> Volume]
    /\ answered \subseteq Names \X Sizes \X VolIds
    /\ retired \subseteq Names
    /\ removed \subseteq VolIds
    /\ faults \in 0 .. MaxFaults

TypeInv == FlightInv /\ CallInv /\ LockInv /\ RestInv

LEMMA TypeInvTypes == TypeInv => TypeOK
BY DEF TypeInv, FlightInv, CallInv, LockInv, RestInv, TypeOK

LEMMA TypeInit == Init => TypeInv
BY ConstantsAssumption DEF Init, TypeInv, FlightInv, CallInv, LockInv, RestInv,
   Idle, Unborn, NoCall, Flight, Volume, Call, Codes

\* Replacing one flight by a well-formed one keeps the flights well-formed.
LEMMA FlightReplaced ==
    ASSUME FlightInv, NEW r \in Replicas, NEW n \in Names, NEW g \in Flight,
           flight' = [flight EXCEPT ![r][n] = g],
           g.pc # "idle" => g.size \in Sizes,
           g.pc = "fetch" => g.id \in VolIds,
           g.pc = "ret" /\ g.res = "OK" => g.id \in VolIds
    PROVE  FlightInv'
BY DEF FlightInv

\* Replacing one call by a well-formed one keeps the calls well-formed.
LEMMA CallReplaced ==
    ASSUME CallInv, NEW c \in Calls, NEW d \in Call,
           call' = [call EXCEPT ![c] = d],
           d.st = "create" => d.size \in Sizes,
           d.st \in {"del_get", "del_do"} => d.id \in VolIds /\ d.name \in Names
    PROVE  CallInv'
BY DEF CallInv

LEMMA NoCallTyped == NoCall \in Call /\ NoCall.st = "idle"
BY DEF NoCall, Call

LEMMA ReturnTyped ==
    ASSUME FlightInv, LockInv, NEW r \in Replicas, NEW n \in Names,
           NEW code \in Codes, NEW v \in VolIds \cup {Nil},
           code = "OK" => v \in VolIds,
           flight[r][n].pc # "idle", Return(r, n, code, v)
    PROVE  FlightInv' /\ LockInv'
<1> DEFINE g == [flight[r][n] EXCEPT !.pc = "ret", !.res = code, !.id = v]
<1>1. flight[r][n] \in Flight /\ flight[r][n].size \in Sizes
  BY DEF FlightInv
<1>2. g \in Flight /\ g.pc = "ret" /\ g.res = code /\ g.id = v /\ g.size \in Sizes
  BY <1>1 DEF Flight
<1>3. flight' = [flight EXCEPT ![r][n] = g]
  BY DEF Return, FlightInv, Flight
<1>4. LockInv'
  BY DEF Return, LockInv
<1> QED
  BY <1>2, <1>3, <1>4, FlightReplaced

LEMMA VerdictIsCode == \A v : Verdict(v) \in Codes
BY DEF Verdict, Codes

\* A create request leaves the cloud's volumes well-formed.
LEMMA CloudCreatesTyped ==
    ASSUME TypeInv, NEW r \in Replicas, NEW n \in Names, NEW v \in VolIds,
           flight[r][n].pc = "create", CloudCreates(r, n, v)
    PROVE  vol' \in [VolIds -> Volume]
<1>1. flight[r][n].size \in Sizes
  BY DEF TypeInv, FlightInv
<1>2. CASE UNCHANGED vol
  BY <1>2 DEF TypeInv, RestInv
<1>3. CASE vol' = [vol EXCEPT ![v] = [status |-> "Creating", name |-> n,
                                      size |-> flight[r][n].size,
                                      token |-> ClientToken(r, n), seen |-> {}]]
  BY <1>1, <1>3 DEF TypeInv, RestInv, Volume, ClientToken
<1> QED
  BY <1>2, <1>3 DEF CloudCreates

LEMMA FaultTyped ==
    ASSUME TypeInv, NEW kind, Fault(kind)
    PROVE  faults' \in 0 .. MaxFaults
BY ConstantsAssumption DEF Fault, TypeInv, RestInv

LEMMA TypeFlightStep ==
    ASSUME TypeInv, NEW r \in Replicas, NEW n \in Names, FlightStep(r, n)
    PROVE  TypeInv'
<1> USE DEF TypeInv
<1>f. /\ flight[r][n] \in Flight
      /\ flight[r][n].pc # "idle" => flight[r][n].size \in Sizes
  BY DEF FlightInv
<1>n. "OK" \in Codes /\ "Aborted" \in Codes /\ "Internal" \in Codes
      /\ "AlreadyExists" \in Codes /\ "InvalidArgument" \in Codes /\ "none" \in Codes
  BY DEF Codes
<1>1. CASE Enter(r, n)
  <2>1. CallInv' /\ RestInv'
    BY <1>1 DEF Enter, CallInv, RestInv
  <2>2. CASE Return(r, n, "InvalidArgument", Nil)
    BY <1>1, <2>1, <2>2, <1>n, ReturnTyped DEF Enter
  <2>3. CASE /\ flight' = [flight EXCEPT ![r][n].pc = "ret", ![r][n].res = "Aborted"]
             /\ UNCHANGED locks
    <3> DEFINE g == [flight[r][n] EXCEPT !.pc = "ret", !.res = "Aborted"]
    <3>1. g \in Flight /\ g.pc = "ret" /\ g.res = "Aborted" /\ g.size \in Sizes
      BY <1>f, <1>n, <1>1 DEF Flight, Enter
    <3>2. flight' = [flight EXCEPT ![r][n] = g]
      BY <2>3 DEF FlightInv, Flight
    <3>3. g.res # "OK" /\ g.pc # "fetch"
      BY <3>1
    <3> HIDE DEF g
    <3>4. FlightInv'
      BY <3>1, <3>2, <3>3, FlightReplaced
    <3> QED
      BY <2>1, <2>3, <3>4 DEF LockInv
  <2>4. CASE /\ flight' = [flight EXCEPT ![r][n].pc = "lookup"]
             /\ locks' = [locks EXCEPT ![r] = @ \cup {<<n, flight[r][n].size>>}]
    <3> DEFINE g == [flight[r][n] EXCEPT !.pc = "lookup"]
    <3>1. g \in Flight /\ g.pc = "lookup" /\ g.size \in Sizes
      BY <1>f, <1>1 DEF Flight, Enter
    <3>2. flight' = [flight EXCEPT ![r][n] = g]
      BY <2>4 DEF FlightInv, Flight
    <3>3. LockInv'
      BY <1>f, <1>1, <2>4 DEF LockInv, Enter
    <3> HIDE DEF g
    <3>4. FlightInv'
      BY <3>1, <3>2, FlightReplaced
    <3> QED
      BY <2>1, <3>3, <3>4
  <2> QED
    BY <1>1, <2>2, <2>3, <2>4 DEF Enter
<1>2. CASE LookupMisses(r, n)
  <2>1. CallInv' /\ RestInv'
    BY <1>2 DEF LookupMisses, CallInv, RestInv
  <2>2. CASE Return(r, n, "Aborted", Nil)
    BY <1>2, <2>1, <2>2, <1>n, ReturnTyped DEF LookupMisses
  <2>3. CASE flight' = [flight EXCEPT ![r][n].pc = "create"] /\ UNCHANGED locks
    <3> DEFINE g == [flight[r][n] EXCEPT !.pc = "create"]
    <3>1. g \in Flight /\ g.pc = "create" /\ g.size \in Sizes
      BY <1>f, <1>2 DEF Flight, LookupMisses
    <3>2. flight' = [flight EXCEPT ![r][n] = g]
      BY <2>3 DEF FlightInv, Flight
    <3> HIDE DEF g
    <3>3. FlightInv'
      BY <3>1, <3>2, FlightReplaced
    <3> QED
      BY <2>1, <2>3, <3>3 DEF LockInv
  <2> QED
    BY <1>2, <2>2, <2>3 DEF LookupMisses
<1>3. CASE LookupHits(r, n)
  <2>1. CallInv' /\ RestInv'
    BY <1>3 DEF LookupHits, CallInv, RestInv
  <2>2. PICK code \in Codes, v \in VolIds \cup {Nil} :
           /\ code = "OK" => v \in VolIds
           /\ Return(r, n, code, v)
    BY <1>3, <1>n, VerdictIsCode DEF LookupHits, Listed
  <2> QED
    BY <1>3, <2>1, <2>2, ReturnTyped DEF LookupHits
<1>4. CASE CreateSucceeds(r, n)
  <2>1. PICK v \in VolIds :
           /\ CloudCreates(r, n, v)
           /\ flight' = [flight EXCEPT ![r][n].pc = "fetch", ![r][n].id = v]
    BY <1>4 DEF CreateSucceeds
  <2> DEFINE g == [flight[r][n] EXCEPT !.pc = "fetch", !.id = v]
  <2>2. g \in Flight /\ g.pc = "fetch" /\ g.id \in VolIds /\ g.size \in Sizes
    BY <1>f, <1>4 DEF Flight, CreateSucceeds
  <2>3. flight' = [flight EXCEPT ![r][n] = g]
    BY <2>1 DEF FlightInv, Flight
  <2> HIDE DEF g
  <2>4. FlightInv'
    BY <2>2, <2>3, FlightReplaced
  <2>5. vol' \in [VolIds -> Volume]
    BY <1>4, <2>1, CloudCreatesTyped DEF CreateSucceeds
  <2> QED
    BY <1>4, <2>4, <2>5 DEF CreateSucceeds, CallInv, LockInv, RestInv
<1>5. CASE CreateReplyLost(r, n)
  <2>1. vol' \in [VolIds -> Volume]
    BY <1>5, CloudCreatesTyped DEF CreateReplyLost
  <2>2. FlightInv' /\ LockInv'
    BY <1>5, <1>n, ReturnTyped DEF CreateReplyLost
  <2> QED
    BY <1>5, <2>1, <2>2, FaultTyped DEF CreateReplyLost, CallInv, RestInv
<1>6. CASE Fetch(r, n)
  <2>1. flight[r][n].id \in VolIds
    BY <1>6 DEF Fetch, FlightInv
  <2>2. PICK code \in Codes, v \in VolIds \cup {Nil} :
           /\ code = "OK" => v \in VolIds
           /\ Return(r, n, code, v)
    BY <1>6, <1>n, <2>1, VerdictIsCode DEF Fetch
  <2>3. FlightInv' /\ LockInv'
    BY <1>6, <2>2, ReturnTyped DEF Fetch
  <2> QED
    BY <1>6, <2>3 DEF Fetch, CallInv, RestInv
<1>7. CASE RequestFails(r, n)
  <2>1. FlightInv' /\ LockInv'
    BY <1>7, <1>n, ReturnTyped DEF RequestFails
  <2> QED
    BY <1>7, <2>1, FaultTyped DEF RequestFails, CallInv, RestInv
<1>8. CASE Retry(r, n)
  <2> DEFINE g == [flight[r][n] EXCEPT !.pc = "run", !.res = "none", !.id = Nil]
  <2>1. g \in Flight /\ g.pc = "run" /\ g.size \in Sizes
    BY <1>f, <1>n, <1>8 DEF Flight, Retry
  <2>2. flight' = [flight EXCEPT ![r][n] = g]
    BY <1>8 DEF Retry
  <2> HIDE DEF g
  <2>3. FlightInv'
    BY <2>1, <2>2, FlightReplaced
  <2> QED
    BY <1>8, <2>3 DEF Retry, CallInv, LockInv, RestInv
<1>9. CASE Finish(r, n)
  <2>1. Idle \in Flight /\ Idle.pc = "idle"
    BY DEF Idle, Flight, Codes
  <2>2. FlightInv'
    BY <1>9, <2>1, FlightReplaced DEF Finish
  <2>3. CallInv'
    BY <1>9, NoCallTyped DEF Finish, CallInv
  <2>4. answered' \subseteq Names \X Sizes \X VolIds
    BY <1>9 DEF Finish, RestInv, CallInv, FlightInv
  <2> QED
    BY <1>9, <2>2, <2>3, <2>4 DEF Finish, LockInv, RestInv
<1> QED
  BY <1>1, <1>2, <1>3, <1>4, <1>5, <1>6, <1>7, <1>8, <1>9 DEF FlightStep

LEMMA TypeCallStep ==
    ASSUME TypeInv, NEW c \in Calls, CallStep(c)
    PROVE  TypeInv'
<1> USE DEF TypeInv
<1>1. ASSUME NEW r \in Replicas, NEW n \in Names, NEW s \in Sizes,
             CreateVolume(c, r, n, s)
      PROVE  TypeInv'
  <2> DEFINE d == [NoCall EXCEPT !.st = "create", !.at = r, !.name = n, !.size = s]
             g == [Idle EXCEPT !.pc = "run", !.size = s]
  <2>1. d \in Call /\ d.st = "create" /\ d.size \in Sizes
    BY DEF Call, NoCall
  <2>2. CallInv'
    BY <1>1, <2>1, CallReplaced DEF CreateVolume
  <2>3. g \in Flight /\ g.pc = "run" /\ g.size \in Sizes
    BY DEF Flight, Idle, Codes
  <2>4. FlightInv'
    <3>1. CASE flight[r][n].pc = "idle"
      BY <1>1, <2>3, <3>1, FlightReplaced DEF CreateVolume
    <3>2. CASE flight[r][n].pc # "idle"
      BY <1>1, <3>2 DEF CreateVolume, FlightInv
    <3> QED
      BY <3>1, <3>2
  <2> QED
    BY <1>1, <2>2, <2>4 DEF CreateVolume, LockInv, RestInv
<1>2. ASSUME NEW r \in Replicas, NEW n \in Names, NEW v \in VolIds,
             DeleteVolume(c, r, n, v)
      PROVE  TypeInv'
  <2> DEFINE d == [NoCall EXCEPT !.st = "del_get", !.at = r, !.name = n, !.id = v]
  <2>1. d \in Call /\ d.st = "del_get" /\ d.id \in VolIds /\ d.name \in Names
    BY DEF Call, NoCall
  <2>2. CallInv'
    BY <1>2, <2>1, CallReplaced DEF DeleteVolume
  <2> QED
    BY <1>2, <2>2 DEF DeleteVolume, local, FlightInv, LockInv, RestInv
<1>3. CASE DeleteLookup(c)
  <2>1. CASE call' = [call EXCEPT ![c].st = "del_do"] /\ UNCHANGED removed
    <3> DEFINE d == [call[c] EXCEPT !.st = "del_do"]
    <3>1. d \in Call /\ d.st = "del_do" /\ d.id \in VolIds /\ d.name \in Names
      BY <1>3 DEF Call, CallInv, DeleteLookup
    <3>2. call' = [call EXCEPT ![c] = d]
      BY <2>1 DEF CallInv, Call
    <3>3. CallInv'
      BY <3>1, <3>2, CallReplaced
    <3> QED
      BY <1>3, <2>1, <3>3 DEF DeleteLookup, local, FlightInv, LockInv, RestInv
  <2>2. CASE call' = [call EXCEPT ![c] = NoCall] /\ removed' = removed \cup {call[c].id}
    <3>1. CallInv'
      BY <2>2, NoCallTyped, CallReplaced
    <3>2. removed' \subseteq VolIds
      BY <1>3, <2>2 DEF DeleteLookup, CallInv, RestInv
    <3> QED
      BY <1>3, <3>1, <3>2 DEF DeleteLookup, local, FlightInv, LockInv, RestInv
  <2> QED
    BY <1>3, <2>1, <2>2 DEF DeleteLookup
<1>4. CASE DeleteOnCloud(c)
  <2>1. CallInv'
    BY <1>4, NoCallTyped, CallReplaced DEF DeleteOnCloud
  <2>2. call[c].id \in VolIds
    BY <1>4 DEF DeleteOnCloud, CallInv
  <2>3. vol' \in [VolIds -> Volume]
    BY <1>4, <2>2 DEF DeleteOnCloud, RestInv, Volume
  <2>4. removed' \subseteq VolIds
    BY <1>4, <2>2 DEF DeleteOnCloud, RestInv
  <2> QED
    BY <1>4, <2>1, <2>3, <2>4 DEF DeleteOnCloud, local, FlightInv, LockInv, RestInv
<1>5. CASE DeleteFails(c)
  <2>1. CallInv'
    BY <1>5, NoCallTyped, CallReplaced DEF DeleteFails
  <2>2. call[c].id \in VolIds
    BY <1>5 DEF DeleteFails, CallInv
  <2>3. vol' \in [VolIds -> Volume]
    BY <1>5, <2>2 DEF DeleteFails, RestInv, Volume
  <2>4. faults' \in 0 .. MaxFaults
    BY <1>5, FaultTyped DEF DeleteFails
  <2> QED
    BY <1>5, <2>1, <2>3, <2>4 DEF DeleteFails, local, FlightInv, LockInv, RestInv
<1>6. CASE GiveUp(c)
  <2>1. CallInv'
    BY <1>6, NoCallTyped, CallReplaced DEF GiveUp
  <2> QED
    BY <1>6, <2>1, FaultTyped DEF GiveUp, local, FlightInv, LockInv, RestInv
<1> QED
  BY <1>1, <1>2, <1>3, <1>4, <1>5, <1>6 DEF CallStep

LEMMA TypeCloudStep ==
    ASSUME TypeInv, NEW v \in VolIds, CloudStep(v)
    PROVE  TypeInv'
<1>1. CASE Sync(v)
  <2>1. PICK s \in SUBSET {"list", "detail"} :
           vol' = [vol EXCEPT ![v].seen = @ \cup s]
    BY <1>1 DEF Sync
  <2>2. vol' \in [VolIds -> Volume]
    BY <2>1 DEF TypeInv, RestInv, Volume
  <2> QED
    BY <1>1, <2>2 DEF Sync, local, TypeInv, FlightInv, CallInv, LockInv, RestInv
<1>2. CASE Build(v)
  <2>1. PICK s \in {"Available", "Error"} : vol' = [vol EXCEPT ![v].status = s]
    BY <1>2 DEF Build
  <2>2. vol' \in [VolIds -> Volume]
    BY <2>1 DEF TypeInv, RestInv, Volume
  <2> QED
    BY <1>2, <2>2 DEF Build, local, TypeInv, FlightInv, CallInv, LockInv, RestInv
<1> QED
  BY <1>1, <1>2 DEF CloudStep

LEMMA TypeCrash ==
    ASSUME TypeInv, NEW r \in Replicas, Crash(r)
    PROVE  TypeInv'
<1>1. FlightInv'
  BY DEF Crash, TypeInv, FlightInv, Idle, Flight, Codes
<1>2. CallInv'
  BY NoCallTyped DEF Crash, TypeInv, CallInv
<1>3. LockInv' /\ RestInv'
  BY FaultTyped DEF Crash, TypeInv, LockInv, RestInv
<1> QED
  BY <1>1, <1>2, <1>3 DEF TypeInv

LEMMA TypeStep == TypeInv /\ [Next]_vars => TypeInv'
<1> SUFFICES ASSUME TypeInv, [Next]_vars PROVE TypeInv'
  OBVIOUS
<1>1. CASE UNCHANGED vars
  BY <1>1 DEF vars, TypeInv, FlightInv, CallInv, LockInv, RestInv
<1> QED
  BY <1>1, TypeFlightStep, TypeCallStep, TypeCloudStep, TypeCrash DEF Next

\* Every reachable state of CdsProvision is well typed; in particular no lock
\* is ever taken on a request without a size, and no call is answered OK
\* without a volume.
THEOREM TypeCorrect == Spec => []TypeOK
<1>1. Spec => []TypeInv
  BY TypeInit, TypeStep, PTL DEF Spec
<1> QED
  BY <1>1, TypeInvTypes, PTL

-----------------------------------------------------------------------------
(* Safety over a cloud that remembers client tokens.  The promises do not   *)
(* depend on what the replicas keep in memory: they follow from one token   *)
(* per name, which makes all create requests of a name one request.         *)

Remembered == "token_forgotten" \notin Faults
DetailFirst == "detail_lag" \notin Faults

\* In the table of volumes (vol or vol'), v is a volume of name n.
Named(table, v, n) == table[v].status # "Unborn" /\ table[v].name = n

\* v is a volume of name n, the cloud has finished building it, and
\* GetVolumeByID finds it until it is deleted.
Settled(table, v, n) ==
    /\ table[v].status \in {"Available", "Error", "Deleted"}
    /\ table[v].name = n
    /\ DetailFirst => "detail" \in table[v].seen

VolInv ==
    /\ \A v \in VolIds : Born(v) => /\ vol[v].name \in Names
                                    /\ vol[v].token = <<ClusterID, vol[v].name>>
    /\ \A v, w \in VolIds : /\ Born(v) /\ Born(w)
                            /\ vol[v].name = vol[w].name
                            => v = w
    /\ DetailFirst => \A v \in VolIds : "list" \in vol[v].seen
                                           => "detail" \in vol[v].seen

\* What flights, answers and deletions know of the volume they refer to.
FlightKnows ==
    \A r \in Replicas, n \in Names :
        /\ flight[r][n].pc = "fetch" => Named(vol, flight[r][n].id, n)
        /\ flight[r][n].pc = "ret" /\ flight[r][n].res = "OK"
              => Settled(vol, flight[r][n].id, n)

AnswerKnows == \A a \in answered : Settled(vol, a[3], a[1])

CallKnows == \A c \in Calls : call[c].st \in {"del_get", "del_do"}
                                 => Settled(vol, call[c].id, call[c].name)

RemovedKnows == DetailFirst => \A v \in removed : vol[v].status = "Deleted"

SafeInv == VolInv /\ FlightKnows /\ AnswerKnows /\ CallKnows /\ RemovedKnows

\* All that can happen to the cloud's volumes.
VolChange ==
    \/ UNCHANGED vol
    \/ \E r \in Replicas, n \in Names, v \in VolIds :
          flight[r][n].pc = "create" /\ CloudCreates(r, n, v)
    \/ \E v \in VolIds, s \in SUBSET {"list", "detail"} :
          /\ DetailFirst => "detail" \in s
          /\ vol' = [vol EXCEPT ![v].seen = @ \cup s]
    \/ \E v \in VolIds, s \in {"Available", "Error"} :
          /\ vol[v].status = "Creating"
          /\ vol' = [vol EXCEPT ![v].status = s]
    \/ \E v \in VolIds :
          /\ Born(v)
          /\ vol' = [vol EXCEPT ![v].status = "Deleted"]

LEMMA NextChangesVol ==
    ASSUME TypeInv, SafeInv, [Next]_vars
    PROVE  VolChange
<1>1. CASE UNCHANGED vars
  BY <1>1 DEF vars, VolChange
<1>2. ASSUME NEW r \in Replicas, NEW n \in Names, FlightStep(r, n)
      PROVE  VolChange
  BY <1>2 DEF FlightStep, Enter, LookupMisses, LookupHits, CreateSucceeds,
              CreateReplyLost, Fetch, RequestFails, Retry, Finish, VolChange
<1>3. ASSUME NEW c \in Calls, CallStep(c)
      PROVE  VolChange
  <2>1. call[c].st = "del_do" => call[c].id \in VolIds /\ Born(call[c].id)
    BY DEF TypeInv, CallInv, SafeInv, CallKnows, Settled, Born
  <2> QED
    BY <1>3, <2>1 DEF CallStep, CreateVolume, DeleteVolume, DeleteLookup,
                      DeleteOnCloud, DeleteFails, GiveUp, VolChange
<1>4. ASSUME NEW v \in VolIds, CloudStep(v)
      PROVE  VolChange
  <2>1. CASE Sync(v)
    <3>1. PICK s \in SUBSET {"list", "detail"} :
             /\ DetailFirst => "detail" \in s
             /\ vol' = [vol EXCEPT ![v].seen = @ \cup s]
      BY <2>1 DEF Sync, DetailFirst
    <3> QED
      BY <3>1 DEF VolChange
  <2>2. CASE Build(v)
    BY <2>2 DEF Build, VolChange
  <2> QED
    BY <1>4, <2>1, <2>2 DEF CloudStep
<1>5. ASSUME NEW r \in Replicas, Crash(r)
      PROVE  VolChange
  BY <1>5 DEF Crash, VolChange
<1> QED
  BY <1>1, <1>2, <1>3, <1>4, <1>5 DEF Next

\* The volume a create request comes back with carries the request's name.
LEMMA CreatedIsNamed ==
    ASSUME Remembered, TypeInv, VolInv, NEW r \in Replicas, NEW n \in Names,
           NEW v \in VolIds, CloudCreates(r, n, v)
    PROVE  Named(vol', v, n)
BY DEF CloudCreates, Holders, ClientToken, Named, Born, VolInv, TypeInv, RestInv,
       Volume

\* Nothing that happens to the volumes gives a name a second one, and what is
\* known of a volume stays true of it.
LEMMA VolSafe ==
    ASSUME Remembered, TypeInv, VolInv, VolChange
    PROVE  /\ VolInv'
           /\ \A v \in VolIds, n \in Names : Named(vol, v, n) => Named(vol', v, n)
           /\ \A v \in VolIds, n \in Names : Settled(vol, v, n) => Settled(vol', v, n)
           /\ \A v \in VolIds : vol[v].status = "Deleted" => vol'[v].status = "Deleted"
<1> vol \in [VolIds -> Volume]
  BY DEF TypeInv, RestInv
<1> USE DEF VolInv, Named, Settled, Born
<1>1. CASE UNCHANGED vol
  BY <1>1
<1>2. ASSUME NEW r \in Replicas, NEW n \in Names, NEW w \in VolIds,
             ~Born(w), Holders(ClientToken(r, n)) = {},
             vol' = [vol EXCEPT ![w] = [status |-> "Creating", name |-> n,
                                        size |-> flight[r][n].size,
                                        token |-> ClientToken(r, n), seen |-> {}]]
      PROVE  /\ VolInv'
             /\ \A v \in VolIds, m \in Names : Named(vol, v, m) => Named(vol', v, m)
             /\ \A v \in VolIds, m \in Names : Settled(vol, v, m) => Settled(vol', v, m)
             /\ \A v \in VolIds : vol[v].status = "Deleted" => vol'[v].status = "Deleted"
  <2>1. \A v \in VolIds : Born(v) => vol[v].name # n
    BY <1>2 DEF Holders, ClientToken
  <2>2. \A v \in VolIds : v # w => vol'[v] = vol[v]
    BY <1>2
  <2>3. vol'[w] = [status |-> "Creating", name |-> n, size |-> flight[r][n].size,
                   token |-> <<ClusterID, n>>, seen |-> {}]
    BY <1>2 DEF ClientToken
  <2> QED
    BY <1>2, <2>1, <2>2, <2>3
<1>3. ASSUME NEW w \in VolIds, NEW s \in SUBSET {"list", "detail"},
             DetailFirst => "detail" \in s,
             vol' = [vol EXCEPT ![w].seen = @ \cup s]
      PROVE  /\ VolInv'
             /\ \A v \in VolIds, m \in Names : Named(vol, v, m) => Named(vol', v, m)
             /\ \A v \in VolIds, m \in Names : Settled(vol, v, m) => Settled(vol', v, m)
             /\ \A v \in VolIds : vol[v].status = "Deleted" => vol'[v].status = "Deleted"
  <2>1. \A v \in VolIds : /\ vol'[v].status = vol[v].status
                          /\ vol'[v].name = vol[v].name
                          /\ vol'[v].token = vol[v].token
                          /\ vol'[v].seen = vol[v].seen \cup (IF v = w THEN s ELSE {})
    BY <1>3 DEF Volume
  <2> QED
    BY <1>3, <2>1
<1>4. ASSUME NEW w \in VolIds, NEW s \in {"Available", "Error", "Deleted"},
             Born(w), vol[w].status = "Creating" \/ s = "Deleted",
             vol' = [vol EXCEPT ![w].status = s]
      PROVE  /\ VolInv'
             /\ \A v \in VolIds, m \in Names : Named(vol, v, m) => Named(vol', v, m)
             /\ \A v \in VolIds, m \in Names : Settled(vol, v, m) => Settled(vol', v, m)
             /\ \A v \in VolIds : vol[v].status = "Deleted" => vol'[v].status = "Deleted"
  <2>1. \A v \in VolIds : /\ vol'[v].status = IF v = w THEN s ELSE vol[v].status
                          /\ vol'[v].name = vol[v].name
                          /\ vol'[v].token = vol[v].token
                          /\ vol'[v].seen = vol[v].seen
    BY <1>4 DEF Volume
  <2> QED
    BY <1>4, <2>1
<1> HIDE DEF VolInv, Named, Settled
<1>5. CASE \E r \in Replicas, n \in Names, v \in VolIds : CloudCreates(r, n, v)
  BY <1>1, <1>2, <1>5 DEF CloudCreates, Remembered
<1> QED
  BY <1>1, <1>3, <1>4, <1>5 DEF VolChange

LEMMA SafeInit == Init => SafeInv
BY DEF Init, SafeInv, VolInv, FlightKnows, AnswerKnows, CallKnows, RemovedKnows,
       Idle, Unborn, NoCall, Born

\* A step of one flight leaves what all flights know true, if the flight's new
\* record knows only what holds of the volumes after the step.
LEMMA FlightLearns ==
    ASSUME Remembered, TypeInv, SafeInv, VolChange,
           NEW r \in Replicas, NEW n \in Names, NEW g,
           flight' = [flight EXCEPT ![r][n] = g],
           g.pc = "fetch" => Named(vol', g.id, n),
           g.pc = "ret" /\ g.res = "OK" => Settled(vol', g.id, n)
    PROVE  FlightKnows'
<1>1. /\ flight'[r][n] = g
      /\ \A q \in Replicas, m \in Names :
            <<q, m>> # <<r, n>> => flight'[q][m] = flight[q][m]
  BY DEF TypeInv, FlightInv
<1>2. SUFFICES ASSUME NEW q \in Replicas, NEW m \in Names
               PROVE  /\ flight'[q][m].pc = "fetch" => Named(vol', flight'[q][m].id, m)
                      /\ flight'[q][m].pc = "ret" /\ flight'[q][m].res = "OK"
                            => Settled(vol', flight'[q][m].id, m)
  BY DEF FlightKnows
<1>3. CASE <<q, m>> = <<r, n>>
  BY <1>1, <1>3
<1>4. CASE <<q, m>> # <<r, n>>
  <2>1. /\ flight[q][m].pc = "fetch" => Named(vol, flight[q][m].id, m)
                                        /\ flight[q][m].id \in VolIds
        /\ flight[q][m].pc = "ret" /\ flight[q][m].res = "OK"
              => Settled(vol, flight[q][m].id, m) /\ flight[q][m].id \in VolIds
    BY DEF SafeInv, FlightKnows, TypeInv, FlightInv
  <2>2. /\ flight[q][m].pc = "fetch" => Named(vol', flight[q][m].id, m)
        /\ flight[q][m].pc = "ret" /\ flight[q][m].res = "OK"
              => Settled(vol', flight[q][m].id, m)
    BY <2>1, VolSafe DEF SafeInv
  <2> QED
    BY <1>1, <1>4, <2>2 DEF Named, Settled, Born
<1> QED
  BY <1>3, <1>4

\* What an unchanged flight, answer, call or removal knows stays true.
LEMMA KnownStays ==
    ASSUME Remembered, TypeInv, SafeInv, VolChange
    PROVE  /\ VolInv'
           /\ UNCHANGED flight => FlightKnows'
           /\ UNCHANGED answered => AnswerKnows'
           /\ UNCHANGED call => CallKnows'
           /\ UNCHANGED removed => RemovedKnows'
<1>1. /\ VolInv'
      /\ \A v \in VolIds, n \in Names : Named(vol, v, n) => Named(vol', v, n)
      /\ \A v \in VolIds, n \in Names : Settled(vol, v, n) => Settled(vol', v, n)
      /\ \A v \in VolIds : vol[v].status = "Deleted" => vol'[v].status = "Deleted"
  BY VolSafe DEF SafeInv
<1>2. ASSUME UNCHANGED flight PROVE FlightKnows'
  <2> SUFFICES ASSUME NEW r \in Replicas, NEW n \in Names
               PROVE  /\ flight[r][n].pc = "fetch" => Named(vol', flight[r][n].id, n)
                      /\ flight[r][n].pc = "ret" /\ flight[r][n].res = "OK"
                            => Settled(vol', flight[r][n].id, n)
    BY <1>2 DEF FlightKnows, Named, Settled, Born
  <2> QED
    BY <1>1 DEF SafeInv, FlightKnows, TypeInv, FlightInv
<1>3. ASSUME UNCHANGED answered PROVE AnswerKnows'
  <2>1. \A a \in answered : Settled(vol', a[3], a[1])
    BY <1>1 DEF SafeInv, AnswerKnows, TypeInv, RestInv
  <2> QED
    BY <1>3, <2>1 DEF AnswerKnows, Settled
<1>4. ASSUME UNCHANGED call PROVE CallKnows'
  <2>1. \A c \in Calls : call[c].st \in {"del_get", "del_do"}
                             => Settled(vol, call[c].id, call[c].name)
                                /\ call[c].id \in VolIds /\ call[c].name \in Names
    BY DEF SafeInv, CallKnows, TypeInv, CallInv
  <2> QED
    BY <1>1, <1>4, <2>1 DEF CallKnows, Settled
<1>5. ASSUME UNCHANGED removed PROVE RemovedKnows'
  BY <1>1, <1>5 DEF SafeInv, RemovedKnows, TypeInv, RestInv
<1> QED
  BY <1>1, <1>2, <1>3, <1>4, <1>5

\* createVolume answers OK only with a volume that is settled.
LEMMA ReturnLearns ==
    ASSUME Remembered, TypeInv, SafeInv, VolChange,
           NEW r \in Replicas, NEW n \in Names, NEW code, NEW v,
           Return(r, n, code, v),
           code = "OK" => v \in VolIds /\ Settled(vol, v, n)
    PROVE  FlightKnows'
<1> DEFINE g == [flight[r][n] EXCEPT !.pc = "ret", !.res = code, !.id = v]
<1>1. flight[r][n] \in Flight
  BY DEF TypeInv, FlightInv
<1>2. g.pc = "ret" /\ g.res = code /\ g.id = v
  BY <1>1 DEF Flight
<1>3. flight' = [flight EXCEPT ![r][n] = g]
  BY DEF Return, TypeInv, FlightInv, Flight
<1>4. code = "OK" => Settled(vol', v, n)
  BY VolSafe DEF SafeInv
<1> HIDE DEF g
<1>5. g.res = "OK" => Settled(vol', g.id, n)
  BY <1>2, <1>4 DEF Settled
<1> QED
  BY <1>2, <1>3, <1>5, FlightLearns

LEMMA SafeFlightStep ==
    ASSUME Remembered, TypeInv, SafeInv, NEW r \in Replicas, NEW n \in Names,
           FlightStep(r, n)
    PROVE  SafeInv'
<1>v. VolChange
  BY NextChangesVol DEF Next
<1>s. /\ VolInv'
      /\ UNCHANGED answered => AnswerKnows'
      /\ UNCHANGED call => CallKnows'
      /\ UNCHANGED removed => RemovedKnows'
  BY <1>v, KnownStays
<1>f. flight[r][n] \in Flight
  BY DEF TypeInv, FlightInv
<1>1. CASE Enter(r, n)
  <2>1. FlightKnows'
    <3>1. CASE Return(r, n, "InvalidArgument", Nil)
      BY <1>v, <3>1, ReturnLearns
    <3>2. ASSUME NEW g, flight' = [flight EXCEPT ![r][n] = g],
                 g.pc # "fetch", g.pc # "ret" \/ g.res # "OK"
          PROVE  FlightKnows'
      BY <1>v, <3>2, FlightLearns
    <3>3. CASE flight' = [flight EXCEPT ![r][n].pc = "ret", ![r][n].res = "Aborted"]
      <4> DEFINE g == [flight[r][n] EXCEPT !.pc = "ret", !.res = "Aborted"]
      <4>1. g.pc = "ret" /\ g.res = "Aborted"
        BY <1>f DEF Flight
      <4>2. flight' = [flight EXCEPT ![r][n] = g]
        BY <3>3 DEF TypeInv, FlightInv, Flight
      <4> HIDE DEF g
      <4> QED
        BY <3>2, <4>1, <4>2
    <3>4. CASE flight' = [flight EXCEPT ![r][n].pc = "lookup"]
      <4> DEFINE g == [flight[r][n] EXCEPT !.pc = "lookup"]
      <4>1. g.pc = "lookup"
        BY <1>f DEF Flight
      <4>2. flight' = [flight EXCEPT ![r][n] = g]
        BY <3>4 DEF TypeInv, FlightInv, Flight
      <4> HIDE DEF g
      <4> QED
        BY <3>2, <4>1, <4>2
    <3> QED
      BY <1>1, <3>1, <3>3, <3>4 DEF Enter
  <2> QED
    BY <1>1, <1>s, <2>1 DEF Enter, SafeInv
<1>2. CASE LookupMisses(r, n)
  <2>1. FlightKnows'
    <3>1. CASE Return(r, n, "Aborted", Nil)
      BY <1>v, <3>1, ReturnLearns
    <3>2. CASE flight' = [flight EXCEPT ![r][n].pc = "create"]
      <4> DEFINE g == [flight[r][n] EXCEPT !.pc = "create"]
      <4>1. g.pc = "create"
        BY <1>f DEF Flight
      <4>2. flight' = [flight EXCEPT ![r][n] = g]
        BY <3>2 DEF TypeInv, FlightInv, Flight
      <4> HIDE DEF g
      <4> QED
        BY <1>v, <4>1, <4>2, FlightLearns
    <3> QED
      BY <1>2, <3>1, <3>2 DEF LookupMisses
  <2> QED
    BY <1>2, <1>s, <2>1 DEF LookupMisses, SafeInv
<1>3. CASE LookupHits(r, n)
  <2>1. PICK v \in Listed(n), code \in {"AlreadyExists", "Aborted", "OK"} :
           /\ code = "OK" => vol[v].status # "Creating"
           /\ Return(r, n, code, v) \/ Return(r, n, "Internal", Nil)
    BY <1>3 DEF LookupHits, Verdict
  <2>2. v \in VolIds /\ (code = "OK" => Settled(vol, v, n))
    BY <2>1 DEF Listed, Live, Settled, SafeInv, VolInv
  <2>3. FlightKnows'
    BY <1>v, <2>1, <2>2, ReturnLearns
  <2> QED
    BY <1>3, <1>s, <2>3 DEF LookupHits, SafeInv
<1>4. CASE CreateSucceeds(r, n)
  <2>1. PICK v \in VolIds :
           /\ CloudCreates(r, n, v)
           /\ flight' = [flight EXCEPT ![r][n].pc = "fetch", ![r][n].id = v]
    BY <1>4 DEF CreateSucceeds
  <2> DEFINE g == [flight[r][n] EXCEPT !.pc = "fetch", !.id = v]
  <2>2. g.pc = "fetch" /\ g.id = v
    BY <1>f DEF Flight
  <2>3. flight' = [flight EXCEPT ![r][n] = g]
    BY <2>1 DEF TypeInv, FlightInv, Flight
  <2>4. Named(vol', v, n)
    BY <2>1, CreatedIsNamed DEF SafeInv
  <2> HIDE DEF g
  <2>5. Named(vol', g.id, n)
    BY <2>2, <2>4 DEF Named, Born
  <2>6. FlightKnows'
    BY <1>v, <2>2, <2>3, <2>5, FlightLearns
  <2> QED
    BY <1>4, <1>s, <2>6 DEF CreateSucceeds, SafeInv
<1>5. CASE CreateReplyLost(r, n)
  <2>1. FlightKnows'
    BY <1>5, <1>v, ReturnLearns DEF CreateReplyLost
  <2> QED
    BY <1>5, <1>s, <2>1 DEF CreateReplyLost, SafeInv
<1>6. CASE Fetch(r, n)
  <2> DEFINE v == flight[r][n].id
  <2>1. v \in VolIds /\ Named(vol, v, n)
    BY <1>6 DEF Fetch, SafeInv, FlightKnows, TypeInv, FlightInv
  <2>2. PICK code, w :
           /\ code = "OK" => w = v /\ Detailed(v) /\ vol[v].status # "Creating"
           /\ Return(r, n, code, w)
    BY <1>6 DEF Fetch, Verdict
  <2>3. code = "OK" => w \in VolIds /\ Settled(vol, w, n)
    BY <2>1, <2>2 DEF Detailed, Live, Settled, Named
  <2>4. FlightKnows'
    BY <1>v, <2>2, <2>3, ReturnLearns
  <2> QED
    BY <1>6, <1>s, <2>4 DEF Fetch, SafeInv
<1>7. CASE RequestFails(r, n)
  <2>1. FlightKnows'
    BY <1>7, <1>v, ReturnLearns DEF RequestFails
  <2> QED
    BY <1>7, <1>s, <2>1 DEF RequestFails, SafeInv
<1>8. CASE Retry(r, n)
  <2> DEFINE g == [flight[r][n] EXCEPT !.pc = "run", !.res = "none", !.id = Nil]
  <2>1. g.pc = "run"
    BY <1>f DEF Flight
  <2>2. flight' = [flight EXCEPT ![r][n] = g]
    BY <1>8 DEF Retry
  <2> HIDE DEF g
  <2>3. FlightKnows'
    BY <1>v, <2>1, <2>2, FlightLearns
  <2> QED
    BY <1>8, <1>s, <2>3 DEF Retry, SafeInv
<1>9. CASE Finish(r, n)
  <2>1. FlightKnows'
    BY <1>9, <1>v, FlightLearns DEF Finish, Idle
  <2>2. AnswerKnows'
    <3>1. \A a \in answered' :
             a \in answered \/ (/\ a[1] = n
                                /\ a[3] = flight[r][n].id
                                /\ flight[r][n].pc = "ret"
                                /\ flight[r][n].res = "OK")
      BY <1>9 DEF Finish
    <3>2. \A a \in answered' : Settled(vol, a[3], a[1])
      BY <3>1 DEF SafeInv, AnswerKnows, FlightKnows
    <3> QED
      BY <1>9, <3>2 DEF Finish, AnswerKnows, Settled
  <2>3. CallKnows'
    BY <1>9 DEF Finish, CallKnows, SafeInv, NoCall, TypeInv, CallInv, Settled
  <2> QED
    BY <1>9, <1>s, <2>1, <2>2, <2>3 DEF Finish, SafeInv
<1> QED
  BY <1>1, <1>2, <1>3, <1>4, <1>5, <1>6, <1>7, <1>8, <1>9 DEF FlightStep

LEMMA SafeCallStep ==
    ASSUME Remembered, TypeInv, SafeInv, NEW c \in Calls, CallStep(c)
    PROVE  SafeInv'
<1>v. VolChange
  BY NextChangesVol DEF Next
<1>s. /\ VolInv'
      /\ UNCHANGED flight => FlightKnows'
      /\ UNCHANGED answered => AnswerKnows'
      /\ UNCHANGED removed => RemovedKnows'
  BY <1>v, KnownStays
<1>c. ASSUME NEW d, call' = [call EXCEPT ![c] = d],
             d.st \in {"del_get", "del_do"}
                => d.id \in VolIds /\ d.name \in Names /\ Settled(vol, d.id, d.name)
      PROVE  CallKnows'
  <2>1. /\ call'[c] = d
        /\ \A e \in Calls : e # c => call'[e] = call[e]
    BY <1>c DEF TypeInv, CallInv
  <2>2. \A e \in Calls : call'[e].st \in {"del_get", "del_do"}
           => /\ call'[e].id \in VolIds
              /\ call'[e].name \in Names
              /\ Settled(vol, call'[e].id, call'[e].name)
    BY <1>c, <2>1 DEF SafeInv, CallKnows, TypeInv, CallInv
  <2>3. \A v \in VolIds, m \in Names : Settled(vol, v, m) => Settled(vol', v, m)
    BY <1>v, VolSafe DEF SafeInv
  <2> QED
    BY <2>2, <2>3 DEF CallKnows, Settled
<1>n. call' = [call EXCEPT ![c] = NoCall] => CallKnows'
  BY <1>c DEF NoCall
<1>1. ASSUME NEW r \in Replicas, NEW n \in Names, NEW s \in Sizes,
             CreateVolume(c, r, n, s)
      PROVE  SafeInv'
  <2> DEFINE d == [NoCall EXCEPT !.st = "create", !.at = r, !.name = n, !.size = s]
             g == [Idle EXCEPT !.pc = "run", !.size = s]
  <2>1. d.st = "create" /\ g.pc = "run"
    BY DEF NoCall, Idle
  <2>2. call' = [call EXCEPT ![c] = d]
    BY <1>1 DEF CreateVolume
  <2>3. CASE UNCHANGED flight
    <3> HIDE DEF d
    <3> QED
      BY <1>1, <1>s, <1>c, <2>1, <2>2, <2>3 DEF CreateVolume, SafeInv
  <2>4. CASE flight' = [flight EXCEPT ![r][n] = g]
    <3> HIDE DEF d, g
    <3>1. FlightKnows'
      BY <1>v, <2>1, <2>4, FlightLearns
    <3> QED
      BY <1>1, <1>s, <1>c, <2>1, <2>2, <3>1 DEF CreateVolume, SafeInv
  <2> QED
    BY <1>1, <2>3, <2>4 DEF CreateVolume
<1>2. ASSUME NEW r \in Replicas, NEW n \in Names, NEW v \in VolIds,
             DeleteVolume(c, r, n, v)
      PROVE  SafeInv'
  <2> DEFINE d == [NoCall EXCEPT !.st = "del_get", !.at = r, !.name = n, !.id = v]
  <2>1. d.id = v /\ d.name = n
    BY DEF NoCall
  <2>2. call' = [call EXCEPT ![c] = d]
    BY <1>2 DEF DeleteVolume
  <2>3. Settled(vol, v, n)
    BY <1>2 DEF DeleteVolume, SafeInv, AnswerKnows
  <2> HIDE DEF d
  <2> QED
    BY <1>2, <1>s, <1>c, <2>1, <2>2, <2>3 DEF DeleteVolume, local, SafeInv
<1>3. CASE DeleteLookup(c)
  <2>1. call[c].st = "del_get" /\ call[c] \in Call /\ call[c].id \in VolIds
        /\ call[c].name \in Names /\ Settled(vol, call[c].id, call[c].name)
    BY <1>3 DEF DeleteLookup, SafeInv, CallKnows, TypeInv, CallInv
  <2>2. CASE call' = [call EXCEPT ![c].st = "del_do"] /\ UNCHANGED removed
    <3> DEFINE d == [call[c] EXCEPT !.st = "del_do"]
    <3>1. d.id = call[c].id /\ d.name = call[c].name
      BY <2>1 DEF Call
    <3>2. call' = [call EXCEPT ![c] = d]
      BY <2>2 DEF TypeInv, CallInv, Call
    <3> HIDE DEF d
    <3> QED
      BY <1>3, <1>s, <1>c, <2>1, <2>2, <3>1, <3>2 DEF DeleteLookup, local, SafeInv
  <2>3. CASE /\ ~Detailed(call[c].id)
             /\ call' = [call EXCEPT ![c] = NoCall]
             /\ removed' = removed \cup {call[c].id}
    <3>1. RemovedKnows'
      BY <1>3, <2>1, <2>3 DEF DeleteLookup, RemovedKnows, SafeInv, Settled, Detailed, Live
    <3> QED
      BY <1>3, <1>s, <1>n, <2>3, <3>1 DEF DeleteLookup, local, SafeInv
  <2> QED
    BY <1>3, <2>2, <2>3 DEF DeleteLookup
<1>4. CASE DeleteOnCloud(c)
  <2>1. RemovedKnows'
    BY <1>4 DEF DeleteOnCloud, RemovedKnows, SafeInv, TypeInv, RestInv, CallInv, Volume
  <2> QED
    BY <1>4, <1>s, <1>n, <2>1 DEF DeleteOnCloud, local, SafeInv
<1>5. CASE DeleteFails(c)
  BY <1>5, <1>s, <1>n DEF DeleteFails, local, SafeInv
<1>6. CASE GiveUp(c)
  BY <1>6, <1>s, <1>n DEF GiveUp, local, SafeInv
<1> QED
  BY <1>1, <1>2, <1>3, <1>4, <1>5, <1>6 DEF CallStep

LEMMA SafeStep ==
    ASSUME Remembered
    PROVE  TypeInv /\ SafeInv /\ [Next]_vars => SafeInv'
<1> SUFFICES ASSUME TypeInv, SafeInv, [Next]_vars PROVE SafeInv'
  OBVIOUS
<1>v. VolChange
  BY NextChangesVol
<1>s. /\ VolInv'
      /\ UNCHANGED flight => FlightKnows'
      /\ UNCHANGED answered => AnswerKnows'
      /\ UNCHANGED call => CallKnows'
      /\ UNCHANGED removed => RemovedKnows'
  BY <1>v, KnownStays
<1>1. CASE UNCHANGED vars
  BY <1>1, <1>s DEF vars, SafeInv
<1>2. ASSUME NEW v \in VolIds, CloudStep(v) PROVE SafeInv'
  BY <1>2, <1>s DEF CloudStep, Sync, Build, local, SafeInv
<1>3. ASSUME NEW r \in Replicas, Crash(r) PROVE SafeInv'
  <2>1. \A v \in VolIds, m \in Names :
           /\ Named(vol, v, m) => Named(vol', v, m)
           /\ Settled(vol, v, m) => Settled(vol', v, m)
    BY <1>v, VolSafe DEF SafeInv
  <2>2. FlightKnows'
    BY <1>3, <2>1 DEF Crash, FlightKnows, SafeInv, TypeInv, FlightInv, Idle,
                      Named, Settled, Born
  <2>3. CallKnows'
    BY <1>3, <2>1 DEF Crash, CallKnows, SafeInv, TypeInv, CallInv, NoCall, Settled
  <2> QED
    BY <1>3, <1>s, <2>2, <2>3 DEF Crash, SafeInv
<1> QED
  BY <1>1, <1>2, <1>3, SafeFlightStep, SafeCallStep DEF Next

LEMMA SafeAlways ==
    ASSUME Remembered
    PROVE  Spec => [](TypeInv /\ SafeInv)
<1>1. TypeInv /\ SafeInv /\ [Next]_vars => TypeInv' /\ SafeInv'
  BY TypeStep, SafeStep
<1> QED
  BY <1>1, TypeInit, SafeInit, PTL DEF Spec

\* Over a cloud that remembers client tokens, no number of replicas, crashes,
\* lost replies, zombie flights and lagging reads makes two volumes of a name.
THEOREM NeverTwoVolumes ==
    ASSUME "token_forgotten" \notin Faults
    PROVE  Spec => []OneVolumePerName
<1>1. TypeInv /\ SafeInv => OneVolumePerName
  BY DEF SafeInv, VolInv, OneVolumePerName, Live, Born
<1> QED
  BY <1>1, SafeAlways, PTL DEF Remembered

\* All answers for a name are one volume of that name that is no longer being
\* built.
THEOREM AnswersAlwaysAgree ==
    ASSUME "token_forgotten" \notin Faults
    PROVE  Spec => []AnswersAgree
<1>1. TypeInv /\ SafeInv => AnswersAgree
  BY DEF TypeInv, RestInv, SafeInv, VolInv, AnswerKnows, Settled, AnswersAgree, Born
<1> QED
  BY <1>1, SafeAlways, PTL DEF Remembered

\* Once DeleteVolume is answered OK the name has no volume, provided that the
\* detail path never lags behind the list path: DeleteVolume takes "not found
\* by id" for "deleted".
THEOREM DeletedStaysGone ==
    ASSUME "token_forgotten" \notin Faults, "detail_lag" \notin Faults
    PROVE  Spec => []DeletedIsGone
<1>1. TypeInv /\ SafeInv => DeletedIsGone
  BY DEF TypeInv, RestInv, SafeInv, VolInv, AnswerKnows, RemovedKnows, Settled,
         DetailFirst, DeletedIsGone, Live, Born
<1> QED
  BY <1>1, SafeAlways, PTL DEF Remembered

-----------------------------------------------------------------------------
(* One replica over a cloud that may forget client tokens: the singleflight *)
(* group and creatingVolumeCache alone keep a name from a second volume, as *)
(* long as no process dies and no reply is lost (either loses the cache     *)
(* entry) and the list path does not lag behind the detail path.            *)

OneProcess ==
    /\ \A r, s \in Replicas : r = s
    /\ Faults \cap {"crash", "lost_reply", "list_lag"} = {}

\* Where a volume is, it carries the token of its name, and it is listed when it can
\* be fetched.
LiveInv ==
    \A v \in VolIds : Live(v) =>
        /\ vol[v].name \in Names
        /\ vol[v].token = <<ClusterID, vol[v].name>>
        /\ "detail" \in vol[v].seen => "list" \in vol[v].seen

\* A volume that is not listed yet is remembered ...
CacheInv ==
    \A r \in Replicas, v \in VolIds :
        Live(v) => "list" \in vol[v].seen \/ vol[v].name \in cache[r]

\* ... so that a flight that goes to create has made sure that there is none; what it
\* created is of the name it works for.
GuardInv ==
    \A r \in Replicas, n \in Names :
        /\ flight[r][n].pc = "create"
              => \A v \in VolIds : Live(v) => vol[v].name # n
        /\ flight[r][n].pc = "fetch"
              => Born(flight[r][n].id)
                 /\ (Live(flight[r][n].id) => vol[flight[r][n].id].name = n)

LoneInv == LiveInv /\ CacheInv /\ GuardInv /\ OneVolumePerName

\* Volumes come to an end, or are seen on more paths, but none is new.
NoneNew ==
    \A v \in VolIds :
        /\ Born(v) => Born(v)'
        /\ Live(v)' => /\ Live(v)
                       /\ vol'[v].name = vol[v].name
                       /\ vol'[v].token = vol[v].token
                       /\ vol[v].seen \subseteq vol'[v].seen
                       /\ "detail" \in vol'[v].seen => "list" \in vol'[v].seen

\* Nothing that the invariant relies on is given up where no volume is new.
LEMMA LoneStays ==
    ASSUME LoneInv, NoneNew,
           \A r \in Replicas, n \in Names :
              /\ flight'[r][n].pc = "create" =>
                    \/ flight[r][n].pc = "create"
                    \/ Listed(n) = {} /\ n \notin cache[r]
              /\ flight'[r][n].pc = "fetch" =>
                    flight[r][n].pc = "fetch" /\ flight'[r][n].id = flight[r][n].id
                    /\ flight[r][n].id \in VolIds
              /\ n \in cache[r] \ cache'[r] =>
                    \A v \in VolIds : Live(v) /\ vol[v].name = n
                                         => "list" \in vol[v].seen
    PROVE  LoneInv'
<1>1. LiveInv' /\ OneVolumePerName'
  BY DEF LoneInv, LiveInv, OneVolumePerName, NoneNew
<1>2. CacheInv'
  BY DEF LoneInv, LiveInv, CacheInv, NoneNew
<1>3. GuardInv'
  <2>1. \A r \in Replicas, n \in Names, v \in VolIds :
           Listed(n) = {} /\ n \notin cache[r] /\ Live(v) => vol[v].name # n
    BY DEF LoneInv, CacheInv, Listed
  <2> QED BY <2>1 DEF LoneInv, GuardInv, NoneNew
<1> QED BY <1>1, <1>2, <1>3 DEF LoneInv

\* The one flight of a name creates its volume and remembers it.
LEMMA LoneCreates ==
    ASSUME OneProcess, TypeInv, LoneInv, NEW r \in Replicas, NEW n \in Names,
           CreateSucceeds(r, n)
    PROVE  LoneInv'
<1> vol \in [VolIds -> Volume] /\ cache \in [Replicas -> SUBSET Names]
  BY DEF TypeInv, RestInv
<1>0. PICK v \in VolIds :
         /\ CloudCreates(r, n, v)
         /\ flight' = [flight EXCEPT ![r][n].pc = "fetch", ![r][n].id = v]
  BY DEF CreateSucceeds
<1>1. /\ \A m \in Names : m # n => flight'[r][m] = flight[r][m]
      /\ flight'[r][n].pc = "fetch" /\ flight'[r][n].id = v
      /\ \A s \in Replicas : s = r
  BY <1>0 DEF OneProcess, TypeInv, FlightInv, Flight
<1>2. cache' = [cache EXCEPT ![r] = @ \cup {n}]
      /\ \A w \in VolIds : Live(w) => vol[w].name # n
  BY DEF CreateSucceeds, LoneInv, GuardInv
<1>3. CASE v \in Holders(ClientToken(r, n)) /\ UNCHANGED vol
  <2>1. Born(v) /\ ~Live(v)
    BY <1>2, <1>3 DEF Holders, ClientToken, LoneInv, LiveInv
  <2>2. LiveInv' /\ OneVolumePerName' /\ CacheInv'
    BY <1>1, <1>2, <1>3
    DEF LoneInv, LiveInv, OneVolumePerName, CacheInv, Live
  <2>3. GuardInv'
    BY <1>1, <1>3, <2>1 DEF LoneInv, GuardInv, Live, Born
  <2> QED BY <2>2, <2>3 DEF LoneInv
<1>4. CASE /\ ~Born(v)
           /\ vol' = [vol EXCEPT ![v] = [status |-> "Creating", name |-> n,
                                         size |-> flight[r][n].size,
                                         token |-> ClientToken(r, n), seen |-> {}]]
  <2>1. /\ \A w \in VolIds : w # v => vol'[w] = vol[w]
        /\ vol'[v].status = "Creating" /\ vol'[v].name = n
        /\ vol'[v].token = <<ClusterID, n>> /\ vol'[v].seen = {}
    BY <1>4 DEF ClientToken
  <2>2. LiveInv' /\ OneVolumePerName'
    BY <1>2, <2>1 DEF LoneInv, LiveInv, OneVolumePerName, Live
  <2>3. CacheInv'
    BY <1>1, <1>2, <2>1 DEF LoneInv, CacheInv, Live
  <2>4. GuardInv'
    <3>1. ASSUME NEW m \in Names, m # n, flight[r][m].pc = "fetch"
          PROVE  flight[r][m].id \in VolIds /\ flight[r][m].id # v
      BY <1>4, <3>1 DEF TypeInv, FlightInv, LoneInv, GuardInv
    <3>2. \A m \in Names : m # n =>
             /\ flight'[r][m].pc = "create" => \A w \in VolIds : Live(w)' => vol'[w].name # m
             /\ flight'[r][m].pc = "fetch" =>
                   /\ vol'[flight'[r][m].id].status # "Unborn"
                   /\ vol'[flight'[r][m].id].status \in {"Creating", "Available", "Error"}
                        => vol'[flight'[r][m].id].name = m
      BY <1>1, <2>1, <3>1 DEF LoneInv, GuardInv, Live, Born
    <3>3. /\ flight'[r][n].pc = "fetch" /\ flight'[r][n].id = v
          /\ vol'[v].status = "Creating" /\ vol'[v].name = n
      BY <1>1, <2>1
    <3> QED BY <1>1, <3>2, <3>3 DEF GuardInv, Live, Born
  <2> QED BY <2>2, <2>3, <2>4 DEF LoneInv
<1> QED BY <1>0, <1>3, <1>4 DEF CloudCreates

LEMMA LoneFlightStep ==
    ASSUME OneProcess, TypeInv, LoneInv, NEW r \in Replicas, NEW n \in Names,
           FlightStep(r, n)
    PROVE  LoneInv'
<1>t. /\ flight \in [Replicas -> [Names -> Flight]]
      /\ cache \in [Replicas -> SUBSET Names]
      /\ flight[r][n].pc = "fetch" => flight[r][n].id \in VolIds
      /\ \A s \in Replicas, m \in Names :
            flight[s][m].pc = "fetch" => flight[s][m].id \in VolIds
  BY DEF TypeInv, FlightInv, RestInv
<1>1. CASE CreateSucceeds(r, n)
  BY <1>1, LoneCreates
<1>2. CASE CreateReplyLost(r, n)
  BY <1>2 DEF CreateReplyLost, Fault, OneProcess
<1>3. CASE ~(CreateSucceeds(r, n) \/ CreateReplyLost(r, n))
  <2>1. UNCHANGED vol
    BY <1>3 DEF FlightStep, Enter, LookupMisses, LookupHits, Fetch, RequestFails,
                Retry, Finish
  <2>2. NoneNew
    BY <2>1 DEF NoneNew, LoneInv, LiveInv, Live, Born
  <2>3. \A s \in Replicas, m \in Names :
           /\ s # r \/ m # n => flight'[s][m] = flight[s][m]
           /\ flight'[r][n].pc = "create" =>
                 Listed(n) = {} /\ n \notin cache[r]
           /\ flight'[r][n].pc # "fetch"
    <3>1. \A code, v : Return(r, n, code, v) =>
             \A s \in Replicas, m \in Names :
                 /\ s # r \/ m # n => flight'[s][m] = flight[s][m]
                 /\ flight'[r][n].pc = "ret"
      BY <1>t DEF Return, Flight
    <3>2. CASE Enter(r, n)
      BY <1>t, <3>1, <3>2 DEF Enter, Flight
    <3>3. CASE LookupMisses(r, n)
      BY <1>t, <3>1, <3>3 DEF LookupMisses, Flight
    <3>4. CASE LookupHits(r, n)
      BY <3>1, <3>4 DEF LookupHits
    <3>5. CASE Fetch(r, n) \/ RequestFails(r, n)
      BY <3>1, <3>5 DEF Fetch, RequestFails
    <3>6. CASE Retry(r, n)
      <4>1. flight' = [flight EXCEPT ![r][n] = [flight[r][n] EXCEPT !.pc = "run",
                                                     !.res = "none", !.id = Nil]]
        BY <3>6 DEF Retry
      <4> QED BY <1>t, <4>1 DEF Flight
    <3>7. CASE Finish(r, n)
      BY <1>t, <3>7 DEF Finish, Idle
    <3> QED BY <1>3, <3>2, <3>3, <3>4, <3>5, <3>6, <3>7 DEF FlightStep
  <2>4. \A s \in Replicas, m \in Names : m \in cache[s] \ cache'[s] =>
           \A v \in VolIds : Live(v) /\ vol[v].name = m => "list" \in vol[v].seen
    <3>1. CASE UNCHANGED cache
      BY <3>1
    <3>2. CASE \E v \in VolIds : /\ cache' = [cache EXCEPT ![r] = @ \ {n}]
                                 /\ Live(v) /\ vol[v].name = n
                                 /\ "list" \in vol[v].seen
      BY <1>t, <3>2 DEF LoneInv, OneVolumePerName
    <3>3. Fetch(r, n) /\ ~UNCHANGED cache =>
             /\ cache' = [cache EXCEPT ![r] = @ \ {n}]
             /\ flight[r][n].id \in VolIds
             /\ Live(flight[r][n].id) /\ vol[flight[r][n].id].name = n
             /\ "list" \in vol[flight[r][n].id].seen
      BY <1>t DEF Fetch, Detailed, LoneInv, GuardInv, LiveInv
    <3> QED
      BY <1>3, <3>1, <3>2, <3>3
      DEF FlightStep, Enter, LookupMisses, LookupHits, Listed, RequestFails, Retry,
          Finish
  <2> QED BY <1>t, <2>2, <2>3, <2>4, LoneStays
<1> QED BY <1>1, <1>2, <1>3

LEMMA LoneStep ==
    ASSUME OneProcess, TypeInv, LoneInv, [Next]_vars
    PROVE  LoneInv'
<1>t. /\ flight \in [Replicas -> [Names -> Flight]]
      /\ \A s \in Replicas, m \in Names :
            flight[s][m].pc = "fetch" => flight[s][m].id \in VolIds
      /\ vol \in [VolIds -> Volume]
  BY DEF TypeInv, FlightInv, RestInv
<1>1. ASSUME UNCHANGED <<flight, cache>>, NoneNew
      PROVE  LoneInv'
  BY <1>t, <1>1, LoneStays
<1>2. CASE UNCHANGED <<flight, cache, vol>>
  BY <1>1, <1>2 DEF NoneNew, LoneInv, LiveInv, Live, Born
<1>3. ASSUME NEW c \in Calls, CallStep(c)
      PROVE  LoneInv'
  <2>1. ASSUME NEW r \in Replicas, NEW n \in Names, NEW s \in Sizes,
               CreateVolume(c, r, n, s)
        PROVE  LoneInv'
    <3>1. NoneNew /\ UNCHANGED cache
      BY <2>1 DEF CreateVolume, NoneNew, LoneInv, LiveInv, Live, Born
    <3>2. \A q \in Replicas, m \in Names :
             flight'[q][m] = flight[q][m] \/ flight'[q][m].pc = "run"
      BY <1>t, <2>1 DEF CreateVolume, Idle
    <3> QED BY <1>t, <3>1, <3>2, LoneStays
  <2>2. CASE \/ \E r \in Replicas, n \in Names, v \in VolIds : DeleteVolume(c, r, n, v)
             \/ DeleteLookup(c) \/ GiveUp(c)
    BY <1>2, <2>2 DEF DeleteVolume, DeleteLookup, GiveUp, local
  <2>3. CASE DeleteOnCloud(c) \/ DeleteFails(c)
    <3>1. CASE UNCHANGED vol
      BY <1>2, <2>3, <3>1 DEF DeleteOnCloud, DeleteFails, local
    <3>2. CASE vol' = [vol EXCEPT ![call[c].id].status = "Deleted"]
      <4>1. \A v \in VolIds : vol'[v] = vol[v] \/ vol'[v].status = "Deleted"
        BY <1>t, <3>2 DEF Volume
      <4>2. NoneNew
        BY <4>1 DEF NoneNew, LoneInv, LiveInv, Live, Born
      <4> QED BY <1>1, <2>3, <4>2 DEF DeleteOnCloud, DeleteFails, local
    <3> QED BY <2>3, <3>1, <3>2 DEF DeleteOnCloud, DeleteFails
  <2> QED BY <1>3, <2>1, <2>2, <2>3 DEF CallStep
<1>4. ASSUME NEW v \in VolIds, CloudStep(v)
      PROVE  LoneInv'
  <2>1. CASE Sync(v)
    <3>1. PICK s \in {{"list", "detail"}, {"list"}} : vol' = [vol EXCEPT ![v].seen = @ \cup s]
      BY <2>1 DEF Sync, OneProcess
    <3>2. \A w \in VolIds :
             /\ vol'[w].status = vol[w].status /\ vol'[w].name = vol[w].name
             /\ vol'[w].token = vol[w].token
             /\ vol'[w].seen = vol[w].seen \cup (IF w = v THEN s ELSE {})
      BY <1>t, <3>1 DEF Volume
    <3>3. NoneNew
      BY <3>2 DEF NoneNew, LoneInv, LiveInv, Live, Born
    <3> QED BY <1>1, <2>1, <3>3 DEF Sync, local
  <2>2. CASE Build(v)
    <3>1. vol[v].status = "Creating"
          /\ \E s \in {"Available", "Error"} : vol' = [vol EXCEPT ![v].status = s]
      BY <2>2 DEF Build
    <3>2. \A w \in VolIds :
             /\ vol'[w].status = vol[w].status
                  \/ (Live(w) /\ vol'[w].status \in {"Available", "Error"})
             /\ vol'[w].name = vol[w].name
             /\ vol'[w].token = vol[w].token
             /\ vol'[w].seen = vol[w].seen
      BY <1>t, <3>1 DEF Volume, Live
    <3>3. NoneNew
      BY <3>2 DEF NoneNew, LoneInv, LiveInv, Live, Born
    <3> QED BY <1>1, <2>2, <3>3 DEF Build, local
  <2> QED BY <1>4, <2>1, <2>2 DEF CloudStep
<1>5. ASSUME NEW r \in Replicas, Crash(r)
      PROVE  FALSE
  BY <1>5 DEF Crash, Fault, OneProcess
<1> QED
  BY <1>2, <1>3, <1>4, <1>5, LoneFlightStep DEF Next, vars

\* One replica needs no client token: its flight and its cache keep a name from a
\* second volume, whatever requests fail, callers go away, and however late the cloud
\* shows a new volume. It takes a process that lives, replies that arrive, and a list
\* that does not lag behind the detail path: Fetch forgets the name as soon as the
\* volume is found by its id.
THEOREM AloneNeverTwoVolumes ==
    ASSUME \A r, s \in Replicas : r = s,
           Faults \cap {"crash", "lost_reply", "list_lag"} = {}
    PROVE  Spec => []OneVolumePerName
<1>1. Init => LoneInv
  BY DEF Init, LoneInv, LiveInv, CacheInv, GuardInv, OneVolumePerName, Live, Born,
         Unborn, Idle
<1>2. TypeInv /\ LoneInv /\ [Next]_vars => LoneInv'
  BY LoneStep DEF OneProcess
<1>3. LoneInv => OneVolumePerName
  BY DEF LoneInv
<1> QED BY <1>1, <1>2, <1>3, TypeInit, TypeStep, PTL DEF Spec

-----------------------------------------------------------------------------
(* Locks: under any faults, token remembered or not.                       *)

Working(f) == f.pc \in {"lookup", "create", "fetch"}

\* LockTracksFlight for one name and one key at a time: name n of r holds the
\* key of the request it works on, and no key besides.
HoldsOwn(r, n) ==
    \A s \in Sizes : <<n, s>> \in locks[r] <=> /\ Working(flight[r][n])
                                               /\ flight[r][n].size = s

LEMMA TrackingIsHolding ==
    ASSUME TypeInv
    PROVE  LockTracksFlight <=> \A r \in Replicas, n \in Names : HoldsOwn(r, n)
<1>1. \A r \in Replicas, n \in Names :
         Working(flight[r][n]) => flight[r][n].size \in Sizes
  BY DEF TypeInv, FlightInv, Working
<1>2. \A r \in Replicas : locks[r] \subseteq Names \X Sizes
  BY DEF TypeInv, LockInv
<1>3. ASSUME NEW r \in Replicas
      PROVE  locks[r] = {<<n, flight[r][n].size>> :
                            n \in {m \in Names : Working(flight[r][m])}}
             <=> \A n \in Names : HoldsOwn(r, n)
  <2> DEFINE K == {<<n, flight[r][n].size>> :
                     n \in {m \in Names : Working(flight[r][m])}}
  <2>1. K \subseteq Names \X Sizes
    BY <1>1
  <2>2. \A n \in Names, s \in Sizes :
           <<n, s>> \in K <=> Working(flight[r][n]) /\ flight[r][n].size = s
    OBVIOUS
  <2>3. locks[r] = K <=> \A n \in Names, s \in Sizes :
                            <<n, s>> \in locks[r] <=> <<n, s>> \in K
    <3> HIDE DEF K
    <3> QED
      BY <1>2, <2>1
  <2> QED
    BY <2>2, <2>3 DEF HoldsOwn
<1> QED
  BY <1>3 DEF LockTracksFlight, Working

\* A step that touches only the flight and the keys of one name.
OnlyTouches(r, n) ==
    /\ \A q \in Replicas, m \in Names :
          q # r \/ m # n => flight'[q][m] = flight[q][m]
    /\ \A q \in Replicas, m \in Names, s \in Sizes :
          q # r \/ m # n => (<<m, s>> \in locks'[q] <=> <<m, s>> \in locks[q])

LEMMA HoldingStays ==
    ASSUME NEW r \in Replicas, NEW n \in Names,
           \A q \in Replicas, m \in Names : HoldsOwn(q, m),
           OnlyTouches(r, n), HoldsOwn(r, n)'
    PROVE  \A q \in Replicas, m \in Names : HoldsOwn(q, m)'
<1> SUFFICES ASSUME NEW q \in Replicas, NEW m \in Names, q # r \/ m # n
             PROVE  HoldsOwn(q, m)'
  OBVIOUS
<1> QED
  BY DEF OnlyTouches, HoldsOwn

\* createVolume returns: the key goes.
LEMMA HoldingReturn ==
    ASSUME TypeInv, NEW r \in Replicas, NEW n \in Names, NEW code, NEW v,
           \A q \in Replicas, m \in Names : HoldsOwn(q, m),
           Return(r, n, code, v)
    PROVE  \A q \in Replicas, m \in Names : HoldsOwn(q, m)'
<1>1. OnlyTouches(r, n)
  BY DEF Return, OnlyTouches, TypeInv, FlightInv, LockInv, Flight
<1>2. ~Working(flight'[r][n])
  BY DEF Return, Working, TypeInv, FlightInv, Flight
<1>3. locks'[r] = locks[r] \ {<<n, flight[r][n].size>>}
  BY DEF Return, TypeInv, LockInv
<1>4. HoldsOwn(r, n)'
  BY <1>2, <1>3 DEF HoldsOwn, Working
<1> QED
  BY <1>1, <1>4, HoldingStays

\* A flight that gets to work takes the key of its request.
LEMMA HoldingEnters ==
    ASSUME TypeInv, NEW r \in Replicas, NEW n \in Names,
           \A q \in Replicas, m \in Names : HoldsOwn(q, m),
           ~Working(flight[r][n]),
           flight' = [flight EXCEPT ![r][n].pc = "lookup"],
           locks' = [locks EXCEPT ![r] = @ \cup {<<n, flight[r][n].size>>}]
    PROVE  \A q \in Replicas, m \in Names : HoldsOwn(q, m)'
<1>1. OnlyTouches(r, n)
  BY DEF OnlyTouches, TypeInv, FlightInv, LockInv, Flight
<1>2. Working(flight'[r][n]) /\ flight'[r][n].size = flight[r][n].size
  BY DEF Working, TypeInv, FlightInv, Flight
<1>3. locks'[r] = locks[r] \cup {<<n, flight[r][n].size>>}
  BY DEF TypeInv, LockInv
<1>4. HoldsOwn(r, n)'
  BY <1>2, <1>3 DEF HoldsOwn, Working
<1> QED
  BY <1>1, <1>4, HoldingStays

\* A step that changes the flight of a name and no lock, from work to work or
\* from no work to no work.
LEMMA HoldingMoves ==
    ASSUME TypeInv, NEW r \in Replicas, NEW n \in Names, NEW g,
           \A q \in Replicas, m \in Names : HoldsOwn(q, m),
           flight' = [flight EXCEPT ![r][n] = g], UNCHANGED locks,
           Working(g) <=> Working(flight[r][n]),
           Working(g) => g.size = flight[r][n].size
    PROVE  \A q \in Replicas, m \in Names : HoldsOwn(q, m)'
<1>1. OnlyTouches(r, n)
  BY DEF OnlyTouches, TypeInv, FlightInv
<1>2. flight'[r][n] = g
  BY DEF TypeInv, FlightInv
<1>3. HoldsOwn(r, n)'
  BY <1>2 DEF HoldsOwn, Working
<1> QED
  BY <1>1, <1>3, HoldingStays

LEMMA HoldingStep ==
    ASSUME TypeInv, \A r \in Replicas, n \in Names : HoldsOwn(r, n), [Next]_vars
    PROVE  \A r \in Replicas, n \in Names : HoldsOwn(r, n)'
<1>s. ASSUME UNCHANGED <<flight, locks>>
      PROVE  \A r \in Replicas, n \in Names : HoldsOwn(r, n)'
  BY <1>s DEF HoldsOwn
<1>1. ASSUME NEW r \in Replicas, NEW n \in Names, FlightStep(r, n)
      PROVE  \A q \in Replicas, m \in Names : HoldsOwn(q, m)'
  <2>f. flight[r][n] \in Flight
    BY DEF TypeInv, FlightInv
  <2>1. CASE Enter(r, n)
    <3>1. ~Working(flight[r][n]) /\ flight[r][n].size \in Sizes
      BY <2>1 DEF Enter, Working, TypeInv, FlightInv
    <3>2. <<n, flight[r][n].size>> \notin locks[r]
      BY <3>1 DEF HoldsOwn
    <3>3. CASE Return(r, n, "InvalidArgument", Nil)
      BY <3>3, HoldingReturn
    <3>4. CASE /\ flight' = [flight EXCEPT ![r][n].pc = "lookup"]
               /\ locks' = [locks EXCEPT ![r] = @ \cup {<<n, flight[r][n].size>>}]
      BY <3>1, <3>4, HoldingEnters
    <3> QED
      BY <2>1, <3>2, <3>3, <3>4 DEF Enter
  <2>2. CASE LookupMisses(r, n)
    <3>1. CASE flight' = [flight EXCEPT ![r][n].pc = "create"] /\ UNCHANGED locks
      <4> DEFINE g == [flight[r][n] EXCEPT !.pc = "create"]
      <4>1. Working(g) /\ g.size = flight[r][n].size /\ Working(flight[r][n])
        BY <2>f, <2>2 DEF Flight, Working, LookupMisses
      <4>2. flight' = [flight EXCEPT ![r][n] = g]
        BY <3>1 DEF TypeInv, FlightInv, Flight
      <4> HIDE DEF g
      <4> QED
        BY <3>1, <4>1, <4>2, HoldingMoves
    <3> QED
      BY <2>2, <3>1, HoldingReturn DEF LookupMisses
  <2>3. CASE LookupHits(r, n)
    BY <2>3, HoldingReturn DEF LookupHits
  <2>4. CASE CreateSucceeds(r, n)
    <3>1. PICK v \in VolIds :
             flight' = [flight EXCEPT ![r][n].pc = "fetch", ![r][n].id = v]
      BY <2>4 DEF CreateSucceeds
    <3> DEFINE g == [flight[r][n] EXCEPT !.pc = "fetch", !.id = v]
    <3>2. Working(g) /\ g.size = flight[r][n].size /\ Working(flight[r][n])
      BY <2>f, <2>4 DEF Flight, Working, CreateSucceeds
    <3>3. flight' = [flight EXCEPT ![r][n] = g]
      BY <3>1 DEF TypeInv, FlightInv, Flight
    <3> HIDE DEF g
    <3> QED
      BY <2>4, <3>2, <3>3, HoldingMoves DEF CreateSucceeds
  <2>5. CASE CreateReplyLost(r, n)
    BY <2>5, HoldingReturn DEF CreateReplyLost
  <2>6. CASE Fetch(r, n)
    BY <2>6, HoldingReturn DEF Fetch
  <2>7. CASE RequestFails(r, n)
    BY <2>7, HoldingReturn DEF RequestFails
  <2>8. CASE Retry(r, n)
    <3> DEFINE g == [flight[r][n] EXCEPT !.pc = "run", !.res = "none", !.id = Nil]
    <3>1. ~Working(g) /\ ~Working(flight[r][n])
      BY <2>f, <2>8 DEF Flight, Working, Retry
    <3>2. flight' = [flight EXCEPT ![r][n] = g] /\ UNCHANGED locks
      BY <2>8 DEF Retry
    <3> HIDE DEF g
    <3> QED
      BY <3>1, <3>2, HoldingMoves
  <2>9. CASE Finish(r, n)
    <3>1. ~Working(Idle) /\ ~Working(flight[r][n])
      BY <2>9 DEF Idle, Working, Finish
    <3> QED
      BY <2>9, <3>1, HoldingMoves DEF Finish
  <2> QED
    BY <1>1, <2>1, <2>2, <2>3, <2>4, <2>5, <2>6, <2>7, <2>8, <2>9 DEF FlightStep
<1>2. ASSUME NEW c \in Calls, CallStep(c)
      PROVE  \A q \in Replicas, m \in Names : HoldsOwn(q, m)'
  <2>1. ASSUME NEW r \in Replicas, NEW n \in Names, NEW s \in Sizes,
               CreateVolume(c, r, n, s)
        PROVE  \A q \in Replicas, m \in Names : HoldsOwn(q, m)'
    <3> DEFINE g == [Idle EXCEPT !.pc = "run", !.size = s]
    <3>1. ~Working(g)
      BY DEF Working, Idle
    <3> HIDE DEF g
    <3>2. CASE flight[r][n].pc = "idle"
      <4>1. flight' = [flight EXCEPT ![r][n] = g] /\ UNCHANGED locks
        BY <2>1, <3>2 DEF CreateVolume, g
      <4>2. ~Working(flight[r][n])
        BY <3>2 DEF Working
      <4> QED
        BY <3>1, <4>1, <4>2, HoldingMoves
    <3> QED
      BY <1>s, <2>1, <3>2 DEF CreateVolume
  <2> QED
    BY <1>2, <1>s, <2>1 DEF CallStep, DeleteVolume, DeleteLookup, DeleteOnCloud,
                            DeleteFails, GiveUp, local
<1>3. ASSUME NEW v \in VolIds, CloudStep(v)
      PROVE  \A q \in Replicas, m \in Names : HoldsOwn(q, m)'
  BY <1>3, <1>s DEF CloudStep, Sync, Build, local
<1>4. ASSUME NEW r \in Replicas, Crash(r)
      PROVE  \A q \in Replicas, m \in Names : HoldsOwn(q, m)'
  BY <1>4 DEF Crash, HoldsOwn, Working, Idle, TypeInv, FlightInv, LockInv
<1> QED
  BY <1>1, <1>2, <1>3, <1>4, <1>s DEF Next, vars

\* A key of inProcessRequests is held exactly while createVolume works on that
\* request: on every return, failure and crash the lock goes with the work.
THEOREM LocksTrackFlights == Spec => []LockTracksFlight
<1> DEFINE Holding == \A r \in Replicas, n \in Names : HoldsOwn(r, n)
<1>1. Init => Holding
  BY DEF Init, HoldsOwn, Working, Idle
<1>2. TypeInv /\ Holding /\ [Next]_vars => Holding'
  BY HoldingStep
<1>3. TypeInv /\ Holding => LockTracksFlight
  BY TrackingIsHolding
<1> HIDE DEF Holding
<1> QED
  BY <1>1, <1>2, <1>3, TypeInit, TypeStep, PTL DEF Spec

-----------------------------------------------------------------------------
(* CdsProvision implements VolumeLedger, over a cloud that remembers client *)
(* tokens: each step of the controllers and of the cloud is a step of the   *)
(* ledger or leaves it alone.                                               *)
(*                                                                          *)
(* The order of asking and deleting: while anybody asks for a name, none of *)
(* its volumes is being deleted, and only promised volumes are.            *)

OrderInv ==
    /\ \A c \in Calls :
          /\ call[c].st = "create" => call[c].name \notin retired
          /\ call[c].st \in {"del_get", "del_do"}
                => /\ call[c].name \in retired
                   /\ \E a \in answered : a[1] = call[c].name
    /\ \A v \in VolIds : vol[v].status = "Deleted" => vol[v].name \in retired

LEMMA OrderInit == Init => OrderInv
BY DEF Init, OrderInv, NoCall, Unborn

LEMMA NoCallIsIdle == NoCall.st = "idle"
BY DEF NoCall

\* A create request deletes no volume.
LEMMA CreatingDeletesNone ==
    ASSUME TypeInv, NEW r \in Replicas, NEW n \in Names, NEW v \in VolIds,
           CloudCreates(r, n, v)
    PROVE  \A w \in VolIds : vol'[w].status = "Deleted"
                => vol[w].status = "Deleted" /\ vol'[w].name = vol[w].name
BY DEF CloudCreates, TypeInv, RestInv, Volume

LEMMA OrderFlightStep ==
    ASSUME TypeInv, OrderInv, NEW r \in Replicas, NEW n \in Names,
           FlightStep(r, n)
    PROVE  OrderInv'
<1>1. CASE CreateSucceeds(r, n) \/ CreateReplyLost(r, n)
  BY <1>1, CreatingDeletesNone DEF CreateSucceeds, CreateReplyLost, OrderInv
<1>2. CASE Finish(r, n)
  <2>1. answered \subseteq answered'
    BY <1>2 DEF Finish
  <2>2. \A c \in Calls : call'[c] = call[c] \/ call'[c] = NoCall
    BY <1>2 DEF Finish
  <2> QED
    BY <1>2, <2>1, <2>2, NoCallIsIdle DEF Finish, OrderInv
<1>3. CASE UNCHANGED <<vol, call, answered, retired>>
  BY <1>3 DEF OrderInv
<1> QED
  BY <1>1, <1>2, <1>3 DEF FlightStep, Enter, LookupMisses, LookupHits, Fetch,
                          RequestFails, Retry

LEMMA OrderCallStep ==
    ASSUME TypeInv, SafeInv, OrderInv, NEW c \in Calls, CallStep(c)
    PROVE  OrderInv'
<1>t. call \in [Calls -> Call] /\ vol \in [VolIds -> Volume]
  BY DEF TypeInv, CallInv, RestInv
<1>1. ASSUME NEW r \in Replicas, NEW n \in Names, NEW s \in Sizes,
             CreateVolume(c, r, n, s)
      PROVE  OrderInv'
  <2>1. /\ call'[c].st = "create" /\ call'[c].name = n
        /\ \A e \in Calls : e # c => call'[e] = call[e]
    BY <1>1, <1>t DEF CreateVolume, NoCall
  <2> QED
    BY <1>1, <2>1 DEF CreateVolume, OrderInv
<1>2. ASSUME NEW r \in Replicas, NEW n \in Names, NEW v \in VolIds,
             DeleteVolume(c, r, n, v)
      PROVE  OrderInv'
  <2>1. /\ call'[c].st = "del_get" /\ call'[c].name = n
        /\ \A e \in Calls : e # c => call'[e] = call[e]
    BY <1>2, <1>t DEF DeleteVolume, NoCall
  <2>2. \E a \in answered : a[1] = n
    BY <1>2 DEF DeleteVolume
  <2>3. \A e \in Calls : call[e].st = "create" => call[e].name # n
    BY <1>2 DEF DeleteVolume
  <2>4. retired' = retired \cup {n} /\ UNCHANGED <<vol, answered>>
    BY <1>2 DEF DeleteVolume
  <2> QED
    BY <2>1, <2>2, <2>3, <2>4 DEF OrderInv
<1>3. CASE DeleteLookup(c)
  <2>1. /\ call[c].st = "del_get"
        /\ call'[c] = NoCall \/ (/\ call'[c].st = "del_do"
                                 /\ call'[c].name = call[c].name)
        /\ \A e \in Calls : e # c => call'[e] = call[e]
    BY <1>3, <1>t DEF DeleteLookup, Call
  <2> QED
    BY <1>3, <2>1, NoCallIsIdle DEF DeleteLookup, OrderInv
<1>4. ASSUME call[c].st \in {"del_get", "del_do"},
             \/ UNCHANGED vol
             \/ vol' = [vol EXCEPT ![call[c].id].status = "Deleted"],
             call' = [call EXCEPT ![c] = NoCall],
             UNCHANGED <<answered, retired>>
      PROVE  OrderInv'
  <2>1. /\ call'[c].st = "idle"
        /\ \A e \in Calls : e # c => call'[e] = call[e]
    BY <1>4, <1>t, NoCallIsIdle
  <2>2. \A v \in VolIds : vol'[v].status = "Deleted"
           => /\ vol'[v].name = vol[v].name
              /\ vol[v].status = "Deleted" \/ vol[v].name = call[c].name
    BY <1>4, <1>t DEF Volume, SafeInv, CallKnows, Settled
  <2> QED
    BY <1>4, <2>1, <2>2 DEF OrderInv
<1>5. CASE DeleteOnCloud(c) \/ DeleteFails(c)
  BY <1>4, <1>5 DEF DeleteOnCloud, DeleteFails
<1>6. CASE GiveUp(c)
  <2>1. /\ call'[c].st = "idle"
        /\ \A e \in Calls : e # c => call'[e] = call[e]
    BY <1>6, <1>t, NoCallIsIdle DEF GiveUp
  <2> QED
    BY <1>6, <2>1 DEF GiveUp, OrderInv
<1> QED
  BY <1>1, <1>2, <1>3, <1>5, <1>6 DEF CallStep

LEMMA OrderStep ==
    ASSUME TypeInv, SafeInv, OrderInv, [Next]_vars
    PROVE  OrderInv'
<1>1. CASE UNCHANGED vars
  BY <1>1 DEF vars, OrderInv
<1>2. ASSUME NEW v \in VolIds, CloudStep(v) PROVE OrderInv'
  <2>1. \A w \in VolIds : /\ vol'[w].status = "Deleted" => vol[w].status = "Deleted"
                          /\ vol'[w].name = vol[w].name
    BY <1>2 DEF CloudStep, Sync, Build, TypeInv, RestInv, Volume
  <2> QED
    BY <1>2, <2>1 DEF CloudStep, Sync, Build, OrderInv
<1>3. ASSUME NEW r \in Replicas, Crash(r) PROVE OrderInv'
  <2>1. \A c \in Calls : call'[c] = call[c] \/ call'[c] = NoCall
    BY <1>3 DEF Crash
  <2> QED
    BY <1>3, <2>1, NoCallIsIdle DEF Crash, OrderInv
<1> QED
  BY <1>1, <1>2, <1>3, OrderFlightStep, OrderCallStep DEF Next

-----------------------------------------------------------------------------
(* Step simulation.                                                        *)

Backing(table, n) ==
    {v \in VolIds : /\ table[v].status \in {"Creating", "Available", "Error"}
                    /\ table[v].name = n}
Promised(answers, n) == {a[3] : a \in {b \in answers : b[1] = n}}

LEMMA LedgerInit == Init => Ledger!Init
BY DEF Init, Ledger!Init, Live, Unborn

\* What the ledger sees of a step of the controllers: nothing, or a new
\* volume, a new answer, a deletion.
Provides(n, v) ==
    /\ Backing(vol, n) = {} /\ Promised(answered, n) = {}
    /\ \A m \in Names : v \notin Backing(vol, m) \cup Promised(answered, m)
    /\ Backing(vol', n) = {v}
    /\ \A m \in Names : m # n => Backing(vol', m) = Backing(vol, m)
    /\ UNCHANGED answered

Promises(n) ==
    /\ Backing(vol, n) # {}
    /\ Promised(answered', n) = Backing(vol, n)
    /\ \A m \in Names : m # n => Promised(answered', m) = Promised(answered, m)
    /\ UNCHANGED vol

Withdraws(n) ==
    /\ Promised(answered, n) # {}
    /\ Backing(vol', n) = {}
    /\ \A m \in Names : m # n => Backing(vol', m) = Backing(vol, m)
    /\ UNCHANGED answered

Stutters ==
    /\ \A n \in Names : Backing(vol', n) = Backing(vol, n)
    /\ UNCHANGED answered

LEMMA ProvidesIsProvide ==
    ASSUME NEW n \in Names, NEW v \in VolIds, Provides(n, v)
    PROVE  Ledger!Provide(n, v)
<1> DEFINE B == [m \in Names |-> Backing(vol, m)]
           C == [m \in Names |-> Backing(vol', m)]
           P == [m \in Names |-> Promised(answered, m)]
<1>1. C = [B EXCEPT ![n] = {v}]
  BY DEF Provides
<1>2. P' = P
  BY DEF Provides
<1>3. B[n] = {} /\ P[n] = {} /\ \A m \in Names : v \notin B[m] \cup P[m]
  BY DEF Provides
<1> QED
  BY <1>1, <1>2, <1>3 DEF Ledger!Provide, Backing, Promised, Live

LEMMA PromisesIsPromise ==
    ASSUME NEW n \in Names, Promises(n)
    PROVE  Ledger!Promise(n)
<1> DEFINE B == [m \in Names |-> Backing(vol, m)]
           P == [m \in Names |-> Promised(answered, m)]
           Q == [m \in Names |-> Promised(answered', m)]
<1>1. Q = [P EXCEPT ![n] = B[n]]
  BY DEF Promises
<1>2. [m \in Names |-> Backing(vol', m)] = B
  BY DEF Promises
<1>3. B[n] # {}
  BY DEF Promises
<1> QED
  BY <1>1, <1>2, <1>3 DEF Ledger!Promise, Backing, Promised, Live

LEMMA WithdrawsIsWithdraw ==
    ASSUME NEW n \in Names, Withdraws(n)
    PROVE  Ledger!Withdraw(n)
<1> DEFINE B == [m \in Names |-> Backing(vol, m)]
           C == [m \in Names |-> Backing(vol', m)]
           P == [m \in Names |-> Promised(answered, m)]
<1>1. C = [B EXCEPT ![n] = {}]
  BY DEF Withdraws
<1>2. P' = P
  BY DEF Withdraws
<1>3. P[n] # {}
  BY DEF Withdraws
<1> QED
  BY <1>1, <1>2, <1>3 DEF Ledger!Withdraw, Backing, Promised, Live

LEMMA StuttersIsStutter ==
    ASSUME Stutters
    PROVE  UNCHANGED Ledger!ledger
<1>1. [n \in Names |-> Backing(vol', n)] = [n \in Names |-> Backing(vol, n)]
  BY DEF Stutters
<1> QED
  BY <1>1 DEF Stutters, Ledger!ledger, Backing, Live

\* One volume per name, as the sets the ledger sees.
LEMMA OneOfAName ==
    ASSUME VolInv, NEW v \in VolIds, NEW n \in Names, Named(vol, v, n)
    PROVE  /\ \A w \in VolIds : Named(vol, w, n) => w = v
           /\ Live(v) => Backing(vol, n) = {v}
           /\ ~Live(v) => Backing(vol, n) = {}
<1>1. \A w \in VolIds : Named(vol, w, n) => w = v
  BY DEF VolInv, Named, Born
<1>2. \A w \in Backing(vol, n) : w \in VolIds /\ Named(vol, w, n) /\ Live(w)
  BY DEF Backing, Named, Live
<1>3. Live(v) => v \in Backing(vol, n)
  BY DEF Backing, Named, Live
<1> QED
  BY <1>1, <1>2, <1>3

\* A create request that makes a volume provides the name with its first.
LEMMA CreateProvides ==
    ASSUME Remembered, TypeInv, SafeInv, NEW r \in Replicas, NEW n \in Names,
           NEW v \in VolIds, CloudCreates(r, n, v), UNCHANGED answered
    PROVE  Provides(n, v) \/ Stutters
<1>t. vol \in [VolIds -> Volume]
  BY DEF TypeInv, RestInv
<1>1. CASE UNCHANGED vol
  BY <1>1 DEF Stutters
<1>2. CASE ~UNCHANGED vol
  <2>1. /\ ~Born(v)
        /\ Holders(<<ClusterID, n>>) = {}
        /\ vol' = [vol EXCEPT ![v] = [status |-> "Creating", name |-> n,
                                      size |-> flight[r][n].size,
                                      token |-> ClientToken(r, n), seen |-> {}]]
    BY <1>2 DEF CloudCreates, Remembered, ClientToken
  <2>2. \A w \in VolIds : ~Named(vol, w, n)
    BY <2>1 DEF Holders, SafeInv, VolInv, Named, Born
  <2>3. /\ vol'[v].status = "Creating" /\ vol'[v].name = n
        /\ \A w \in VolIds : w # v => vol'[w] = vol[w]
    BY <1>t, <2>1
  <2>4. Backing(vol, n) = {}
    BY <2>2 DEF Backing, Named
  <2>5. Promised(answered, n) = {}
    BY <2>2 DEF Promised, SafeInv, AnswerKnows, Settled, Named, TypeInv, RestInv
  <2>6. \A m \in Names : v \notin Backing(vol, m) \cup Promised(answered, m)
    BY <2>1 DEF Backing, Promised, SafeInv, AnswerKnows, Settled, Born
  <2>7. Backing(vol', n) = {v}
    BY <2>2, <2>3 DEF Backing, Named
  <2>8. ASSUME NEW m \in Names, m # n
        PROVE  Backing(vol', m) = Backing(vol, m)
    BY <2>1, <2>3, <2>8 DEF Backing, Born
  <2> QED
    BY <2>4, <2>5, <2>6, <2>7, <2>8 DEF Provides
<1> QED
  BY <1>1, <1>2

\* Deleting a volume withdraws its name, if it was not deleted before.
LEMMA DeleteWithdraws ==
    ASSUME TypeInv, SafeInv, OrderInv, NEW c \in Calls,
           call[c].st \in {"del_get", "del_do"},
           vol' = [vol EXCEPT ![call[c].id].status = "Deleted"],
           UNCHANGED answered
    PROVE  \/ call[c].name \in Names /\ Withdraws(call[c].name)
           \/ Stutters
<1> DEFINE v == call[c].id
           n == call[c].name
<1>1. /\ v \in VolIds /\ n \in Names /\ Settled(vol, v, n) /\ Named(vol, v, n)
      /\ \E a \in answered : a[1] = n
  BY DEF TypeInv, CallInv, SafeInv, CallKnows, OrderInv, Settled, Named
<1>2. \A w \in VolIds :
         /\ vol'[w].name = vol[w].name
         /\ vol'[w].status = IF w = v THEN "Deleted" ELSE vol[w].status
  BY DEF TypeInv, RestInv, Volume
<1> HIDE DEF v, n
<1>3. Promised(answered, n) # {}
  BY <1>1 DEF Promised
<1>4. Backing(vol', n) = {}
  BY <1>1, <1>2, OneOfAName DEF Backing, SafeInv, Named
<1>5. ASSUME NEW m \in Names, m # n PROVE Backing(vol', m) = Backing(vol, m)
  BY <1>1, <1>2, <1>5 DEF Backing, Named
<1>6. n \in Names /\ Withdraws(n)
  BY <1>1, <1>3, <1>4, <1>5 DEF Withdraws
<1> QED
  BY <1>6 DEF n

\* A flight that answers OK promises the one volume of its name.
LEMMA FinishPromises ==
    ASSUME TypeInv, SafeInv, OrderInv, NEW r \in Replicas, NEW n \in Names,
           Finish(r, n)
    PROVE  Promises(n) \/ Stutters
<1> DEFINE v == flight[r][n].id
           waiting == {c \in Calls : /\ call[c].st = "create"
                                     /\ call[c].at = r
                                     /\ call[c].name = n}
<1>1. CASE flight[r][n].res # "OK" \/ waiting = {}
  <2>1. UNCHANGED <<vol, answered>>
    BY <1>1 DEF Finish
  <2> QED
    BY <2>1 DEF Stutters
<1>2. CASE flight[r][n].res = "OK" /\ waiting # {}
  <2>1. v \in VolIds /\ Settled(vol, v, n) /\ Named(vol, v, n)
    BY <1>2 DEF Finish, TypeInv, FlightInv, SafeInv, FlightKnows, Settled, Named
  <2>2. n \notin retired
    BY <1>2 DEF OrderInv
  <2>3. Live(v)
    BY <2>1, <2>2 DEF Live, Settled, OrderInv
  <2>4. Backing(vol, n) = {v}
    BY <2>1, <2>3, OneOfAName DEF SafeInv
  <2>5. /\ answered' = answered \cup {<<n, call[c].size, v>> : c \in waiting}
        /\ UNCHANGED vol
    BY <1>2 DEF Finish
  <2>6. Promised(answered, n) \subseteq {v}
    <3>1. ASSUME NEW a \in answered, a[1] = n PROVE a[3] = v
      <4>1. a[3] \in VolIds /\ Named(vol, a[3], n)
        BY <3>1 DEF TypeInv, RestInv, SafeInv, AnswerKnows, Settled, Named
      <4> QED
        BY <2>1, <4>1, OneOfAName DEF SafeInv
    <3> QED
      BY <3>1 DEF Promised
  <2> DEFINE new == {<<n, call[c].size, v>> : c \in waiting}
  <2>7. \A m \in Names : Promised(answered', m)
                          = Promised(answered, m) \cup Promised(new, m)
    <3>1. answered' = answered \cup new
      BY <2>5
    <3> HIDE DEF new
    <3> QED
      BY <3>1 DEF Promised
  <2>8. Promised(new, n) = {v} /\ \A m \in Names : m # n => Promised(new, m) = {}
    <3> HIDE DEF waiting, v
    <3>1. \A a \in new : a[1] = n /\ a[3] = v
      OBVIOUS
    <3>2. new # {}
      BY <1>2
    <3> HIDE DEF new
    <3> QED
      BY <3>1, <3>2 DEF Promised
  <2> HIDE DEF new, v
  <2>9. Promised(answered', n) = {v}
    BY <2>6, <2>7, <2>8
  <2>10. \A m \in Names : m # n => Promised(answered', m) = Promised(answered, m)
    BY <2>7, <2>8
  <2> QED
    BY <2>4, <2>5, <2>9, <2>10 DEF Promises
<1> QED
  BY <1>1, <1>2

LEMMA StepSimulates ==
    ASSUME Remembered, TypeInv, SafeInv, OrderInv, [Next]_vars
    PROVE  [Ledger!Next]_Ledger!ledger
<1> DEFINE Simulated == \/ \E n \in Names, v \in VolIds : Provides(n, v)
                        \/ \E n \in Names : Promises(n) \/ Withdraws(n)
                        \/ Stutters
<1>s. UNCHANGED <<vol, answered>> => Simulated
  BY DEF Stutters
<1>1. ASSUME NEW r \in Replicas, NEW n \in Names, FlightStep(r, n)
      PROVE  Simulated
  <2>1. CASE CreateSucceeds(r, n) \/ CreateReplyLost(r, n)
    BY <2>1, CreateProvides DEF CreateSucceeds, CreateReplyLost
  <2>2. CASE Finish(r, n)
    BY <2>2, FinishPromises
  <2> QED
    BY <1>1, <1>s, <2>1, <2>2
       DEF FlightStep, Enter, LookupMisses, LookupHits, Fetch, RequestFails, Retry
<1>2. ASSUME NEW c \in Calls, CallStep(c)
      PROVE  Simulated
  <2>1. CASE DeleteOnCloud(c)
    BY <2>1, DeleteWithdraws DEF DeleteOnCloud
  <2>2. CASE DeleteFails(c)
    BY <2>2, <1>s, DeleteWithdraws DEF DeleteFails
  <2> QED
    BY <1>2, <1>s, <2>1, <2>2
       DEF CallStep, CreateVolume, DeleteVolume, DeleteLookup, GiveUp
<1>3. ASSUME NEW v \in VolIds, CloudStep(v)
      PROVE  Simulated
  <2>1. \A w \in VolIds :
           /\ vol'[w].name = vol[w].name
           /\ vol'[w].status \in {"Creating", "Available", "Error"}
                 <=> vol[w].status \in {"Creating", "Available", "Error"}
    BY <1>3 DEF CloudStep, Sync, Build, TypeInv, RestInv, Volume
  <2>2. \A n \in Names : Backing(vol', n) = Backing(vol, n)
    BY <2>1 DEF Backing
  <2> QED
    BY <1>3, <2>2 DEF CloudStep, Sync, Build, Stutters
<1>4. Simulated
  BY <1>s, <1>1, <1>2, <1>3 DEF Next, Crash, vars
<1> QED
  BY <1>4, ProvidesIsProvide, PromisesIsPromise, WithdrawsIsWithdraw,
     StuttersIsStutter DEF Ledger!Next

\* The controllers, any number of them and under any faults, implement the
\* ledger of promises if the cloud remembers client tokens: a name is backed
\* by one volume in its life, all its callers are promised that volume, and
\* it is destroyed only after it was promised.
THEOREM LedgerImplemented ==
    ASSUME "token_forgotten" \notin Faults
    PROVE  Spec => ImplementsLedger
<1>1. Spec => [](TypeInv /\ SafeInv)
  BY SafeAlways DEF Remembered
<1>2. TypeInv /\ SafeInv /\ OrderInv /\ [Next]_vars => OrderInv'
  BY OrderStep
<1>3. TypeInv /\ SafeInv /\ OrderInv /\ [Next]_vars => [Ledger!Next]_Ledger!ledger
  BY StepSimulates DEF Remembered
<1> QED
  BY <1>1, <1>2, <1>3, OrderInit, LedgerInit, PTL
     DEF Spec, ImplementsLedger, Ledger!Spec
=============================================================================
