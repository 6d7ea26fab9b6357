---------------------------- MODULE CdsProvision ----------------------------
(***************************************************************************)
(* CreateVolume and DeleteVolume of the CDS controller server              *)
(* (pkg/driver/cds/controller.go) over the BCE volume API                  *)
(* (pkg/cloud/cds.go).                                                     *)
(*                                                                         *)
(* Every controller process (a replica of the controller Deployment) keeps *)
(* three pieces of volatile state: the singleflight group of CreateVolume  *)
(* keyed by volume name, the KeyMutex inProcessRequests keyed by the whole *)
(* request, and creatingVolumeCache, the names created in the cloud but    *)
(* not yet read back from it.  The cloud outlives them all: it makes       *)
(* volumes idempotent by client token, builds them asynchronously, and     *)
(* shows a new volume to its two read paths (list by name, detail by id)   *)
(* only after its database has synchronised.                               *)
(*                                                                         *)
(* One flight runs server.createVolume again and again (retryOnAborted)    *)
(* and answers every call that joined it.  Each cloud request of a handler *)
(* is one step, so that crashes, other replicas and the cloud's own        *)
(* progress fall between any two of them.                                  *)
(***************************************************************************)
EXTENDS Naturals, FiniteSets

CONSTANTS
    Replicas,    \* controller processes
    Names,       \* volume names (CreateVolumeRequest.Name)
    Sizes,       \* what a request may ask for, told apart by its size in GB
    Rejected,    \* the sizes among them that the argument checks reject
    Calls,       \* RPCs the container orchestrator may have outstanding
    VolIds,      \* volume ids the cloud may hand out (bound on its volumes)
    Nil,         \* "no volume", "no name", "no replica", "no token"
    ClusterID,   \* options.ClusterID, the same on all replicas
    Faults,      \* the kinds of faults the environment may produce
    MaxFaults    \* bound on the number of faults in a behaviour

FaultKinds == {"crash", "give_up", "api_error", "lost_reply",
               "list_lag", "detail_lag", "token_forgotten"}

ASSUME ConstantsAssumption ==
    /\ Nil \notin VolIds \cup Names \cup Replicas
    /\ Sizes \subseteq Nat \ {0}
    /\ Rejected \subseteq Sizes
    /\ Faults \subseteq FaultKinds
    /\ MaxFaults \in Nat

VARIABLES
    flight,      \* flight[r][n]: the singleflight execution for name n in r
    locks,       \* locks[r]: the keys held in inProcessRequests of r
    cache,       \* cache[r]: creatingVolumeCache of r
    vol,         \* vol[v]: the cloud's volume v
    call,        \* call[c]: an outstanding RPC of the orchestrator
    answered,    \* <<n, s, v>>: CreateVolume of n with s was answered OK with v
    retired,     \* names whose volume the orchestrator asked to delete
    removed,     \* volumes whose DeleteVolume was answered OK
    faults       \* number of faults so far

local == <<flight, locks, cache>>
vars == <<flight, locks, cache, vol, call, answered, retired, removed, faults>>

-----------------------------------------------------------------------------
(* Data.                                                                   *)

Codes == {"none", "OK", "Aborted", "Internal", "AlreadyExists",
          "InvalidArgument"}

Flight == [pc   : {"idle", "run", "lookup", "create", "fetch", "ret"},
           size : Sizes \cup {0},
           res  : Codes,
           id   : VolIds \cup {Nil}]

Volume == [status : {"Unborn", "Creating", "Available", "Error", "Deleted"},
           name   : Names \cup {Nil},
           size   : Sizes \cup {0},
           token  : ({ClusterID} \X Names) \cup {Nil},
           seen   : SUBSET {"list", "detail"}]

Call == [st   : {"idle", "create", "del_get", "del_do"},
         at   : Replicas \cup {Nil},
         name : Names \cup {Nil},
         size : Sizes \cup {0},
         id   : VolIds \cup {Nil}]

Idle == [pc |-> "idle", size |-> 0, res |-> "none", id |-> Nil]
Unborn == [status |-> "Unborn", name |-> Nil, size |-> 0, token |-> Nil,
           seen |-> {}]
NoCall == [st |-> "idle", at |-> Nil, name |-> Nil, size |-> 0, id |-> Nil]

Born(v) == vol[v].status # "Unborn"
Live(v) == vol[v].status \in {"Creating", "Available", "Error"}

\* GetVolumeByName: the live volumes of that name that the list returns.
Listed(n) == {v \in VolIds : /\ Live(v)
                             /\ vol[v].name = n
                             /\ "list" \in vol[v].seen}

\* GetVolumeByID finds v.
Detailed(v) == Live(v) /\ "detail" \in vol[v].seen

\* Mutant of ClientToken: the token depends on the process that asks.
ClientTokenOfProcess(r, n) == <<r, n>>

\* args.ClientToken of a create request that replica r sends for name n.
ClientToken(r, n) == <<ClusterID, n>>

\* The volumes a create request with token t is a repetition of.
Holders(t) == {v \in VolIds : Born(v) /\ vol[v].token = t}

Fault(kind) == kind \in Faults /\ faults < MaxFaults /\ faults' = faults + 1

Init ==
    /\ flight = [r \in Replicas |-> [n \in Names |-> Idle]]
    /\ locks = [r \in Replicas |-> {}]
    /\ cache = [r \in Replicas |-> {}]
    /\ vol = [v \in VolIds |-> Unborn]
    /\ call = [c \in Calls |-> NoCall]
    /\ answered = {}
    /\ retired = {}
    /\ removed = {}
    /\ faults = 0

-----------------------------------------------------------------------------
(* The orchestrator's calls and the singleflight group around createVolume *)

\* CreateVolume: start a flight for the name, or join the one under way,
\* whatever request that one carries.
CreateVolume(c, r, n, s) ==
    /\ call[c].st = "idle"
    /\ n \notin retired
    /\ call' = [call EXCEPT ![c] = [NoCall EXCEPT !.st = "create", !.at = r,
                                               !.name = n, !.size = s]]
    /\ flight' = IF flight[r][n].pc = "idle"
                 THEN [flight EXCEPT ![r][n] = [Idle EXCEPT !.pc = "run",
                                                            !.size = s]]
                 ELSE flight
    /\ UNCHANGED <<locks, cache, vol, answered, retired, removed, faults>>

\* The caller goes away (deadline, lost connection): its flight goes on.
GiveUp(c) ==
    /\ call[c].st # "idle"
    /\ Fault("give_up")
    /\ call' = [call EXCEPT ![c] = NoCall]
    /\ UNCHANGED <<local, vol, answered, retired, removed>>

\* Mutant of Return: Unlock is missed on an answer other than OK.
ReturnLocked(r, n, code, v) ==
    /\ flight' = [flight EXCEPT ![r][n].pc = "ret", ![r][n].res = code,
                                ![r][n].id = v]
    /\ locks' = IF code = "OK"
                THEN [locks EXCEPT ![r] = @ \ {<<n, flight[r][n].size>>}]
                ELSE locks

\* createVolume returns: the deferred Unlock runs on every path after TryLock.
Return(r, n, code, v) ==
    /\ flight' = [flight EXCEPT ![r][n].pc = "ret", ![r][n].res = code,
                                ![r][n].id = v]
    /\ locks' = [locks EXCEPT ![r] = @ \ {<<n, flight[r][n].size>>}]

\* retryOnAborted: only Aborted is tried again, and only until the deadline.
Retry(r, n) ==
    /\ flight[r][n].pc = "ret"
    /\ flight[r][n].res = "Aborted"
    /\ flight' = [flight EXCEPT ![r][n] = [@ EXCEPT !.pc = "run",
                                                    !.res = "none",
                                                    !.id = Nil]]
    /\ UNCHANGED <<locks, cache, vol, call, answered, retired, removed, faults>>

\* The flight ends (for Aborted: its deadline has passed) and answers every
\* call that is still waiting on it.
Finish(r, n) ==
    LET waiting == {c \in Calls : /\ call[c].st = "create"
                                  /\ call[c].at = r
                                  /\ call[c].name = n}
        f == flight[r][n]
    IN  /\ f.pc = "ret"
        /\ call' = [c \in Calls |-> IF c \in waiting THEN NoCall ELSE call[c]]
        /\ answered' = IF f.res = "OK"
                       THEN answered \cup {<<n, call[c].size, f.id>> : c \in waiting}
                       ELSE answered
        /\ flight' = [flight EXCEPT ![r][n] = Idle]
        /\ UNCHANGED <<locks, cache, vol, retired, removed, faults>>

-----------------------------------------------------------------------------
(* createVolume, one step per request to the cloud.                        *)

\* TryLock on the whole request, then the checks of the arguments.
Enter(r, n) ==
    LET f == flight[r][n]
        req == <<n, f.size>>
    IN  /\ f.pc = "run"
        /\ IF req \in locks[r]
           THEN /\ flight' = [flight EXCEPT ![r][n].pc = "ret",
                                            ![r][n].res = "Aborted"]
                /\ UNCHANGED locks
           ELSE IF f.size \in Rejected
           THEN Return(r, n, "InvalidArgument", Nil)
           ELSE /\ flight' = [flight EXCEPT ![r][n].pc = "lookup"]
                /\ locks' = [locks EXCEPT ![r] = @ \cup {req}]
        /\ UNCHANGED <<cache, vol, call, answered, retired, removed, faults>>

\* Mutant of Verdict: IsCreating is not looked at.
VerdictHasty(v) == "OK"

\* What createVolume answers for a volume it has read back from the cloud.
Verdict(v) == IF vol[v].status = "Creating" THEN "Aborted" ELSE "OK"

\* GetVolumeByName does not find the name.
LookupMisses(r, n) ==
    /\ flight[r][n].pc = "lookup"
    /\ Listed(n) = {}
    /\ IF n \in cache[r]
       THEN Return(r, n, "Aborted", Nil)
       ELSE /\ flight' = [flight EXCEPT ![r][n].pc = "create"]
            /\ UNCHANGED locks
    /\ UNCHANGED <<cache, vol, call, answered, retired, removed, faults>>

\* GetVolumeByName finds one volume: forget the name, compare the size, see
\* whether it is built.  Several volumes of the name are an error.
LookupHits(r, n) ==
    /\ flight[r][n].pc = "lookup"
    /\ \E v \in Listed(n) :
          IF Listed(n) # {v}
          THEN /\ Return(r, n, "Internal", Nil)
               /\ UNCHANGED cache
          ELSE /\ Return(r, n, IF vol[v].size # flight[r][n].size
                               THEN "AlreadyExists" ELSE Verdict(v), v)
               /\ cache' = [cache EXCEPT ![r] = @ \ {n}]
    /\ UNCHANGED <<vol, call, answered, retired, removed, faults>>

\* What the cloud does with a create request: it gives back the volume that
\* already holds the token, or makes a new one.
CloudCreates(r, n, v) ==
    LET t == ClientToken(r, n)
    IN  \/ /\ v \in Holders(t)
           /\ UNCHANGED vol
        \/ /\ ~Born(v)
           /\ Holders(t) = {} \/ "token_forgotten" \in Faults
           /\ vol' = [vol EXCEPT ![v] = [status |-> "Creating", name |-> n,
                                         size |-> flight[r][n].size,
                                         token |-> t, seen |-> {}]]

\* Mutant of CreateSucceeds: the name is not stored in creatingVolumeCache.
CreateSucceedsUncached(r, n) ==
    /\ flight[r][n].pc = "create"
    /\ \E v \in VolIds :
          /\ CloudCreates(r, n, v)
          /\ flight' = [flight EXCEPT ![r][n].pc = "fetch", ![r][n].id = v]
    /\ UNCHANGED <<locks, cache, call, answered, retired, removed, faults>>

\* CreateVolume on the cloud succeeds; the name enters creatingVolumeCache.
CreateSucceeds(r, n) ==
    /\ flight[r][n].pc = "create"
    /\ \E v \in VolIds :
          /\ CloudCreates(r, n, v)
          /\ flight' = [flight EXCEPT ![r][n].pc = "fetch", ![r][n].id = v]
    /\ cache' = [cache EXCEPT ![r] = @ \cup {n}]
    /\ UNCHANGED <<locks, call, answered, retired, removed, faults>>

\* The cloud made the volume, but its reply is lost: the handler sees an
\* error and the name does not enter the cache.
CreateReplyLost(r, n) ==
    /\ flight[r][n].pc = "create"
    /\ Fault("lost_reply")
    /\ \E v \in VolIds : CloudCreates(r, n, v)
    /\ Return(r, n, "Internal", Nil)
    /\ UNCHANGED <<cache, call, answered, retired, removed>>

\* GetVolumeByID after creating: forget the name once it can be fetched.
Fetch(r, n) ==
    LET v == flight[r][n].id
    IN  /\ flight[r][n].pc = "fetch"
        /\ IF Detailed(v)
           THEN /\ Return(r, n, Verdict(v), v)
                /\ cache' = [cache EXCEPT ![r] = @ \ {n}]
           ELSE /\ Return(r, n, "Aborted", Nil)
                /\ UNCHANGED cache
        /\ UNCHANGED <<vol, call, answered, retired, removed, faults>>

\* A request to the cloud fails without effect: Internal, not retried.
RequestFails(r, n) ==
    /\ flight[r][n].pc \in {"lookup", "create", "fetch"}
    /\ Fault("api_error")
    /\ Return(r, n, "Internal", Nil)
    /\ UNCHANGED <<cache, vol, call, answered, retired, removed>>

-----------------------------------------------------------------------------
(* DeleteVolume: no lock and no flight, two requests to the cloud.         *)

\* The orchestrator deletes only what it was given, and once it has begun it
\* does not ask for that name again (a name is unique to its claim).
DeleteVolume(c, r, n, v) ==
    /\ call[c].st = "idle"
    /\ \E s \in Sizes : <<n, s, v>> \in answered
    /\ v \notin removed
    /\ \A d \in Calls : ~(call[d].st = "create" /\ call[d].name = n)
    /\ call' = [call EXCEPT ![c] = [NoCall EXCEPT !.st = "del_get", !.at = r,
                                               !.name = n, !.id = v]]
    /\ retired' = retired \cup {n}
    /\ UNCHANGED <<local, vol, answered, removed, faults>>

\* GetVolumeByID: a volume that is not found counts as deleted.
DeleteLookup(c) ==
    LET v == call[c].id
    IN  /\ call[c].st = "del_get"
        /\ IF Detailed(v)
           THEN call' = [call EXCEPT ![c].st = "del_do"] /\ UNCHANGED removed
           ELSE /\ call' = [call EXCEPT ![c] = NoCall]
                /\ removed' = removed \cup {v}
        /\ UNCHANGED <<local, vol, answered, retired, faults>>

\* volume.Delete: OK, or an error when the volume has gone meanwhile.
DeleteOnCloud(c) ==
    LET v == call[c].id
    IN  /\ call[c].st = "del_do"
        /\ call' = [call EXCEPT ![c] = NoCall]
        /\ vol' = [vol EXCEPT ![v].status = "Deleted"]
        /\ removed' = IF Live(v) THEN removed \cup {v} ELSE removed
        /\ UNCHANGED <<local, answered, retired, faults>>

\* Mutant of DeleteFails: the error of the request is answered with OK.
DeleteFailsSilently(c) ==
    /\ call[c].st \in {"del_get", "del_do"}
    /\ Fault("api_error")
    /\ call' = [call EXCEPT ![c] = NoCall]
    /\ removed' = removed \cup {call[c].id}
    /\ UNCHANGED <<local, vol, answered, retired>>

\* Either request fails, with (lost reply) or without effect on the cloud.
DeleteFails(c) ==
    /\ call[c].st \in {"del_get", "del_do"}
    /\ \/ Fault("api_error") /\ UNCHANGED vol
       \/ /\ call[c].st = "del_do"
          /\ Fault("lost_reply")
          /\ vol' = [vol EXCEPT ![call[c].id].status = "Deleted"]
    /\ call' = [call EXCEPT ![c] = NoCall]
    /\ UNCHANGED <<local, answered, retired, removed>>

-----------------------------------------------------------------------------
(* The cloud's own steps, and the death of a process.                      *)

\* The database behind the two read paths synchronises: both paths at once,
\* or, where the environment allows one to lag, the other one first.
Sync(v) ==
    /\ Live(v)
    /\ \E s \in {{"list", "detail"}}
                \cup (IF "list_lag" \in Faults THEN {{"detail"}} ELSE {})
                \cup (IF "detail_lag" \in Faults THEN {{"list"}} ELSE {}) :
          /\ ~(s \subseteq vol[v].seen)
          /\ vol' = [vol EXCEPT ![v].seen = @ \cup s]
    /\ UNCHANGED <<local, call, answered, retired, removed, faults>>

\* The volume is built, or the cloud fails to build it.
Build(v) ==
    /\ vol[v].status = "Creating"
    /\ \E s \in {"Available", "Error"} : vol' = [vol EXCEPT ![v].status = s]
    /\ UNCHANGED <<local, call, answered, retired, removed, faults>>

\* The process of r dies and is restarted: all it kept in memory is lost.
Crash(r) ==
    /\ Fault("crash")
    /\ flight' = [flight EXCEPT ![r] = [n \in Names |-> Idle]]
    /\ locks' = [locks EXCEPT ![r] = {}]
    /\ cache' = [cache EXCEPT ![r] = {}]
    /\ call' = [c \in Calls |-> IF call[c].at = r
                                THEN NoCall ELSE call[c]]
    /\ UNCHANGED <<vol, answered, retired, removed>>

-----------------------------------------------------------------------------
FlightStep(r, n) ==
    \/ Enter(r, n)
    \/ LookupMisses(r, n)
    \/ LookupHits(r, n)
    \/ CreateSucceeds(r, n)
    \/ CreateReplyLost(r, n)
    \/ Fetch(r, n)
    \/ RequestFails(r, n)
    \/ Retry(r, n)
    \/ Finish(r, n)

CallStep(c) ==
    \/ \E r \in Replicas, n \in Names, s \in Sizes :
          CreateVolume(c, r, n, s)
    \/ \E r \in Replicas, n \in Names, v \in VolIds : DeleteVolume(c, r, n, v)
    \/ DeleteLookup(c)
    \/ DeleteOnCloud(c)
    \/ DeleteFails(c)
    \/ GiveUp(c)

CloudStep(v) == Sync(v) \/ Build(v)

Next ==
    \/ \E r \in Replicas, n \in Names : FlightStep(r, n)
    \/ \E c \in Calls : CallStep(c)
    \/ \E v \in VolIds : CloudStep(v)
    \/ \E r \in Replicas : Crash(r)

Spec == Init /\ [][Next]_vars

\* A process schedules its flights, the cloud makes progress, and the
\* orchestrator keeps asking for a volume until it has been given one.
AskFor(n) == /\ \A a \in answered : a[1] # n
             /\ \E c \in Calls, r \in Replicas, s \in Sizes :
                   CreateVolume(c, r, n, s)

Fairness ==
    /\ \A r \in Replicas, n \in Names : WF_vars(FlightStep(r, n))
    /\ \A v \in VolIds : WF_vars(CloudStep(v))
    /\ \A n \in Names : WF_vars(AskFor(n))

FairSpec == Spec /\ Fairness

-----------------------------------------------------------------------------
(* Properties.                                                             *)

\* Every variable keeps its type; a lock is a name with a size.
TypeOK ==
    /\ flight \in [Replicas -> [Names -> Flight]]
    /\ locks \in [Replicas -> SUBSET (Names \X Sizes)]
    /\ cache \in [Replicas -> SUBSET Names]
    /\ vol \in [VolIds -> Volume]
    /\ call \in [Calls -> Call]
    /\ answered \subseteq Names \X Sizes \X VolIds
    /\ retired \subseteq Names
    /\ removed \subseteq VolIds
    /\ faults \in 0 .. MaxFaults

\* However many calls, retries, replicas and restarts work on a name, the
\* cloud never holds two volumes of it (the purpose of the client token, of
\* the singleflight group and of creatingVolumeCache).
OneVolumePerName ==
    \A v, w \in VolIds : /\ Live(v) /\ Live(w)
                         /\ vol[v].name = vol[w].name
                         => v = w

\* All the calls ever answered OK for a name, by whichever replica, were given
\* the same volume, one of that name that the cloud had finished with.
AnswersAgree ==
    \A a \in answered :
        /\ vol[a[3]].name = a[1]
        /\ vol[a[3]].status \notin {"Unborn", "Creating"}
        /\ \A b \in answered : b[1] = a[1] => b[3] = a[3]

\* An OK of DeleteVolume is final: no volume of that name is left, and no
\* flight that was still under way brings one back.
DeletedIsGone ==
    \A a \in answered : a[3] \in removed =>
        \A v \in VolIds : vol[v].name = a[1] => ~Live(v)

\* A key is held in inProcessRequests exactly while createVolume works on that
\* request, so no retry is refused because of a lock an earlier run left.
LockTracksFlight ==
    \A r \in Replicas :
        locks[r] = {<<n, flight[r][n].size>> :
                       n \in {m \in Names :
                                flight[r][m].pc \in {"lookup", "create", "fetch"}}}

\* A volume that the orchestrator keeps asking for is answered in the end,
\* whatever is lost, refused or restarted a bounded number of times: no stale
\* cache entry, lock or flight shuts the name out.
EventuallyAnswered ==
    \A n \in Names : <>(\E a \in answered : a[1] = n)

\* Names and answers as the ledger of promises sees them.
Ledger == INSTANCE VolumeLedger WITH
    backing <- [n \in Names |-> {v \in VolIds : Live(v) /\ vol[v].name = n}],
    promised <- [n \in Names |-> {a[3] : a \in {b \in answered : b[1] = n}}]

\* The controllers together implement the ledger: one volume in a name's life,
\* promised to all its callers, withdrawn only after it was promised.
ImplementsLedger == Ledger!Spec
=============================================================================
