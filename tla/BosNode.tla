------------------------------- MODULE BosNode -------------------------------
(***************************************************************************)
(* NodePublishVolume and NodeUnpublishVolume of the BOS node server        *)
(* (pkg/driver/bos/node.go, pkg/driver/bos/mount.go) for one target path.  *)
(*                                                                         *)
(* Publishing writes a credentials file and starts a docker container that *)
(* runs bosfs, which mounts the bucket at the target path; unpublishing    *)
(* takes all of that away.  The handlers keep no state and no lock: what   *)
(* they know is what docker and the file system show them.  The requests   *)
(* to docker end with the context of the call, the requests to the object  *)
(* store and to the file system do not.  Where a handler no longer waits   *)
(* for docker's answer, docker may still carry the request out.            *)
(***************************************************************************)
EXTENDS Naturals, FiniteSets

CONSTANTS
    Calls,       \* handlers that may be running at the same time
    Ids,         \* container ids, reused once no handler holds them
    Nil,         \* "no container"
    Faults,      \* the kinds of faults the environment may produce
    MaxFaults,   \* bound on the number of faults in a behaviour
    MaxLate      \* bound on the requests that docker carries out late

FaultKinds == {"crash", "timeout", "error", "bosfs_dies", "halt"}

ASSUME ConstantsAssumption ==
    /\ Nil \notin Ids
    /\ Faults \subseteq FaultKinds
    /\ MaxFaults \in Nat /\ MaxLate \in Nat

VARIABLES
    cont,        \* the container named after the target path
    mnt,         \* what is mounted at the target path
    dir,         \* the target path exists
    creds,       \* the directory of the credentials file, and the file
    call,        \* call[c]: a running handler
    phase,       \* what the kubelet wants, or was told
    late,        \* requests docker still has whose handlers no longer wait
    faults       \* the number of faults so far, and what they have left behind

vars == <<cont, mnt, dir, creds, call, phase, late, faults>>

-----------------------------------------------------------------------------
(* Data.                                                                   *)

Container == [st : {"none", "created", "running", "restarting", "exited"},
              health : {"starting", "healthy", "unhealthy"},
              id : Ids \cup {Nil}]

NoContainer == [st |-> "none", health |-> "starting", id |-> Nil]

\* ctx: the caller still waits.  id: the container the handler has seen.
Handler == [op  : {"idle", "publish", "unpublish"},
            pc  : {"bucket", "path", "mkdir", "write", "fill", "inspect", "create",
                   "reinspect", "remove", "start", "wait", "stop", "umount",
                   "rmdir", "clean", "OK", "Internal"},
            ctx : BOOLEAN,
            id  : Ids \cup {Nil}]

NoHandler == [op |-> "idle", pc |-> "OK", ctx |-> FALSE, id |-> Nil]

\* The requests to docker, and those of them that change something.
DockerRequests == {"inspect", "create", "reinspect", "remove", "start", "wait",
                   "stop"}
Changes == {"create", "remove", "start", "stop"}

Request == [op : {"publish", "unpublish"}, pc : Changes, id : Ids \cup {Nil}]

\* What faults leave behind: a handler that has outlived its call, a container that
\* has ended for good, a file that was opened and never written, a container that
\* is created when nobody waits for it.
Lasting == {"timeout", "halt", "torn", "late_create"}

Overlapped == "timeout" \in faults.kinds
Halted == "halt" \in faults.kinds
Torn == "torn" \in faults.kinds
LateCreate == "late_create" \in faults.kinds

May(kind) == kind \in Faults /\ faults.n < MaxFaults

Leaves(n, traces) == faults' = [n |-> n, kinds |-> faults.kinds \cup traces]

Fault(kind) == May(kind) /\ Leaves(faults.n + 1, {kind} \cap Lasting)

Init ==
    /\ cont = NoContainer
    /\ mnt = "none"
    /\ dir = FALSE
    /\ creds = "none"
    /\ call = [c \in Calls |-> NoHandler]
    /\ phase = "new"
    /\ late = {}
    /\ faults = [n |-> 0, kinds |-> {}]

At(c, op, pc) == call[c].op = op /\ call[c].pc = pc
Go(c, pc) == call' = [call EXCEPT ![c].pc = pc]

\* The container with that id is still there.
Present(id) == cont.st # "none" /\ cont.id = id

\* Ids that docker may give to a new container.
FreshIds == Ids \ ({call[c].id : c \in Calls} \cup {r.id : r \in late})

\* A bosfs process that ends may leave its mount behind, disconnected.
Disconnect == IF mnt = "live" THEN mnt' \in {"none", "dead"} ELSE UNCHANGED mnt

-----------------------------------------------------------------------------
(* The kubelet: one call at a time for a target path, repeated until it is  *)
(* answered OK; a path that was unpublished is never used again.            *)

Waiting == \E c \in Calls : call[c].ctx

\* Handlers are alike: a call is served by a free one, no matter which.
Free(c) == c = CHOOSE d \in Calls : call[d].op = "idle"

CallPublish(c) ==
    /\ call[c].op = "idle" /\ Free(c) /\ ~Waiting
    /\ phase \in {"new", "publishing", "published"}
    /\ phase' = IF phase = "new" THEN "publishing" ELSE phase
    /\ call' = [call EXCEPT ![c] = [op |-> "publish", pc |-> "bucket",
                                    ctx |-> TRUE, id |-> Nil]]
    /\ UNCHANGED <<cont, mnt, dir, creds, late, faults>>

CallUnpublish(c) ==
    /\ call[c].op = "idle" /\ Free(c) /\ ~Waiting
    /\ phase \in {"publishing", "published", "unpublishing"}
    /\ phase' = "unpublishing"
    /\ call' = [call EXCEPT ![c] = [op |-> "unpublish", pc |-> "path",
                                    ctx |-> TRUE, id |-> Nil]]
    /\ UNCHANGED <<cont, mnt, dir, creds, late, faults>>

\* The deadline of a call passes: its context is cancelled, its handler runs on.
Timeout(c) ==
    /\ call[c].ctx
    /\ Fault("timeout")
    /\ call' = [call EXCEPT ![c].ctx = FALSE]
    /\ UNCHANGED <<cont, mnt, dir, creds, phase, late>>

\* A handler returns; a caller that still waits is answered.
Return(c) ==
    /\ call[c].op # "idle" /\ call[c].pc \in {"OK", "Internal"}
    /\ call' = [call EXCEPT ![c] = NoHandler]
    /\ phase' = IF ~call[c].ctx \/ call[c].pc # "OK" THEN phase
                ELSE IF call[c].op = "publish" THEN "published" ELSE "gone"
    /\ UNCHANGED <<cont, mnt, dir, creds, late, faults>>

\* Handlers cs stop waiting: any of the requests they have sent to docker may be
\* carried out later, and a file they have opened stays as it is.
StopWaiting(cs, n) ==
    LET sent == {[op |-> call[c].op, pc |-> call[c].pc, id |-> call[c].id] :
                    c \in {d \in cs : call[d].pc \in Changes}}
        torn == IF \E c \in cs : call[c].pc = "fill" THEN {"torn"} ELSE {}
    IN  \E left \in SUBSET sent :
           /\ left # {} => Cardinality(late \cup left) <= MaxLate
           /\ late' = late \cup left
           /\ Leaves(n, torn \cup IF \E r \in left : r.pc = "create"
                                  THEN {"late_create"} ELSE {})

\* Any request of a handler may fail, without effect but for what StopWaiting says.
Fails(c) ==
    /\ call[c].op # "idle" /\ call[c].pc \notin {"OK", "Internal"}
    /\ May("error")
    /\ Go(c, "Internal")
    /\ StopWaiting({c}, faults.n + 1)
    /\ UNCHANGED <<cont, mnt, dir, creds, phase>>

\* A request to docker ends with its context.
Cancelled(c) ==
    /\ call[c].op # "idle" /\ ~call[c].ctx
    /\ call[c].pc \in DockerRequests
    /\ Go(c, "Internal")
    /\ StopWaiting({c}, faults.n)
    /\ UNCHANGED <<cont, mnt, dir, creds, phase>>

\* The driver process dies and is restarted.  Containers and mounts stay.
Crash ==
    /\ May("crash")
    /\ call' = [c \in Calls |-> NoHandler]
    /\ StopWaiting(Calls, faults.n + 1)
    /\ UNCHANGED <<cont, mnt, dir, creds, phase>>

-----------------------------------------------------------------------------
(* NodePublishVolume up to MountByBOSFS.                                   *)

\* BucketExists.
PubBucket(c) ==
    /\ At(c, "publish", "bucket")
    /\ Go(c, "path")
    /\ UNCHANGED <<cont, mnt, dir, creds, phase, late, faults>>

\* PathExists, which fails on a disconnected mount, and MkdirAll.
PubPath(c) ==
    /\ At(c, "publish", "path")
    /\ IF mnt = "dead"
       THEN Go(c, "Internal") /\ UNCHANGED dir
       ELSE Go(c, "mkdir") /\ dir' = TRUE
    /\ UNCHANGED <<cont, mnt, creds, phase, late, faults>>

\* MkdirAll of the directory of the credentials file.
PubMkdir(c) ==
    /\ At(c, "publish", "mkdir")
    /\ Go(c, "write")
    /\ creds' = IF creds = "none" THEN "dir" ELSE creds
    /\ UNCHANGED <<cont, mnt, dir, phase, late, faults>>

\* WriteFile of the credentials: the file is opened and truncated ...
PubOpen(c) ==
    /\ At(c, "publish", "write")
    /\ IF creds = "none"
       THEN Go(c, "Internal") /\ UNCHANGED creds
       ELSE Go(c, "fill") /\ creds' = "empty"
    /\ UNCHANGED <<cont, mnt, dir, phase, late, faults>>

\* ... and written, with no effect on the path if the file has been removed.
PubFill(c) ==
    /\ At(c, "publish", "fill")
    /\ Go(c, "inspect")
    /\ creds' = IF creds = "empty" THEN "file" ELSE creds
    /\ UNCHANGED <<cont, mnt, dir, phase, late, faults>>

-----------------------------------------------------------------------------
(* MountByBOSFS: requests to docker, each while the context lives.         *)

\* Mutant of NextByStatus: a container that was created is taken to have been started.
NextByStatusUnstarted(k) ==
    CASE k.st = "exited" -> "remove"
      [] k.st = "created" \/ (k.st = "running" /\ k.health = "healthy") -> "OK"
      [] k.st = "running" /\ k.health # "healthy" -> "wait"
      [] k.st = "restarting" -> "Internal"

\* Mutant of NextByStatus: a container that is being restarted is removed.
NextByStatusImpatient(k) ==
    CASE k.st \in {"exited", "restarting"} -> "remove"
      [] k.st = "running" /\ k.health = "healthy" -> "OK"
      [] k.st = "running" /\ k.health # "healthy" -> "wait"
      [] k.st = "created" -> "start"

\* What MountByBOSFS does next, by the status of the container it inspected.
NextByStatus(k) ==
    CASE k.st = "exited" -> "remove"
      [] k.st = "running" /\ k.health = "healthy" -> "OK"
      [] k.st = "running" /\ k.health # "healthy" -> "wait"
      [] k.st = "restarting" -> "Internal"
      [] k.st = "created" -> "start"

\* Mutant of PubInspect: a container that exists is taken to have been started.
PubInspectStarted(c) ==
    /\ At(c, "publish", "inspect") /\ call[c].ctx
    /\ IF cont.st = "none"
       THEN Go(c, "create")
       ELSE call' = [call EXCEPT ![c].id = cont.id,
                                 ![c].pc = IF cont.st = "created" THEN "wait"
                                           ELSE NextByStatus(cont)]
    /\ UNCHANGED <<cont, mnt, dir, creds, phase, late, faults>>

\* ContainerInspect by name.
PubInspect(c) ==
    /\ At(c, "publish", "inspect") /\ call[c].ctx
    /\ IF cont.st = "none"
       THEN Go(c, "create")
       ELSE call' = [call EXCEPT ![c].pc = NextByStatus(cont), ![c].id = cont.id]
    /\ UNCHANGED <<cont, mnt, dir, creds, phase, late, faults>>

\* ContainerCreate: the name must be free, and the directory of the credentials
\* must exist, as it is mounted into the container.
CanCreate == cont.st = "none" /\ creds # "none"
Created(id) == cont' = [NoContainer EXCEPT !.st = "created", !.id = id]

\* Mutant of PubCreate: the id of the new container is not kept.
PubCreateAnonymous(c) ==
    /\ At(c, "publish", "create") /\ call[c].ctx
    /\ \/ ~CanCreate /\ Go(c, "Internal") /\ UNCHANGED cont
       \/ CanCreate /\ \E id \in FreshIds : Created(id) /\ Go(c, "reinspect")
    /\ UNCHANGED <<mnt, dir, creds, phase, late, faults>>

\* ImagePull and ContainerCreate.
PubCreate(c) ==
    /\ At(c, "publish", "create") /\ call[c].ctx
    /\ \/ ~CanCreate /\ Go(c, "Internal") /\ UNCHANGED cont
       \/ /\ CanCreate
          /\ \E id \in FreshIds :
                /\ Created(id)
                /\ call' = [call EXCEPT ![c].pc = "reinspect", ![c].id = id]
    /\ UNCHANGED <<mnt, dir, creds, phase, late, faults>>

\* ContainerInspect by the id that was returned.
PubReinspect(c) ==
    /\ At(c, "publish", "reinspect") /\ call[c].ctx
    /\ Go(c, IF Present(call[c].id) THEN NextByStatus(cont) ELSE "Internal")
    /\ UNCHANGED <<cont, mnt, dir, creds, phase, late, faults>>

\* ContainerRemove with Force.
Killed(id) ==
    IF Present(id) THEN cont' = NoContainer /\ Disconnect ELSE UNCHANGED <<cont, mnt>>

\* Of an exited container: an error all the same, the next call creates another one.
PubRemove(c) ==
    /\ At(c, "publish", "remove") /\ call[c].ctx
    /\ Go(c, "Internal")
    /\ Killed(call[c].id)
    /\ UNCHANGED <<dir, creds, phase, late, faults>>

\* ContainerStart: fails when the container or what it mounts has gone.
CanStart(id) == Present(id) /\ creds # "none"
Started == cont' = IF cont.st \in {"created", "exited"}
                   THEN [cont EXCEPT !.st = "running", !.health = "starting"]
                   ELSE cont

PubStart(c) ==
    /\ At(c, "publish", "start") /\ call[c].ctx
    /\ IF CanStart(call[c].id)
       THEN Go(c, "wait") /\ Started
       ELSE Go(c, "Internal") /\ UNCHANGED cont
    /\ UNCHANGED <<mnt, dir, creds, phase, late, faults>>

\* waitForBosfsContainerReady: running and healthy, or an error after 15 s.
PubWait(c) ==
    /\ At(c, "publish", "wait") /\ call[c].ctx
    /\ Go(c, IF Present(call[c].id) /\ cont.st = "running" /\ cont.health = "healthy"
             THEN "OK" ELSE "Internal")
    /\ UNCHANGED <<cont, mnt, dir, creds, phase, late, faults>>

-----------------------------------------------------------------------------
(* NodeUnpublishVolume, with UnmountFromBOSFS.                             *)

\* Mutant of UnpPath: where the path does not exist nothing is left to do.
UnpPathOnly(c) ==
    /\ At(c, "unpublish", "path")
    /\ Go(c, IF dir THEN "inspect" ELSE "OK")
    /\ UNCHANGED <<cont, mnt, dir, creds, phase, late, faults>>

\* PathExists: a disconnected mount exists, too.
UnpPath(c) ==
    /\ At(c, "unpublish", "path")
    /\ Go(c, IF dir THEN "inspect" ELSE "clean")
    /\ UNCHANGED <<cont, mnt, dir, creds, phase, late, faults>>

\* Mutant of UnpInspect: only a running container is stopped and removed.
UnpInspectRunning(c) ==
    /\ At(c, "unpublish", "inspect") /\ call[c].ctx
    /\ call' = [call EXCEPT ![c].id = cont.id,
                            ![c].pc = IF cont.st = "running" THEN "stop"
                                      ELSE "umount"]
    /\ UNCHANGED <<cont, mnt, dir, creds, phase, late, faults>>

\* ContainerInspect by name.
UnpInspect(c) ==
    /\ At(c, "unpublish", "inspect") /\ call[c].ctx
    /\ call' = [call EXCEPT ![c].id = cont.id,
                            ![c].pc = CASE cont.st = "none" -> "umount"
                                        [] cont.st = "running" -> "stop"
                                        [] OTHER -> "remove"]
    /\ UNCHANGED <<cont, mnt, dir, creds, phase, late, faults>>

\* ContainerStop.
Stopped == IF cont.st \in {"running", "restarting"}
           THEN cont' = [cont EXCEPT !.st = "exited"] /\ Disconnect
           ELSE UNCHANGED <<cont, mnt>>

UnpStop(c) ==
    /\ At(c, "unpublish", "stop") /\ call[c].ctx
    /\ IF Present(call[c].id)
       THEN Go(c, "remove") /\ Stopped
       ELSE Go(c, "Internal") /\ UNCHANGED <<cont, mnt>>
    /\ UNCHANGED <<dir, creds, phase, late, faults>>

\* ContainerRemove without Force: docker refuses while the container runs or
\* is being restarted.
CanRemove(id) == Present(id) /\ cont.st \in {"created", "exited"}

UnpRemove(c) ==
    /\ At(c, "unpublish", "remove") /\ call[c].ctx
    /\ IF CanRemove(call[c].id)
       THEN Go(c, "umount") /\ cont' = NoContainer
       ELSE Go(c, "Internal") /\ UNCHANGED cont
    /\ UNCHANGED <<mnt, dir, creds, phase, late, faults>>

\* Mutant of UnpUmount: the mount that bosfs left is not looked for.
UnpUmountNothing(c) ==
    /\ At(c, "unpublish", "umount")
    /\ Go(c, "rmdir")
    /\ UNCHANGED <<cont, mnt, dir, creds, phase, late, faults>>

\* GetDeviceNameFromMount, and Unmount of what is mounted.
UnpUmount(c) ==
    /\ At(c, "unpublish", "umount")
    /\ Go(c, "rmdir")
    /\ mnt' = "none"
    /\ UNCHANGED <<cont, dir, creds, phase, late, faults>>

\* RemovePath fails on a mount point and on a path that has gone.
UnpRmdir(c) ==
    /\ At(c, "unpublish", "rmdir")
    /\ IF dir /\ mnt = "none"
       THEN Go(c, "clean") /\ dir' = FALSE
       ELSE Go(c, "Internal") /\ UNCHANGED dir
    /\ UNCHANGED <<cont, mnt, creds, phase, late, faults>>

\* PathExists and RemoveAll of the directory of the credentials file.
UnpClean(c) ==
    /\ At(c, "unpublish", "clean")
    /\ Go(c, "OK")
    /\ creds' = "none"
    /\ UNCHANGED <<cont, mnt, dir, phase, late, faults>>

-----------------------------------------------------------------------------
(* Docker and bosfs.                                                       *)

\* Docker carries out a request whose handler no longer waits, or drops it.
Late(r) ==
    /\ late' = late \ {r}
    /\ \/ r.pc = "create" /\ CanCreate /\ UNCHANGED mnt
          /\ \E id \in FreshIds : Created(id)
       \/ r.pc = "start" /\ CanStart(r.id) /\ Started /\ UNCHANGED mnt
       \/ r.pc = "stop" /\ Present(r.id) /\ Stopped
       \/ r.pc = "remove" /\ r.op = "publish" /\ Killed(r.id)
       \/ r.pc = "remove" /\ r.op = "unpublish" /\ CanRemove(r.id)
          /\ cont' = NoContainer /\ UNCHANGED mnt
       \/ UNCHANGED <<cont, mnt>>
    /\ UNCHANGED <<dir, creds, call, phase, faults>>

\* The container's command unmounts what is at the path and starts bosfs.
BosfsMounts ==
    /\ cont.st = "running" /\ mnt # "live"
    /\ dir /\ creds = "file"
    /\ mnt' = "live"
    /\ UNCHANGED <<cont, dir, creds, call, phase, late, faults>>

\* ... or finds no credentials in the file, and ends: docker starts it again.
BosfsFails ==
    /\ cont.st = "running" /\ mnt # "live"
    /\ creds # "file"
    /\ mnt' = "none"
    /\ cont' = [cont EXCEPT !.st = "restarting"]
    /\ UNCHANGED <<dir, creds, call, phase, late, faults>>

\* The health check runs stat on the path, which succeeds on the bare directory,
\* too: a container may be healthy before it has mounted anything.
Probe ==
    /\ cont.st = "running"
    /\ cont' = [cont EXCEPT !.health = IF mnt # "dead" /\ dir
                                       THEN "healthy" ELSE "unhealthy"]
    /\ cont' # cont
    /\ UNCHANGED <<mnt, dir, creds, call, phase, late, faults>>

\* bosfs dies: docker restarts the container.
BosfsDies ==
    /\ cont.st = "running"
    /\ Fault("bosfs_dies")
    /\ cont' = [cont EXCEPT !.st = "restarting"]
    /\ Disconnect
    /\ UNCHANGED <<dir, creds, call, phase, late>>

Restart ==
    /\ cont.st = "restarting"
    /\ cont' = [cont EXCEPT !.st = "running", !.health = "starting"]
    /\ UNCHANGED <<mnt, dir, creds, call, phase, late, faults>>

\* The container ends for good (docker's restart policy is unless-stopped).
Halt ==
    /\ cont.st \in {"running", "restarting"}
    /\ Fault("halt")
    /\ cont' = [cont EXCEPT !.st = "exited"]
    /\ Disconnect
    /\ UNCHANGED <<dir, creds, call, phase, late>>

-----------------------------------------------------------------------------
Publish(c) ==
    \/ PubBucket(c) \/ PubPath(c) \/ PubMkdir(c)
    \/ PubOpen(c) \/ PubFill(c) \/ PubInspect(c) \/ PubCreate(c)
    \/ PubReinspect(c) \/ PubRemove(c) \/ PubStart(c) \/ PubWait(c)

Unpublish(c) ==
    \/ UnpPath(c) \/ UnpInspect(c) \/ UnpStop(c) \/ UnpRemove(c)
    \/ UnpUmount(c) \/ UnpRmdir(c) \/ UnpClean(c)

HandlerStep(c) == \/ Publish(c)
                  \/ Unpublish(c)
                  \/ Cancelled(c)
                  \/ Return(c)

Next ==
    \/ \E c \in Calls : \/ CallPublish(c)
                        \/ CallUnpublish(c)
                        \/ HandlerStep(c)
                        \/ Fails(c)
                        \/ Timeout(c)
    \/ \E r \in late : Late(r)
    \/ BosfsMounts \/ BosfsFails \/ Probe \/ BosfsDies \/ Restart \/ Halt
    \/ Crash

Spec == Init /\ [][Next]_vars

\* The process schedules its handlers, docker and bosfs go on, and the kubelet
\* repeats a call until it is told OK.  A repeated publish empties the credentials for
\* a moment: docker does not start the container, nor does bosfs read the file, at
\* just these moments for ever.
Fairness ==
    /\ \A c \in Calls : WF_vars(HandlerStep(c))
    /\ SF_vars(BosfsMounts)
    /\ WF_vars(Probe)
    /\ WF_vars(BosfsFails)
    /\ WF_vars(Restart) /\ SF_vars(creds = "file" /\ Restart)
    /\ WF_vars(phase = "publishing" /\ \E c \in Calls : CallPublish(c))
    /\ WF_vars(phase = "unpublishing" /\ \E c \in Calls : CallUnpublish(c))

FairSpec == Spec /\ Fairness

-----------------------------------------------------------------------------
(* Properties.                                                             *)

\* Every variable keeps its type; a container has an id, and a handler that goes
\* on to use a container has kept one.
TypeOK ==
    /\ cont \in Container
    /\ mnt \in {"none", "live", "dead"}
    /\ dir \in BOOLEAN
    /\ creds \in {"none", "dir", "empty", "file"}
    /\ call \in [Calls -> Handler]
    /\ phase \in {"new", "publishing", "published", "unpublishing", "gone"}
    /\ late \subseteq Request
    /\ faults \in [n : 0 .. MaxFaults, kinds : SUBSET Lasting]
    /\ cont.st # "none" => cont.id # Nil
    /\ \A c \in Calls :
          call[c].pc \in {"reinspect", "remove", "start", "wait", "stop"}
            => call[c].id # Nil

\* The credentials are there, or a handler is about to write them, or one was stopped
\* between opening the file and writing it.
Written == \/ creds = "file"
           \/ creds = "empty" /\ (Torn \/ \E c \in Calls : call[c].pc = "fill")

\* As long as the volume is published its container is there, kept running by
\* docker unless it ended for good, with the path and the credentials it needs
\* after each restart: no repeated call, no handler left over and no request that
\* docker carries out late takes any of them away, but a repeated call empties the
\* credentials for the time of its write, or for longer if it is stopped there.
PublishedIsServed ==
    phase = "published" => /\ cont.st \in {"running", "restarting"} \/ Halted
                           /\ dir
                           /\ Written

\* A container never outlives its credentials file nor the target path; one that was
\* created when nobody waited for it may, but is then never started.
ContainerHasItsFiles ==
    cont.st # "none" => \/ Written /\ dir
                        \/ cont.st = "created" /\ LateCreate

\* An OK of NodeUnpublishVolume is final: container and mount are gone, and so
\* are path and credentials unless a handler that outlived its call makes them
\* again; not even such a handler brings the bucket back, and a container only if
\* docker creates it when nobody waits any more, without ever being started.
UnpublishedIsClean ==
    phase = "gone" => /\ cont.st = "none" \/ (cont.st = "created" /\ LateCreate)
                      /\ mnt = "none"
                      /\ (~dir /\ creds = "none") \/ Overlapped

\* A published volume gets its bucket mounted, though the OK may have come from a
\* health check on the bare path: the container runs and bosfs in it goes on, unless
\* the container ended for good or the credentials were left unwritten.
PublishedGetsMounted ==
    phase = "published" ~> \/ mnt = "live" \/ phase # "published"
                            \/ Halted \/ (Torn /\ creds = "empty")

\* A publish that the kubelet keeps asking for ends with OK, unless a container
\* that ended for good has left a disconnected mount: then every retry fails at
\* the path (node.go:161), before the container would be removed.
PublishSettles == phase = "publishing" ~> phase # "publishing" \/ Halted

\* An unpublish that the kubelet keeps asking for ends with OK, unless a write of the
\* credentials was stopped halfway: bosfs then ends at every start, and each retry may
\* find the container being restarted, which docker refuses to remove (mount.go:164).
UnpublishSettles == phase = "unpublishing" ~> phase = "gone" \/ Torn
=============================================================================
