--------------------------- MODULE BosNodeProofs ---------------------------
(***************************************************************************)
(* Proofs about BosNode, for any number of handlers, of containers, of     *)
(* faults and of requests that docker carries out late: types, that a      *)
(* container has the files it needs, that a published volume is served and *)
(* that an unpublished one is gone.                                        *)
(***************************************************************************)
EXTENDS BosNode, TLAPS

USE ConstantsAssumption
    DEF ConstantsAssumption, FaultKinds, Lasting, Container, Handler, NoContainer,
        NoHandler, Request, Changes

\* The kubelet has not yet asked to unpublish the path.
InUse == phase \in {"new", "publishing", "published"}

\* Requests of a publish after the target path, and after the credentials were made.
WithPath == {"mkdir", "write", "fill", "OK"} \cup DockerRequests
WithCreds == {"OK"} \cup DockerRequests

\* Requests of an unpublish after the container has gone.
WithoutCont == {"umount", "rmdir", "clean", "OK"}

\* One caller waits at a time, and the phase is the one of its call; no unpublish was
\* ever called while the path is in use.
CallerInv ==
    /\ \A c, d \in Calls : call[c].ctx /\ call[d].ctx => c = d
    /\ \A c \in Calls :
          /\ call[c].op = "idle" => call[c] = NoHandler
          /\ call[c].op = "publish" => phase # "new"
          /\ call[c].op = "publish" /\ call[c].ctx => InUse
          /\ call[c].op = "unpublish" => phase \in {"unpublishing", "gone"}
          /\ call[c].op = "unpublish" /\ call[c].ctx => phase = "unpublishing"
          /\ call[c].op # "idle" => call[c].ctx \/ Overlapped

\* Somebody may yet start the container with that id.
Claimed(id) == \/ \E c \in Calls : call[c].pc = "start" /\ call[c].id = id
               \/ \E r \in late : r.pc = "start" /\ r.id = id

\* A container that was created when nobody waited for it, and that nobody starts: only
\* a publish that has a caller would, and there is none any more.
Stray == cont.st = "created" /\ LateCreate /\ ~InUse /\ ~Claimed(cont.id)

Absent == cont.st = "none" \/ Stray

\* While the path is in use nothing that publish c has made is taken away, also where
\* its caller has gone.
FilesOf(c) ==
    InUse /\ call[c].op = "publish" =>
        /\ call[c].pc # "stop"
        /\ call[c].pc \in WithPath => dir
        /\ call[c].pc = "write" => creds # "none"
        /\ call[c].pc = "fill" => creds \in {"empty", "file"}
        /\ call[c].pc \in WithCreds => Written

\* What unpublish c has taken away stays away, but for a stray container: the requests
\* of a publish that is left over are none that bring anything back.
CleanOf(c) ==
    call[c].op = "unpublish" =>
        /\ call[c].pc \in WithoutCont => Absent
        /\ call[c].pc \in {"rmdir", "clean", "OK"} => mnt = "none"
        /\ call[c].pc \in {"clean", "OK"} => ~dir \/ Overlapped
        /\ call[c].pc = "OK" => creds = "none" \/ Overlapped

\* While no container ends for good none is removed from under a path in use.
ServedOf(c) ==
    InUse /\ ~Halted /\ call[c].op = "publish" =>
        /\ call[c].pc # "remove"
        /\ call[c].pc = "OK" => cont.st \in {"running", "restarting"}

HandlerInv(c) == FilesOf(c) /\ CleanOf(c) /\ ServedOf(c)

\* What docker may carry out late suits the use of the path as it did when it was sent.
LateInv ==
    \A r \in late :
        /\ r.pc = "create" => LateCreate
        /\ InUse => /\ r.op = "publish" /\ r.pc # "stop"
                    /\ r.pc = "create" => dir /\ Written
                    /\ r.pc = "remove" => Halted

\* Container, mount and files, whoever has made them.
WorldInv ==
    /\ cont.st # "none" => (Written /\ dir) \/ Stray
    /\ mnt # "none" => dir
    /\ InUse /\ ~Halted => cont.st # "exited"

\* What UnpublishedIsClean says, with a container that is known to be a stray one.
GoneInv ==
    phase = "gone" => /\ Absent
                      /\ mnt = "none"
                      /\ (~dir /\ creds = "none") \/ Overlapped

IInv ==
    /\ TypeOK
    /\ CallerInv
    /\ \A c \in Calls : HandlerInv(c)
    /\ LateInv
    /\ WorldInv
    /\ PublishedIsServed
    /\ GoneInv

-----------------------------------------------------------------------------
(* What all steps of handlers, and all steps around them, have in common.  *)

\* Nothing is taken away from a path in use, nothing comes back at a path that is being
\* unpublished, but for what a handler that outlived its call makes.
Keeps ==
    /\ phase' = phase
    /\ Overlapped => Overlapped'
    /\ Halted => Halted'
    /\ LateCreate => LateCreate'
    /\ InUse =>
          /\ dir => dir'
          /\ creds # "none" => creds' # "none"
          /\ creds \in {"empty", "file"} => creds' \in {"empty", "file"}
          /\ Written => Written'
          /\ cont.st \in {"running", "restarting"} =>
                cont'.st \in {"running", "restarting"} \/ Halted'
    /\ ~InUse =>
          /\ Absent => Absent'
          /\ Absent /\ mnt = "none" => mnt' = "none"
          /\ ~dir => ~dir' \/ Overlapped'
          /\ creds = "none" => creds' = "none" \/ Overlapped'

LEMMA OthersStay ==
    ASSUME IInv, Keeps, NEW d \in Calls, call'[d] = call[d]
    PROVE  HandlerInv(d)'
BY DEF IInv, Keeps, HandlerInv, FilesOf, CleanOf, ServedOf, InUse, CallerInv, WithoutCont

\* What the kubelet was told stays so.
LEMMA ToldStays ==
    ASSUME IInv, Keeps
    PROVE  PublishedIsServed' /\ GoneInv'
BY DEF IInv, Keeps, InUse, PublishedIsServed, GoneInv

\* Requests that docker still has keep to the rules as long as no others come.
LEMMA LateStays ==
    ASSUME IInv, Keeps, late' \subseteq late
    PROVE  LateInv'
BY DEF IInv, Keeps, LateInv, InUse

\* A step of handler c within its call.
Moves(c) ==
    /\ call[c].op # "idle"
    /\ call' = [call EXCEPT ![c] = call'[c]]
    /\ call'[c] \in Handler
    /\ call'[c].op = call[c].op /\ call'[c].ctx = call[c].ctx
    /\ call'[c].pc \in {"reinspect", "remove", "start", "wait", "stop"}
          => call'[c].id # Nil
    /\ call'[c].pc = "start" => InUse

\* No request to start a container comes from nowhere: a stray one stays what it is.
LEMMA StrayStays ==
    ASSUME IInv, NEW c \in Calls, Moves(c), phase' = phase, cont' = cont,
           LateCreate => LateCreate',
           \A r \in late' : r.pc = "start" =>
               r \in late \/ (r.id = call[c].id /\ call[c].pc = "start"),
           Stray
    PROVE  Stray'
BY DEF IInv, TypeOK, Moves, Stray, Claimed, InUse

\* Container, mount and files keep their types.
WorldTyped ==
    /\ cont \in Container
    /\ mnt \in {"none", "live", "dead"}
    /\ dir \in BOOLEAN
    /\ creds \in {"none", "dir", "empty", "file"}
    /\ late \subseteq Request
    /\ faults \in [n : 0 .. MaxFaults, kinds : SUBSET Lasting]
    /\ cont.st # "none" => cont.id # Nil

LEMMA HandlerMoves ==
    ASSUME IInv, NEW c \in Calls, Moves(c), Keeps, WorldTyped', WorldInv', LateInv',
           HandlerInv(c)'
    PROVE  IInv'
<1>1. call' \in [Calls -> Handler] /\ \A d \in Calls : d # c => call'[d] = call[d]
  BY DEF IInv, TypeOK, Moves
<1>2. TypeOK'
  BY <1>1 DEF IInv, TypeOK, WorldTyped, Moves, Keeps
<1>3. CallerInv'
  BY <1>1 DEF IInv, CallerInv, Moves, Keeps, InUse
<1>4. \A d \in Calls : HandlerInv(d)'
  BY <1>1, OthersStay
<1> QED BY <1>2, <1>3, <1>4, ToldStays DEF IInv

\* A step of docker or of bosfs.
LEMMA WorldMoves ==
    ASSUME IInv, UNCHANGED call, late' \subseteq late, Keeps, WorldTyped', WorldInv'
    PROVE  IInv'
<1>1. TypeOK' /\ CallerInv'
  BY DEF IInv, TypeOK, CallerInv, WorldTyped, Keeps, InUse
<1> QED BY <1>1, OthersStay, ToldStays, LateStays DEF IInv

\* Handler c sends request pc.
LEMMA Goes ==
    ASSUME IInv, NEW c \in Calls, call[c].op # "idle", NEW pc, Go(c, pc),
           pc \in {"bucket", "path", "mkdir", "write", "fill", "inspect", "create",
                   "reinspect", "remove", "start", "wait", "stop", "umount",
                   "rmdir", "clean", "OK", "Internal"},
           pc \in {"reinspect", "remove", "start", "wait", "stop"} => call[c].id # Nil,
           pc = "start" => InUse
    PROVE  Moves(c) /\ call'[c].pc = pc /\ call'[c].id = call[c].id
BY DEF IInv, TypeOK, Go, Moves

\* ... and has seen container i.
LEMMA GoesWithId ==
    ASSUME IInv, NEW c \in Calls, call[c].op # "idle", NEW i \in Ids \cup {Nil},
           NEW pc \in {"bucket", "path", "mkdir", "write", "inspect", "create",
                       "reinspect", "remove", "start", "wait", "stop", "umount",
                       "rmdir", "clean", "OK", "Internal"},
           call' = [call EXCEPT ![c].pc = pc, ![c].id = i],
           pc \in {"reinspect", "remove", "start", "wait", "stop"} => i # Nil,
           pc = "start" => InUse
    PROVE  Moves(c) /\ call'[c].pc = pc /\ call'[c].id = i
<1>1. call[c] \in Handler /\ call \in [Calls -> Handler]
  BY DEF IInv, TypeOK
<1>2. call'[c] = [call[c] EXCEPT !.pc = pc, !.id = i]
  BY <1>1
<1>3. /\ call'[c] \in Handler /\ call'[c].pc = pc /\ call'[c].id = i
      /\ call'[c].op = call[c].op /\ call'[c].ctx = call[c].ctx
  BY <1>1, <1>2
<1>4. call' = [call EXCEPT ![c] = call'[c]]
  BY <1>1, <1>2
<1> QED BY <1>3, <1>4 DEF Moves

\* What faults leave behind stays.
LEMMA LeavesKept ==
    ASSUME IInv, NEW n \in 0 .. MaxFaults, NEW traces \in SUBSET Lasting,
           Leaves(n, traces)
    PROVE  /\ faults' \in [n : 0 .. MaxFaults, kinds : SUBSET Lasting]
           /\ faults'.kinds = faults.kinds \cup traces
           /\ Overlapped => Overlapped'
           /\ Halted => Halted'
           /\ Torn => Torn'
           /\ LateCreate => LateCreate'
<1>1. /\ faults.kinds \in SUBSET Lasting
      /\ faults' = [n |-> n, kinds |-> faults.kinds \cup traces]
  BY DEF IInv, TypeOK, Leaves
<1>2. faults'.kinds = faults.kinds \cup traces
  BY <1>1
<1>3. faults' \in [n : 0 .. MaxFaults, kinds : SUBSET Lasting]
  BY <1>1
<1> QED BY <1>2, <1>3 DEF Overlapped, Halted, Torn, LateCreate

LEMMA FaultKept ==
    ASSUME IInv, NEW kind, Fault(kind)
    PROVE  /\ faults' \in [n : 0 .. MaxFaults, kinds : SUBSET Lasting]
           /\ Overlapped => Overlapped'
           /\ Halted => Halted'
           /\ Torn => Torn'
           /\ LateCreate => LateCreate'
           /\ kind = "timeout" => Overlapped'
           /\ kind = "halt" => Halted'
<1>1. /\ faults.n + 1 \in 0 .. MaxFaults
      /\ Leaves(faults.n + 1, {kind} \cap Lasting)
  BY DEF IInv, TypeOK, Fault, May
<1>2. PICK traces \in SUBSET Lasting :
         traces = {kind} \cap Lasting /\ Leaves(faults.n + 1, traces)
  BY <1>1
<1>3. /\ faults' \in [n : 0 .. MaxFaults, kinds : SUBSET Lasting]
      /\ faults'.kinds = faults.kinds \cup traces
      /\ Overlapped => Overlapped'
      /\ Halted => Halted'
      /\ Torn => Torn'
      /\ LateCreate => LateCreate'
  BY <1>1, <1>2, LeavesKept
<1>4. kind \in Lasting => kind \in faults'.kinds
  BY <1>2, <1>3
<1> QED BY <1>3, <1>4 DEF Overlapped, Halted

\* Where the world stays as it is, it stays in order.
LEMMA WorldStays ==
    ASSUME IInv, UNCHANGED <<cont, mnt, dir, creds, phase>>,
           Overlapped => Overlapped', Halted => Halted', LateCreate => LateCreate',
           Written => Written', Stray => Stray'
    PROVE  Keeps /\ WorldInv'
BY DEF IInv, Keeps, WorldInv, InUse, Absent

\* A step that changes the handler alone.
LEMMA LookMoves ==
    ASSUME IInv, NEW c \in Calls, Moves(c), HandlerInv(c)', call[c].pc # "fill",
           UNCHANGED <<cont, mnt, dir, creds, phase, late, faults>>
    PROVE  IInv'
<1>1. UNCHANGED <<Overlapped, Halted, Torn, LateCreate>>
  BY DEF Overlapped, Halted, Torn, LateCreate
<1>2. Written => Written'
  BY <1>1 DEF Written, Moves, IInv, TypeOK
<1>3. Stray => Stray'
  BY <1>1, StrayStays
<1>4. Keeps /\ WorldInv'
  BY <1>1, <1>2, <1>3, WorldStays
<1>5. WorldTyped'
  BY DEF WorldTyped, IInv, TypeOK
<1> QED BY <1>4, <1>5, LateStays, HandlerMoves

\* Handlers compare the container's state, and wait, look and pass on.
LEMMA NextPc ==
    ASSUME NEW k \in Container, k.st # "none"
    PROVE  /\ NextByStatus(k) \in {"remove", "OK", "wait", "Internal", "start"}
           /\ NextByStatus(k) = "remove" <=> k.st = "exited"
           /\ NextByStatus(k) = "OK" <=> k.st = "running" /\ k.health = "healthy"
BY DEF NextByStatus

-----------------------------------------------------------------------------
(* Steps of a publish.                                                     *)

LEMMA PubBucketStep == ASSUME IInv, NEW c \in Calls, PubBucket(c) PROVE IInv'
<1>1. /\ Moves(c) /\ call'[c].pc = "path"
      /\ call[c].op = "publish" /\ call[c].pc = "bucket"
  BY Goes DEF PubBucket, At
<1>2. HandlerInv(c)'
  BY <1>1
  DEF Moves, HandlerInv, FilesOf, CleanOf, ServedOf, WithPath, WithCreds, DockerRequests
<1> QED BY <1>1, <1>2, LookMoves DEF PubBucket

\* A step of a publish that touches only its path or its credentials.
LEMMA FileMoves ==
    ASSUME IInv, NEW c \in Calls, Moves(c), call[c].op = "publish",
           UNCHANGED <<cont, mnt, phase, late, faults>>,
           dir' \in BOOLEAN, creds' \in {"none", "dir", "empty", "file"},
           dir => dir', creds # "none" => creds' # "none",
           creds \in {"empty", "file"} => creds' \in {"empty", "file"},
           Written => Written', HandlerInv(c)'
    PROVE  IInv'
<1>1. UNCHANGED <<Overlapped, Halted, LateCreate>>
  BY DEF Overlapped, Halted, LateCreate
<1>2. ~InUse => Overlapped
  BY DEF IInv, CallerInv, InUse
<1>3. Stray => Stray'
  BY <1>1, StrayStays
<1>4. Keeps
  BY <1>1, <1>2, <1>3 DEF Keeps, Absent
<1>5. WorldTyped'
  BY DEF WorldTyped, IInv, TypeOK
<1>6. WorldInv'
  BY <1>1, <1>3 DEF IInv, WorldInv, InUse
<1> QED BY <1>4, <1>5, <1>6, LateStays, HandlerMoves

LEMMA PubPathStep == ASSUME IInv, NEW c \in Calls, PubPath(c) PROVE IInv'
<1>1. CASE mnt = "dead"
  <2>1. /\ Moves(c) /\ call'[c].pc = "Internal"
        /\ call[c].op = "publish" /\ call[c].pc = "path"
    BY <1>1, Goes DEF PubPath, At
  <2>2. HandlerInv(c)'
    BY <2>1
    DEF Moves, HandlerInv, FilesOf, CleanOf, ServedOf, WithPath, WithCreds,
        DockerRequests
  <2> QED BY <1>1, <2>1, <2>2, LookMoves DEF PubPath
<1>2. CASE mnt # "dead"
  <2>1. /\ Moves(c) /\ call'[c].pc = "mkdir"
        /\ call[c].op = "publish" /\ call[c].pc = "path"
        /\ dir' = TRUE /\ UNCHANGED <<cont, mnt, creds, phase, late, faults>>
    BY <1>2, Goes DEF PubPath, At
  <2>2. HandlerInv(c)'
    BY <2>1
    DEF Moves, HandlerInv, FilesOf, CleanOf, ServedOf, WithCreds, DockerRequests
  <2>3. Written => Written'
    BY <2>1 DEF Written, Torn, Moves, IInv, TypeOK
  <2>4. creds \in {"none", "dir", "empty", "file"}
    BY DEF IInv, TypeOK
  <2> QED BY <2>1, <2>2, <2>3, <2>4, FileMoves
<1> QED BY <1>1, <1>2

LEMMA PubMkdirStep == ASSUME IInv, NEW c \in Calls, PubMkdir(c) PROVE IInv'
<1>1. /\ Moves(c) /\ call'[c].pc = "write"
      /\ call[c].op = "publish" /\ call[c].pc = "mkdir"
      /\ creds' = IF creds = "none" THEN "dir" ELSE creds
      /\ UNCHANGED <<cont, mnt, dir, phase, late, faults>>
  BY Goes DEF PubMkdir, At
<1>2. HandlerInv(c)'
  BY <1>1
  DEF IInv, InUse, Moves, HandlerInv, FilesOf, CleanOf, ServedOf, WithPath, WithCreds,
      DockerRequests
<1>3. Written => Written'
  BY <1>1 DEF Written, Torn, Moves, IInv, TypeOK
<1>4. creds \in {"none", "dir", "empty", "file"} /\ dir \in BOOLEAN
  BY DEF IInv, TypeOK
<1> QED BY <1>1, <1>2, <1>3, <1>4, FileMoves

\* The file is empty from here on, but c is about to write it.
LEMMA PubOpenStep == ASSUME IInv, NEW c \in Calls, PubOpen(c) PROVE IInv'
<1>1. CASE creds = "none"
  <2>1. /\ Moves(c) /\ call'[c].pc = "Internal"
        /\ call[c].op = "publish" /\ call[c].pc = "write"
    BY <1>1, Goes DEF PubOpen, At
  <2>2. HandlerInv(c)'
    BY <2>1
    DEF Moves, HandlerInv, FilesOf, CleanOf, ServedOf, WithPath, WithCreds,
        DockerRequests
  <2> QED BY <1>1, <2>1, <2>2, LookMoves DEF PubOpen
<1>2. CASE creds # "none"
  <2>1. /\ Moves(c) /\ call'[c].pc = "fill"
        /\ call[c].op = "publish" /\ call[c].pc = "write"
        /\ creds' = "empty" /\ UNCHANGED <<cont, mnt, dir, phase, late, faults>>
    BY <1>2, Goes DEF PubOpen, At
  <2>2. HandlerInv(c)'
    BY <2>1
    DEF IInv, InUse, Moves, HandlerInv, FilesOf, CleanOf, ServedOf, WithPath, WithCreds,
        DockerRequests
  <2>3. Written'
    BY <2>1 DEF Written
  <2>4. dir \in BOOLEAN
    BY DEF IInv, TypeOK
  <2> QED BY <1>2, <2>1, <2>2, <2>3, <2>4, FileMoves
<1> QED BY <1>1, <1>2

LEMMA PubFillStep == ASSUME IInv, NEW c \in Calls, PubFill(c) PROVE IInv'
<1>1. /\ Moves(c) /\ call'[c].pc = "inspect"
      /\ call[c].op = "publish" /\ call[c].pc = "fill"
      /\ creds' = IF creds = "empty" THEN "file" ELSE creds
      /\ UNCHANGED <<cont, mnt, dir, phase, late, faults>>
  BY Goes DEF PubFill, At
<1>2. creds \in {"empty", "file"} => Written'
  BY <1>1 DEF Written
<1>3. HandlerInv(c)'
  BY <1>1, <1>2
  DEF IInv, InUse, Moves, HandlerInv, FilesOf, CleanOf, ServedOf, WithPath,
      WithCreds, DockerRequests
<1>4. creds \in {"none", "dir", "empty", "file"} /\ dir \in BOOLEAN
  BY DEF IInv, TypeOK
<1>5. Written => creds \in {"empty", "file"}
  BY DEF Written
<1> QED BY <1>1, <1>2, <1>3, <1>4, <1>5, FileMoves

\* A publish that waits for docker: its caller waits, the path is in use and has its
\* credentials.
LEMMA PublishWaits ==
    ASSUME IInv, NEW c \in Calls, call[c].op = "publish", call[c].ctx,
           call[c].pc \in DockerRequests
    PROVE  /\ InUse /\ dir /\ Written
           /\ ~Halted => cont.st # "exited" /\ call[c].pc # "remove"
BY DEF IInv, CallerInv, HandlerInv, FilesOf, ServedOf, WorldInv, WithPath, WithCreds

\* What it then knows of the next request.
LEMMA PublishKnows ==
    ASSUME IInv, NEW c \in Calls, call[c].op = "publish", call[c].ctx,
           call[c].pc \in DockerRequests, Moves(c),
           UNCHANGED <<dir, creds, phase, late, faults>>,
           call'[c].pc \notin {"write", "fill", "stop"},
           ~Halted => /\ call'[c].pc # "remove"
                      /\ call'[c].pc = "OK" => cont'.st \in {"running", "restarting"}
    PROVE  HandlerInv(c)' /\ Written'
<1>1. InUse /\ dir /\ Written
  BY PublishWaits
<1>2. InUse' = InUse /\ Halted' = Halted
  BY DEF InUse, Halted
<1>3. Written'
  BY <1>1 DEF Written, Torn, Moves, IInv, TypeOK, DockerRequests
<1> QED BY <1>1, <1>2, <1>3 DEF Moves, HandlerInv, FilesOf, CleanOf, ServedOf

\* A step of a publish that waits for docker and changes the container or the mount.
LEMMA ContMoves ==
    ASSUME IInv, NEW c \in Calls, call[c].op = "publish", call[c].ctx,
           call[c].pc \in DockerRequests, Moves(c), HandlerInv(c)', Written',
           UNCHANGED <<dir, creds, phase, late, faults>>,
           cont' \in Container, cont'.st # "none" => cont'.id # Nil,
           mnt' \in {"none", "live", "dead"},
           ~Halted => /\ cont'.st # "exited"
                      /\ cont.st \in {"running", "restarting"}
                            => cont'.st \in {"running", "restarting"}
    PROVE  IInv'
<1>1. InUse /\ dir /\ Written
  BY PublishWaits
<1>2. UNCHANGED <<Overlapped, Halted, LateCreate>>
  BY DEF Overlapped, Halted, LateCreate
<1>3. Keeps
  BY <1>1, <1>2 DEF Keeps
<1>4. WorldTyped'
  BY DEF WorldTyped, IInv, TypeOK
<1>5. WorldInv'
  BY <1>1, <1>2 DEF WorldInv
<1> QED BY <1>3, <1>4, <1>5, LateStays, HandlerMoves

LEMMA PubInspectStep == ASSUME IInv, NEW c \in Calls, PubInspect(c) PROVE IInv'
<1>1. /\ call[c].op = "publish" /\ call[c].pc = "inspect" /\ call[c].ctx
      /\ UNCHANGED <<cont, mnt, dir, creds, phase, late, faults>>
      /\ call[c].pc \in DockerRequests
  BY DEF PubInspect, At, DockerRequests
<1>2. /\ cont \in Container /\ (cont.st # "none" => cont.id # Nil)
      /\ InUse /\ (~Halted => cont.st # "exited")
  BY <1>1, PublishWaits DEF IInv, TypeOK
<1>3. /\ Moves(c)
      /\ cont.st = "none" => call'[c].pc = "create"
      /\ cont.st # "none" => call'[c].pc = NextByStatus(cont)
  <2>1. CASE cont.st = "none"
    BY <1>1, <2>1, Goes DEF PubInspect
  <2>2. CASE cont.st # "none"
    <3>1. call' = [call EXCEPT ![c].pc = NextByStatus(cont), ![c].id = cont.id]
      BY <2>2 DEF PubInspect
    <3>2. NextByStatus(cont) \in {"remove", "OK", "wait", "Internal", "start"}
      BY <1>2, <2>2, NextPc
    <3> QED BY <1>1, <1>2, <2>2, <3>1, <3>2, GoesWithId
  <2> QED BY <2>1, <2>2
<1>4. HandlerInv(c)'
  BY <1>1, <1>2, <1>3, NextPc, PublishKnows
<1> QED BY <1>1, <1>3, <1>4, LookMoves

LEMMA PubReinspectStep == ASSUME IInv, NEW c \in Calls, PubReinspect(c) PROVE IInv'
<1> DEFINE pc == IF Present(call[c].id) THEN NextByStatus(cont) ELSE "Internal"
<1>1. /\ call[c].op = "publish" /\ call[c].pc = "reinspect" /\ call[c].ctx
      /\ UNCHANGED <<cont, mnt, dir, creds, phase, late, faults>>
      /\ call[c].pc \in DockerRequests
      /\ Go(c, pc)
  BY DEF PubReinspect, At, DockerRequests
<1>2. /\ cont \in Container /\ call[c].id # Nil
      /\ InUse /\ (~Halted => cont.st # "exited")
  BY <1>1, PublishWaits DEF IInv, TypeOK
<1>3. /\ pc \in {"remove", "OK", "wait", "Internal", "start"}
      /\ pc = "remove" => cont.st = "exited"
      /\ pc = "OK" => cont.st = "running"
  BY <1>2, NextPc DEF Present
<1> HIDE DEF pc
<1>4. Moves(c) /\ call'[c].pc = pc
  BY <1>1, <1>2, <1>3, Goes
<1>5. HandlerInv(c)'
  BY <1>1, <1>2, <1>3, <1>4, PublishKnows
<1> QED BY <1>1, <1>4, <1>5, LookMoves

LEMMA PubWaitStep == ASSUME IInv, NEW c \in Calls, PubWait(c) PROVE IInv'
<1>1. /\ call[c].op = "publish" /\ call[c].pc = "wait" /\ call[c].ctx
      /\ UNCHANGED <<cont, mnt, dir, creds, phase, late, faults>>
      /\ call[c].pc \in DockerRequests
  BY DEF PubWait, At, DockerRequests
<1>2. PICK pc \in {"OK", "Internal"} : Go(c, pc) /\ (pc = "OK" => cont.st = "running")
  BY DEF PubWait
<1>3. Moves(c) /\ call'[c].pc = pc
  BY <1>1, <1>2, Goes
<1>4. HandlerInv(c)'
  BY <1>1, <1>2, <1>3, PublishKnows
<1> QED BY <1>1, <1>3, <1>4, LookMoves

LEMMA PubCreateStep == ASSUME IInv, NEW c \in Calls, PubCreate(c) PROVE IInv'
<1>1. /\ call[c].op = "publish" /\ call[c].pc = "create" /\ call[c].ctx
      /\ UNCHANGED <<mnt, dir, creds, phase, late, faults>>
      /\ call[c].pc \in DockerRequests
  BY DEF PubCreate, At, DockerRequests
<1>2. mnt \in {"none", "live", "dead"}
  BY DEF IInv, TypeOK
<1>3. CASE ~CanCreate
  <2>1. Moves(c) /\ call'[c].pc = "Internal" /\ UNCHANGED cont
    BY <1>1, <1>3, Goes DEF PubCreate
  <2>2. HandlerInv(c)'
    BY <1>1, <2>1, PublishKnows
  <2> QED BY <1>1, <2>1, <2>2, LookMoves
<1>4. CASE CanCreate
  <2>1. PICK i \in Ids : /\ Created(i)
                         /\ call' = [call EXCEPT ![c].pc = "reinspect", ![c].id = i]
    BY <1>4 DEF PubCreate, FreshIds
  <2>2. Moves(c) /\ call'[c].pc = "reinspect"
    BY <1>1, <2>1, GoesWithId
  <2>3. HandlerInv(c)' /\ Written'
    BY <1>1, <2>2, PublishKnows
  <2>4. cont' \in Container /\ cont'.st = "created" /\ cont'.id # Nil /\ cont.st = "none"
    BY <1>4, <2>1 DEF Created, CanCreate
  <2> QED BY <1>1, <1>2, <2>2, <2>3, <2>4, ContMoves
<1> QED BY <1>3, <1>4

\* Only where a container has ended for good is one removed.
LEMMA PubRemoveStep == ASSUME IInv, NEW c \in Calls, PubRemove(c) PROVE IInv'
<1>1. /\ call[c].op = "publish" /\ call[c].pc = "remove" /\ call[c].ctx
      /\ UNCHANGED <<dir, creds, phase, late, faults>>
      /\ call[c].pc \in DockerRequests
      /\ Go(c, "Internal")
  BY DEF PubRemove, At, DockerRequests
<1>2. Halted
  BY <1>1, PublishWaits
<1>3. Moves(c) /\ call'[c].pc = "Internal"
  BY <1>1, Goes
<1>4. HandlerInv(c)' /\ Written'
  BY <1>1, <1>3, PublishKnows
<1>5. /\ cont' \in Container /\ (cont'.st # "none" => cont'.id # Nil)
      /\ mnt' \in {"none", "live", "dead"}
  BY DEF PubRemove, Killed, Disconnect, IInv, TypeOK
<1> QED BY <1>1, <1>2, <1>3, <1>4, <1>5, ContMoves

LEMMA PubStartStep == ASSUME IInv, NEW c \in Calls, PubStart(c) PROVE IInv'
<1>1. /\ call[c].op = "publish" /\ call[c].pc = "start" /\ call[c].ctx
      /\ UNCHANGED <<mnt, dir, creds, phase, late, faults>>
      /\ call[c].pc \in DockerRequests
      /\ \E pc \in {"Internal", "wait"} : Go(c, pc)
  BY DEF PubStart, At, DockerRequests
<1>2. /\ InUse /\ (~Halted => cont.st # "exited")
      /\ call[c].id # Nil /\ cont \in Container /\ (cont.st # "none" => cont.id # Nil)
      /\ mnt \in {"none", "live", "dead"}
  BY <1>1, PublishWaits DEF IInv, TypeOK
<1>3. Moves(c) /\ call'[c].pc \in {"Internal", "wait"}
  BY <1>1, <1>2, Goes
<1>4. HandlerInv(c)' /\ Written'
  BY <1>1, <1>3, PublishKnows
<1>5. \/ cont' = cont
      \/ /\ cont' = [cont EXCEPT !.st = "running", !.health = "starting"]
         /\ cont.st # "none"
  BY DEF PubStart, Started
<1>6. /\ cont' \in Container /\ (cont'.st # "none" => cont'.id # Nil)
      /\ cont' = cont \/ cont'.st = "running"
  BY <1>2, <1>5
<1> QED BY <1>1, <1>2, <1>3, <1>4, <1>6, ContMoves

-----------------------------------------------------------------------------
(* Steps of an unpublish.                                                  *)

\* An unpublish goes on to a request that presupposes nothing, or only that the
\* container has gone.
LEMMA UnpublishKnows ==
    ASSUME IInv, NEW c \in Calls, call[c].op = "unpublish", Moves(c),
           call'[c].pc \in WithoutCont => Absent',
           call'[c].pc \notin {"rmdir", "clean", "OK"}
    PROVE  HandlerInv(c)'
BY DEF Moves, HandlerInv, FilesOf, CleanOf, ServedOf

\* While it runs the path is not in use any more.
LEMMA UnpublishRuns ==
    ASSUME IInv, NEW c \in Calls, call[c].op = "unpublish"
    PROVE  /\ ~InUse /\ phase \in {"unpublishing", "gone"}
           /\ call[c].ctx => phase = "unpublishing"
           /\ CleanOf(c)
           /\ ~call[c].ctx => Overlapped
BY DEF IInv, CallerInv, HandlerInv, InUse

\* A step of an unpublish that takes something away, and of the files nothing that a
\* container needs.
LEMMA UnpublishMoves ==
    ASSUME IInv, NEW c \in Calls, call[c].op = "unpublish", Moves(c), HandlerInv(c)',
           UNCHANGED <<phase, late, faults>>,
           cont' \in Container, cont'.st # "none" => cont'.id # Nil,
           mnt' \in {"none", "live", "dead"}, dir' \in BOOLEAN,
           creds' \in {"none", "dir", "empty", "file"},
           \/ cont' = cont
           \/ cont'.st = "none"
           \/ cont'.st = "exited" /\ cont.st \in {"running", "restarting"},
           UNCHANGED <<dir, creds>> \/ (Absent /\ cont' = cont),
           mnt = "none" => mnt' = "none", ~dir => ~dir', creds = "none" => creds' = "none",
           mnt' # "none" => dir', call[c].pc # "fill"
    PROVE  IInv'
<1>1. UNCHANGED <<Overlapped, Halted, Torn, LateCreate>> /\ ~InUse
  BY UnpublishRuns DEF Overlapped, Halted, Torn, LateCreate
<1>2. cont' = cont /\ Stray => Stray'
  BY <1>1, StrayStays
<1>3. Absent => Absent'
  BY <1>2 DEF Absent, Stray
<1>4. Keeps
  BY <1>1, <1>3 DEF Keeps
<1>5. WorldTyped'
  BY DEF WorldTyped, IInv, TypeOK
<1>6. UNCHANGED <<dir, creds>> => (Written => Written')
  BY <1>1 DEF Written, Moves, IInv, TypeOK
<1>7. cont'.st # "none" => (Written' /\ dir') \/ Stray'
  BY <1>2, <1>6 DEF IInv, WorldInv, Absent, Stray
<1>8. WorldInv'
  BY <1>1, <1>7 DEF WorldInv, InUse
<1> QED BY <1>4, <1>5, <1>8, LateStays, HandlerMoves

LEMMA UnpPathStep == ASSUME IInv, NEW c \in Calls, UnpPath(c) PROVE IInv'
<1>1. /\ call[c].op = "unpublish" /\ call[c].pc = "path"
      /\ UNCHANGED <<cont, mnt, dir, creds, phase, late, faults>>
      /\ Go(c, IF dir THEN "inspect" ELSE "clean")
  BY DEF UnpPath, At
<1>2. /\ Moves(c)
      /\ dir => call'[c].pc = "inspect"
      /\ ~dir => call'[c].pc = "clean"
  BY <1>1, Goes
<1>3. ~dir => Absent /\ mnt = "none"
  BY DEF IInv, WorldInv, Absent
<1>4. Stray => Stray'
  BY <1>1, <1>2, StrayStays DEF LateCreate
<1>5. HandlerInv(c)'
  BY <1>1, <1>2, <1>3, <1>4
  DEF Moves, HandlerInv, FilesOf, CleanOf, ServedOf, WithoutCont, Absent
<1> QED BY <1>1, <1>2, <1>5, LookMoves

LEMMA UnpInspectStep == ASSUME IInv, NEW c \in Calls, UnpInspect(c) PROVE IInv'
<1> DEFINE pc == CASE cont.st = "none" -> "umount"
                   [] cont.st = "running" -> "stop"
                   [] OTHER -> "remove"
<1>1. /\ call[c].op = "unpublish" /\ call[c].pc = "inspect"
      /\ UNCHANGED <<cont, mnt, dir, creds, phase, late, faults>>
      /\ call' = [call EXCEPT ![c].pc = pc, ![c].id = cont.id]
  BY DEF UnpInspect, At, IInv, TypeOK
<1>2. /\ cont \in Container /\ (cont.st # "none" => cont.id # Nil)
      /\ pc \in {"umount", "stop", "remove"}
      /\ pc = "umount" => cont.st = "none"
      /\ pc # "umount" => cont.st # "none"
  BY DEF IInv, TypeOK
<1> HIDE DEF pc
<1>3. Moves(c) /\ call'[c].pc = pc
  BY <1>1, <1>2, GoesWithId
<1>4. HandlerInv(c)'
  BY <1>1, <1>2, <1>3, UnpublishKnows DEF WithoutCont, Absent
<1> QED BY <1>1, <1>3, <1>4, LookMoves

\* What is known of the files whenever a step leaves them alone.
LEMMA FilesTyped ==
    ASSUME IInv
    PROVE  /\ mnt \in {"none", "live", "dead"} /\ dir \in BOOLEAN
           /\ creds \in {"none", "dir", "empty", "file"}
           /\ mnt # "none" => dir
           /\ cont \in Container /\ (cont.st # "none" => cont.id # Nil)
BY DEF IInv, TypeOK, WorldInv

\* Stopping a container ends one that ran.
LEMMA StoppedEnds ==
    ASSUME IInv, Stopped
    PROVE  /\ cont' \in Container /\ (cont'.st # "none" => cont'.id # Nil)
           /\ mnt' \in {"none", "live", "dead"}
           /\ mnt = "none" => mnt' = "none"
           /\ \/ cont' = cont
              \/ cont'.st = "exited" /\ cont.st \in {"running", "restarting"}
<1>1. cont \in Container /\ mnt \in {"none", "live", "dead"}
      /\ (cont.st # "none" => cont.id # Nil)
  BY FilesTyped
<1>2. CASE cont.st \in {"running", "restarting"}
  <2>1. cont' = [cont EXCEPT !.st = "exited"] /\ Disconnect
    BY <1>2 DEF Stopped
  <2>2. cont' \in Container /\ cont'.st = "exited" /\ cont'.id = cont.id
    BY <1>1, <2>1
  <2> QED BY <1>1, <1>2, <2>1, <2>2 DEF Disconnect
<1> QED BY <1>1, <1>2 DEF Stopped

LEMMA UnpStopStep == ASSUME IInv, NEW c \in Calls, UnpStop(c) PROVE IInv'
<1>1. /\ call[c].op = "unpublish" /\ call[c].pc = "stop"
      /\ UNCHANGED <<dir, creds, phase, late, faults>>
      /\ \E pc \in {"remove", "Internal"} : Go(c, pc)
      /\ call[c].id # Nil
      /\ Stopped \/ UNCHANGED <<cont, mnt>>
  BY DEF UnpStop, At, IInv, TypeOK
<1>2. Moves(c) /\ call'[c].pc \in {"remove", "Internal"}
  BY <1>1, Goes
<1>3. HandlerInv(c)'
  BY <1>1, <1>2, UnpublishKnows DEF WithoutCont
<1>4. CASE Stopped
  <2>1. mnt' # "none" => dir'
    BY <1>1, <1>4, StoppedEnds, FilesTyped
  <2> QED BY <1>1, <1>2, <1>3, <1>4, <2>1, StoppedEnds, FilesTyped, UnpublishMoves
<1>5. CASE UNCHANGED <<cont, mnt>>
  BY <1>1, <1>2, <1>3, <1>5, LookMoves
<1> QED BY <1>1, <1>4, <1>5

LEMMA UnpRemoveStep == ASSUME IInv, NEW c \in Calls, UnpRemove(c) PROVE IInv'
<1>1. /\ call[c].op = "unpublish" /\ call[c].pc = "remove"
      /\ UNCHANGED <<mnt, dir, creds, phase, late, faults>>
      /\ \/ Go(c, "umount") /\ cont' = NoContainer
         \/ Go(c, "Internal") /\ UNCHANGED cont
  BY DEF UnpRemove, At
<1>2. /\ Moves(c) /\ call'[c].pc \in {"umount", "Internal"}
      /\ call'[c].pc = "umount" => cont' = NoContainer
      /\ call'[c].pc = "Internal" => cont' = cont
  BY <1>1, Goes
<1>3. NoContainer \in Container /\ NoContainer.st = "none"
  OBVIOUS
<1>4. HandlerInv(c)'
  BY <1>1, <1>2, <1>3, UnpublishKnows DEF WithoutCont, Absent
<1>5. CASE cont' = NoContainer
  BY <1>1, <1>2, <1>3, <1>4, <1>5, FilesTyped, UnpublishMoves
<1>6. CASE cont' = cont
  BY <1>1, <1>2, <1>4, <1>6, LookMoves
<1> QED BY <1>1, <1>5, <1>6

\* Of an unpublish beyond the container: it is away, and nothing of it is awaited.
LEMMA UnpublishLeaves ==
    ASSUME IInv, NEW c \in Calls, call[c].op = "unpublish", call[c].pc \in WithoutCont,
           Moves(c), UNCHANGED <<cont, phase, late, faults>>
    PROVE  /\ Absent /\ Absent' /\ ~InUse' /\ Overlapped' = Overlapped
           /\ call[c].pc \in {"rmdir", "clean"} => mnt = "none"
           /\ call[c].pc = "clean" => ~dir \/ Overlapped
<1>1. CleanOf(c) /\ ~InUse
  BY UnpublishRuns
<1>2. Stray => Stray'
  BY StrayStays DEF LateCreate
<1> QED BY <1>1, <1>2 DEF CleanOf, Absent, InUse, Overlapped

LEMMA UnpUmountStep == ASSUME IInv, NEW c \in Calls, UnpUmount(c) PROVE IInv'
<1>1. /\ call[c].op = "unpublish" /\ call[c].pc = "umount"
      /\ UNCHANGED <<cont, dir, creds, phase, late, faults>> /\ mnt' = "none"
      /\ Go(c, "rmdir")
  BY DEF UnpUmount, At
<1>2. Moves(c) /\ call'[c].pc = "rmdir"
  BY <1>1, Goes
<1>3. HandlerInv(c)'
  BY <1>1, <1>2, UnpublishLeaves
  DEF Moves, HandlerInv, FilesOf, CleanOf, ServedOf, WithoutCont
<1> QED BY <1>1, <1>2, <1>3, FilesTyped, UnpublishMoves

LEMMA UnpRmdirStep == ASSUME IInv, NEW c \in Calls, UnpRmdir(c) PROVE IInv'
<1>1. /\ call[c].op = "unpublish" /\ call[c].pc = "rmdir"
      /\ UNCHANGED <<cont, mnt, creds, phase, late, faults>>
      /\ \/ Go(c, "clean") /\ dir' = FALSE
         \/ Go(c, "Internal") /\ UNCHANGED dir
  BY DEF UnpRmdir, At
<1>2. /\ Moves(c) /\ call'[c].pc \in {"clean", "Internal"}
      /\ call'[c].pc = "clean" => dir' = FALSE
      /\ call'[c].pc = "Internal" => dir' = dir
  BY <1>1, Goes
<1>3. Absent /\ Absent' /\ mnt = "none"
  BY <1>1, <1>2, UnpublishLeaves DEF WithoutCont
<1>4. HandlerInv(c)'
  BY <1>1, <1>2, <1>3 DEF Moves, HandlerInv, FilesOf, CleanOf, ServedOf
<1>5. CASE dir' = FALSE
  BY <1>1, <1>2, <1>3, <1>4, <1>5, FilesTyped, UnpublishMoves
<1>6. CASE dir' = dir
  BY <1>1, <1>2, <1>4, <1>6, LookMoves
<1> QED BY <1>2, <1>5, <1>6

LEMMA UnpCleanStep == ASSUME IInv, NEW c \in Calls, UnpClean(c) PROVE IInv'
<1>1. /\ call[c].op = "unpublish" /\ call[c].pc = "clean"
      /\ UNCHANGED <<cont, mnt, dir, phase, late, faults>> /\ creds' = "none"
      /\ Go(c, "OK")
  BY DEF UnpClean, At
<1>2. Moves(c) /\ call'[c].pc = "OK"
  BY <1>1, Goes
<1>3. /\ Absent /\ Absent' /\ mnt = "none" /\ (~dir \/ Overlapped)
      /\ Overlapped' = Overlapped
  BY <1>1, <1>2, UnpublishLeaves DEF WithoutCont
<1>4. HandlerInv(c)'
  BY <1>1, <1>2, <1>3 DEF Moves, HandlerInv, FilesOf, CleanOf, ServedOf
<1> QED BY <1>1, <1>2, <1>3, <1>4, FilesTyped, UnpublishMoves

-----------------------------------------------------------------------------
(* Calls, answers and faults, docker and bosfs.                            *)

\* Handlers that stop waiting leave requests behind that keep to the rules, and a file
\* that is known to be torn.
LEMMA WaitEnds ==
    ASSUME IInv, NEW cs \in SUBSET Calls, NEW n \in 0 .. MaxFaults, StopWaiting(cs, n),
           UNCHANGED <<cont, mnt, dir, creds, phase>>,
           \A d \in Calls : call'[d] = call[d] \/ (d \in cs /\ call'[d].pc # "start")
    PROVE  Keeps /\ WorldTyped' /\ WorldInv' /\ LateInv'
<1> DEFINE sent == {[op |-> call[c].op, pc |-> call[c].pc, id |-> call[c].id] :
                        c \in {d \in cs : call[d].pc \in Changes}}
           torn == IF \E c \in cs : call[c].pc = "fill" THEN {"torn"} ELSE {}
<1>1. PICK left \in SUBSET sent :
         /\ late' = late \cup left
         /\ Leaves(n, torn \cup IF \E r \in left : r.pc = "create"
                                THEN {"late_create"} ELSE {})
  BY DEF StopWaiting
<1>2. PICK traces \in SUBSET Lasting :
         /\ Leaves(n, traces)
         /\ torn \subseteq traces
         /\ \A r \in left : r.pc = "create" => "late_create" \in traces
  BY <1>1
<1>3. /\ faults' \in [n : 0 .. MaxFaults, kinds : SUBSET Lasting]
      /\ faults'.kinds = faults.kinds \cup traces
      /\ Overlapped => Overlapped'
      /\ Halted => Halted'
      /\ Torn => Torn'
      /\ LateCreate => LateCreate'
  BY <1>2, LeavesKept
<1>4. \A r \in left : \E c \in cs : /\ r = [op |-> call[c].op, pc |-> call[c].pc,
                                            id |-> call[c].id]
                                    /\ call[c].pc \in Changes
  BY <1>1
<1>5. Written => Written'
  <2>1. ASSUME creds = "empty", NEW c \in Calls, call[c].pc = "fill"
        PROVE  Written'
    <3>1. CASE c \in cs
      <4>1. Torn'
        BY <1>2, <1>3, <2>1, <3>1 DEF Torn
      <4> QED BY <2>1, <4>1 DEF Written
    <3>2. CASE c \notin cs
      BY <2>1, <3>2 DEF Written
    <3> QED BY <3>1, <3>2
  <2> QED BY <1>3, <2>1 DEF Written
<1>6. Stray => Stray'
  <2>1. ASSUME NEW id, Claimed(id)' PROVE Claimed(id)
    <3>1. CASE \E c \in Calls : call'[c].pc = "start" /\ call'[c].id = id
      BY <3>1 DEF Claimed
    <3>2. CASE \E r \in late' : r.pc = "start" /\ r.id = id
      BY <1>1, <1>4, <3>2 DEF Claimed
    <3> QED BY <2>1, <3>1, <3>2 DEF Claimed
  <2> QED BY <1>3, <2>1 DEF Stray, InUse
<1>7. Keeps /\ WorldInv'
  BY <1>3, <1>5, <1>6, WorldStays
<1>8. \A r \in left : /\ r \in Request
                      /\ r.pc = "create" => LateCreate'
                      /\ InUse => /\ r.op = "publish" /\ r.pc # "stop"
                                  /\ r.pc = "create" => dir /\ Written
                                  /\ r.pc = "remove" => Halted
  <2>1. TAKE r \in left
  <2>2. PICK c \in cs : /\ r = [op |-> call[c].op, pc |-> call[c].pc, id |-> call[c].id]
                        /\ call[c].pc \in Changes
    BY <1>4
  <2>3. call[c] \in Handler /\ call[c].op # "idle"
    BY <2>2 DEF IInv, TypeOK, CallerInv
  <2>4. InUse => call[c].op = "publish"
    BY <2>3 DEF IInv, CallerInv, InUse
  <2>5. FilesOf(c) /\ ServedOf(c)
    BY DEF IInv, HandlerInv
  <2>6. r.pc = "create" => LateCreate'
    BY <1>2, <1>3 DEF LateCreate
  <2> QED
    BY <2>2, <2>3, <2>4, <2>5, <2>6
    DEF FilesOf, ServedOf, WithPath, WithCreds, DockerRequests
<1>9. WorldTyped'
  BY <1>1, <1>3, <1>8 DEF IInv, TypeOK, WorldTyped
<1>10. InUse' = InUse
  BY DEF InUse
<1>11. LateInv'
  <2> USE DEF LateInv
  <2>1. TAKE r \in late'
  <2>2. CASE r \in late
    BY <1>3, <1>5, <1>10, <2>2 DEF IInv
  <2>3. CASE r \in left
    BY <1>3, <1>5, <1>8, <1>10, <2>3
  <2> QED BY <1>1, <2>2, <2>3
<1> QED BY <1>7, <1>9, <1>11

\* A request that fails, and one that is cancelled.
LEMMA FailsStep ==
    ASSUME IInv, NEW c \in Calls, Fails(c) \/ Cancelled(c)
    PROVE  IInv'
<1>1. /\ Moves(c) /\ call'[c].pc = "Internal"
      /\ UNCHANGED <<cont, mnt, dir, creds, phase>>
  BY Goes DEF Fails, Cancelled
<1>2. PICK n \in 0 .. MaxFaults : StopWaiting({c}, n)
  BY DEF Fails, Cancelled, May, IInv, TypeOK
<1>3. \A d \in Calls : call'[d] = call[d] \/ (d \in {c} /\ call'[d].pc # "start")
  BY <1>1 DEF Moves, IInv, TypeOK
<1>4. Keeps /\ WorldTyped' /\ WorldInv' /\ LateInv'
  BY <1>1, <1>2, <1>3, WaitEnds
<1>5. HandlerInv(c)'
  BY <1>1
  DEF HandlerInv, FilesOf, CleanOf, ServedOf, WithPath, WithCreds, WithoutCont,
      DockerRequests
<1> QED BY <1>1, <1>4, <1>5, HandlerMoves

LEMMA CrashStep == ASSUME IInv, Crash PROVE IInv'
<1>1. /\ UNCHANGED <<cont, mnt, dir, creds, phase>>
      /\ call' = [c \in Calls |-> NoHandler]
  BY DEF Crash
<1>2. PICK n \in 0 .. MaxFaults : StopWaiting(Calls, n)
  BY DEF Crash, May, IInv, TypeOK
<1>3. Keeps /\ WorldTyped' /\ WorldInv' /\ LateInv'
  BY <1>1, <1>2, WaitEnds
<1>4. TypeOK' /\ CallerInv'
  BY <1>1, <1>3 DEF IInv, TypeOK, WorldTyped, CallerInv
<1>5. \A c \in Calls : HandlerInv(c)'
  BY <1>1 DEF HandlerInv, FilesOf, CleanOf, ServedOf
<1> QED BY <1>3, <1>4, <1>5, ToldStays DEF IInv

\* The caller gives up: from now on some handler is on its own.
LEMMA TimeoutStep == ASSUME IInv, NEW c \in Calls, Timeout(c) PROVE IInv'
<1>1. /\ faults' \in [n : 0 .. MaxFaults, kinds : SUBSET Lasting]
      /\ Overlapped' /\ (Halted => Halted') /\ (Torn => Torn')
      /\ LateCreate => LateCreate'
      /\ UNCHANGED <<cont, mnt, dir, creds, phase, late>>
  BY FaultKept DEF Timeout
<1>2. /\ call' \in [Calls -> Handler]
      /\ \A d \in Calls : /\ call'[d].op = call[d].op /\ call'[d].pc = call[d].pc
                          /\ call'[d].id = call[d].id
                          /\ call'[d].ctx => call[d].ctx
                          /\ call[d] = NoHandler => call'[d] = NoHandler
  <2>1. /\ call[c] \in Handler /\ call \in [Calls -> Handler] /\ call[c].ctx
        /\ call' = [call EXCEPT ![c].ctx = FALSE]
    BY DEF Timeout, IInv, TypeOK
  <2>2. call'[c] = [call[c] EXCEPT !.ctx = FALSE] /\ call[c] # NoHandler
    BY <2>1
  <2>3. /\ call'[c] \in Handler /\ call'[c].op = call[c].op /\ call'[c].pc = call[c].pc
        /\ call'[c].id = call[c].id /\ call'[c].ctx = FALSE
    BY <2>1, <2>2
  <2> QED BY <2>1, <2>2, <2>3
<1>3. TypeOK'
  BY <1>1, <1>2 DEF IInv, TypeOK
<1>4. CallerInv'
  BY <1>1, <1>2 DEF IInv, CallerInv, InUse
<1>5. (Written => Written') /\ (Stray => Stray')
  BY <1>1, <1>2 DEF Written, Stray, Claimed, InUse
<1>6. Keeps /\ WorldInv'
  BY <1>1, <1>5, WorldStays
<1>7. \A d \in Calls : HandlerInv(d)'
  BY <1>1, <1>2, <1>5
  DEF IInv, HandlerInv, FilesOf, CleanOf, ServedOf, InUse, Absent
<1> QED BY <1>1, <1>3, <1>4, <1>6, <1>7, ToldStays, LateStays DEF IInv

\* An OK: a publish has made, an unpublish has taken away, all there is.
LEMMA ReturnStep == ASSUME IInv, NEW c \in Calls, Return(c) PROVE IInv'
<1>1. /\ UNCHANGED <<cont, mnt, dir, creds, late, faults>>
      /\ call[c].op # "idle" /\ call[c].pc \notin {"fill", "start"}
      /\ call'[c] = NoHandler
      /\ call' \in [Calls -> Handler]
      /\ \A d \in Calls : d # c => call'[d] = call[d]
      /\ UNCHANGED <<Overlapped, Halted, Torn, LateCreate>>
      /\ call[c].op \in {"publish", "unpublish"}
  BY DEF Return, IInv, TypeOK, Overlapped, Halted, Torn, LateCreate
<1>2. \/ phase' = phase
      \/ /\ call[c].ctx /\ call[c].pc = "OK"
         /\ \/ call[c].op = "publish" /\ InUse /\ phase # "new" /\ phase' = "published"
            \/ call[c].op = "unpublish" /\ phase = "unpublishing" /\ phase' = "gone"
  BY <1>1 DEF Return, IInv, CallerInv
<1>3. InUse' = InUse /\ (phase' = "new" <=> phase = "new")
  BY <1>2 DEF InUse
<1>4. TypeOK'
  BY <1>1, <1>2 DEF IInv, TypeOK
<1>5. CallerInv'
  <2>1. ASSUME NEW d \in Calls, d # c
        PROVE  /\ call'[d].op = "idle" => call'[d] = NoHandler
               /\ call'[d].op = "publish" => phase' # "new"
               /\ call'[d].op = "publish" /\ call'[d].ctx => InUse'
               /\ call'[d].op = "unpublish" => phase' \in {"unpublishing", "gone"}
               /\ call'[d].op = "unpublish" /\ call'[d].ctx => phase' = "unpublishing"
               /\ call'[d].op # "idle" => call'[d].ctx \/ Overlapped'
    BY <1>1, <1>2, <1>3, <2>1 DEF IInv, CallerInv, InUse
  <2>2. \A d, e \in Calls : call'[d].ctx /\ call'[e].ctx => d = e
    BY <1>1 DEF IInv, CallerInv
  <2> QED BY <1>1, <2>1, <2>2 DEF CallerInv
<1>6. (Written => Written') /\ (Stray => Stray')
  BY <1>1, <1>3 DEF Written, Stray, Claimed
<1>7. \A d \in Calls : HandlerInv(d)'
  BY <1>1, <1>3, <1>6 DEF IInv, HandlerInv, FilesOf, CleanOf, ServedOf, Absent
<1>8. WorldInv' /\ LateInv'
  BY <1>1, <1>3, <1>6 DEF IInv, WorldInv, LateInv
<1>9. PublishedIsServed' /\ GoneInv'
  <2>1. HandlerInv(c)
    BY DEF IInv
  <2> QED
    BY <1>1, <1>2, <1>6, <2>1
    DEF IInv, PublishedIsServed, GoneInv, HandlerInv, FilesOf, CleanOf,
        ServedOf, WithPath, WithCreds, WithoutCont, Absent
<1> QED BY <1>4, <1>5, <1>7, <1>8, <1>9 DEF IInv

LEMMA CallStep ==
    ASSUME IInv, NEW c \in Calls, CallPublish(c) \/ CallUnpublish(c)
    PROVE  IInv'
<1>1. /\ UNCHANGED <<cont, mnt, dir, creds, late, faults>>
      /\ \A d \in Calls : ~call[d].ctx
      /\ \A d \in Calls : d # c => call'[d] = call[d]
      /\ call' \in [Calls -> Handler]
      /\ call'[c].ctx = TRUE /\ call[c].op = "idle"
      /\ UNCHANGED <<Overlapped, Halted, Torn, LateCreate>>
  <2>1. /\ UNCHANGED <<cont, mnt, dir, creds, late, faults>>
        /\ \A d \in Calls : ~call[d].ctx
        /\ call[c].op = "idle"
    BY DEF CallPublish, CallUnpublish, Waiting
  <2>2. PICK op \in {"publish", "unpublish"}, pc \in {"bucket", "path"} :
           call' = [call EXCEPT ![c] = [op |-> op, pc |-> pc, ctx |-> TRUE, id |-> Nil]]
    BY DEF CallPublish, CallUnpublish
  <2>3. call \in [Calls -> Handler]
    BY DEF IInv, TypeOK
  <2> QED BY <2>1, <2>2, <2>3 DEF Overlapped, Halted, Torn, LateCreate
<1>2. \/ /\ call'[c].op = "publish" /\ call'[c].pc = "bucket"
         /\ phase \in {"new", "publishing", "published"}
         /\ phase' = IF phase = "new" THEN "publishing" ELSE phase
      \/ /\ call'[c].op = "unpublish" /\ call'[c].pc = "path"
         /\ phase \in {"publishing", "published", "unpublishing"}
         /\ phase' = "unpublishing"
  BY DEF CallPublish, CallUnpublish, IInv, TypeOK
<1>3. TypeOK'
  BY <1>1, <1>2 DEF IInv, TypeOK
<1>4. CallerInv'
  BY <1>1, <1>2 DEF IInv, CallerInv, InUse
<1>5. InUse' => InUse
  BY <1>2 DEF InUse
<1>6. HandlerInv(c)'
  BY <1>1, <1>2
  DEF HandlerInv, FilesOf, CleanOf, ServedOf, WithPath, WithCreds, WithoutCont,
      DockerRequests
<1>7. (Written => Written') /\ (Stray => Stray')
  <2>1. call[c] = NoHandler
    BY <1>1 DEF IInv, CallerInv
  <2> QED BY <1>1, <1>2, <1>5, <2>1 DEF Written, Stray, Claimed
<1>8. \A d \in Calls : HandlerInv(d)'
  BY <1>1, <1>5, <1>6, <1>7 DEF IInv, HandlerInv, FilesOf, CleanOf, ServedOf, Absent
<1>9. WorldInv' /\ LateInv' /\ PublishedIsServed' /\ GoneInv'
  BY <1>1, <1>2, <1>5, <1>7
  DEF IInv, WorldInv, LateInv, PublishedIsServed, GoneInv
<1> QED BY <1>3, <1>4, <1>8, <1>9 DEF IInv

\* A step of docker: it takes no container from a path in use but where one ends for
\* good, and starts none that is stray.
LEMMA DockerMoves ==
    ASSUME IInv, UNCHANGED <<dir, creds, call, phase>>, late' \subseteq late,
           faults' \in [n : 0 .. MaxFaults, kinds : SUBSET Lasting],
           Overlapped => Overlapped', Halted => Halted', Torn => Torn',
           LateCreate => LateCreate',
           cont' \in Container, cont'.st # "none" => cont'.id # Nil,
           mnt' \in {"none", "live", "dead"}, mnt' # "none" => dir,
           InUse => /\ cont.st \in {"running", "restarting"}
                          => cont'.st \in {"running", "restarting"} \/ Halted'
                    /\ ~Halted' => cont'.st # "exited",
           ~InUse => /\ Absent => Absent'
                     /\ Absent /\ mnt = "none" => mnt' = "none",
           cont'.st # "none" => (Written /\ dir) \/ Stray'
    PROVE  IInv'
<1>1. Written => Written'
  BY DEF Written
<1>2. Keeps
  BY <1>1 DEF Keeps
<1>3. WorldTyped'
  BY DEF IInv, TypeOK, WorldTyped
<1>4. WorldInv'
  BY <1>1 DEF WorldInv, InUse
<1> QED BY <1>2, <1>3, <1>4, WorldMoves

\* Docker carries out what nobody waits for any more.
LEMMA LateStep == ASSUME IInv, NEW r \in late, Late(r) PROVE IInv'
<1>1. /\ UNCHANGED <<dir, creds, call, phase, faults>>
      /\ late' = late \ {r} /\ late' \subseteq late
      /\ UNCHANGED <<Overlapped, Halted, Torn, LateCreate, InUse>>
      /\ faults \in [n : 0 .. MaxFaults, kinds : SUBSET Lasting]
      /\ r \in Request
  BY DEF Late, IInv, TypeOK, Overlapped, Halted, Torn, LateCreate, InUse
<1>2. /\ r.pc = "create" => LateCreate
      /\ InUse => /\ r.op = "publish" /\ r.pc # "stop"
                  /\ r.pc = "create" => dir /\ Written
                  /\ r.pc = "remove" => Halted
  BY DEF IInv, LateInv
<1>3. cont' = cont => (Stray => Stray')
  BY <1>1 DEF Stray, Claimed
<1>4. /\ cont.st # "none" => (Written /\ dir) \/ Stray
      /\ InUse /\ ~Halted => cont.st # "exited"
  BY DEF IInv, WorldInv
<1>5. CASE r.pc = "create" /\ CanCreate /\ UNCHANGED mnt /\ \E id \in FreshIds : Created(id)
  <2>1. PICK id \in FreshIds : Created(id)
    BY <1>5
  <2>2. /\ cont' \in Container /\ cont'.st = "created" /\ cont'.id = id /\ id # Nil
        /\ cont.st = "none"
    BY <1>5, <2>1 DEF Created, FreshIds, CanCreate
  <2>3. ~Claimed(id)'
    BY <1>1, <2>1 DEF FreshIds, Claimed
  <2>4. ~InUse => Stray'
    BY <1>1, <1>2, <1>5, <2>2, <2>3 DEF Stray
  <2> QED BY <1>1, <1>2, <1>5, <2>2, <2>4, FilesTyped, DockerMoves DEF Absent
<1>6. CASE r.pc = "start" /\ CanStart(r.id) /\ Started /\ UNCHANGED mnt
  <2>1. cont.st # "none" /\ ~Stray
    BY <1>6 DEF CanStart, Present, Stray, Claimed
  <2>2. \/ cont' = cont
        \/ cont' = [cont EXCEPT !.st = "running", !.health = "starting"]
    BY <1>6 DEF Started
  <2>3. /\ cont' \in Container /\ cont'.id = cont.id /\ cont.id # Nil
        /\ cont' = cont \/ cont'.st = "running"
    BY <2>1, <2>2, FilesTyped
  <2> QED BY <1>1, <1>4, <1>6, <2>1, <2>3, FilesTyped, DockerMoves DEF Absent
<1>7. CASE r.pc = "stop" /\ Present(r.id) /\ Stopped
  <2>1. cont' = cont \/ (cont'.st = "exited" /\ ~Absent)
    BY <1>7, StoppedEnds DEF Absent, Stray
  <2>2. Absent => Absent'
    BY <1>3, <2>1 DEF Absent
  <2>3. cont'.st # "none" => (Written /\ dir) \/ Stray'
    BY <1>3, <1>4, <2>1 DEF Absent
  <2>4. ~InUse /\ (mnt' # "none" => dir)
    BY <1>2, <1>7, StoppedEnds, FilesTyped
  <2> QED BY <1>1, <1>7, <2>2, <2>3, <2>4, StoppedEnds, DockerMoves
<1>8. CASE r.pc = "remove" /\ (Killed(r.id) \/ (cont' = NoContainer /\ UNCHANGED mnt))
  <2>1. NoContainer \in Container /\ NoContainer.st = "none"
    OBVIOUS
  <2>2. /\ cont' = NoContainer \/ cont' = cont
        /\ mnt' \in {"none", "live", "dead"}
        /\ mnt = "none" => mnt' = "none"
    BY <1>8, FilesTyped DEF Killed, Disconnect
  <2>3. cont' \in Container /\ (cont'.st # "none" => cont'.id # Nil)
    BY <2>1, <2>2, FilesTyped
  <2>4. Absent => Absent'
    BY <1>3, <2>1, <2>2 DEF Absent
  <2>5. cont'.st # "none" => (Written /\ dir) \/ Stray'
    BY <1>3, <1>4, <2>1, <2>2
  <2>6. InUse => Halted'
    BY <1>1, <1>2, <1>8
  <2> QED BY <1>1, <2>2, <2>3, <2>4, <2>5, <2>6, FilesTyped, DockerMoves
<1>9. CASE UNCHANGED <<cont, mnt>>
  <2>1. (Absent => Absent') /\ (cont'.st # "none" => (Written /\ dir) \/ Stray')
    BY <1>3, <1>4, <1>9 DEF Absent
  <2> QED BY <1>1, <1>4, <1>9, <2>1, FilesTyped, DockerMoves
<1> QED BY <1>5, <1>6, <1>7, <1>8, <1>9 DEF Late

\* A container that runs, ends or comes back: it never comes from nothing, and ends for
\* good only by Halt.
LEMMA BosfsStep ==
    ASSUME IInv, BosfsMounts \/ BosfsFails \/ Probe \/ BosfsDies \/ Restart \/ Halt
    PROVE  IInv'
<1>1. /\ UNCHANGED <<dir, creds, call, phase, late>>
      /\ cont.st \in {"running", "restarting"}
      /\ cont \in Container /\ cont.id # Nil
  BY DEF BosfsMounts, BosfsFails, Probe, BosfsDies, Restart, Halt, IInv, TypeOK
<1>2. /\ faults' \in [n : 0 .. MaxFaults, kinds : SUBSET Lasting]
      /\ Overlapped => Overlapped'
      /\ Halted => Halted'
      /\ Torn => Torn'
      /\ LateCreate => LateCreate'
      /\ Halt => Halted'
  BY FaultKept
  DEF BosfsMounts, BosfsFails, Probe, BosfsDies, Restart, Halt, IInv, TypeOK,
      Overlapped, Halted, Torn, LateCreate
<1>3. /\ cont' \in Container /\ cont'.id = cont.id
      /\ cont'.st \in {"running", "restarting"} \/ (Halt /\ cont'.st = "exited")
      /\ mnt' \in {"none", "live", "dead"}
      /\ mnt' # "none" => mnt # "none" \/ dir
  BY <1>1
  DEF BosfsMounts, BosfsFails, Probe, BosfsDies, Restart, Halt, IInv, TypeOK, Disconnect
<1>4. ~Absent /\ Written /\ dir
  BY <1>1 DEF IInv, WorldInv, Absent, Stray
<1> QED BY <1>1, <1>2, <1>3, <1>4, FilesTyped, DockerMoves

LEMMA InitIInv == Init => IInv
<1> SUFFICES ASSUME Init PROVE IInv
  OBVIOUS
<1>1. TypeOK
  <2>1. call \in [Calls -> Handler] /\ \A c \in Calls : call[c] = NoHandler
    BY DEF Init
  <2>2. /\ cont \in Container /\ cont.st = "none"
        /\ faults \in [n : 0 .. MaxFaults, kinds : SUBSET Lasting]
    BY DEF Init
  <2> QED BY <2>1, <2>2 DEF Init, TypeOK
<1>2. CallerInv /\ \A c \in Calls : HandlerInv(c)
  BY DEF Init, CallerInv, HandlerInv, FilesOf, CleanOf, ServedOf
<1>3. LateInv /\ WorldInv /\ PublishedIsServed /\ GoneInv
  BY DEF Init, LateInv, WorldInv, PublishedIsServed, GoneInv
<1> QED BY <1>1, <1>2, <1>3 DEF IInv

LEMMA StepIInv == IInv /\ [Next]_vars => IInv'
<1> SUFFICES ASSUME IInv, [Next]_vars PROVE IInv'
  OBVIOUS
<1>1. ASSUME NEW c \in Calls, HandlerStep(c)
      PROVE  IInv'
  <2>1. CASE Publish(c)
    BY <2>1, PubBucketStep, PubPathStep, PubMkdirStep, PubOpenStep, PubFillStep,
       PubInspectStep, PubCreateStep, PubReinspectStep, PubRemoveStep, PubStartStep,
       PubWaitStep
    DEF Publish
  <2>2. CASE Unpublish(c)
    BY <2>2, UnpPathStep, UnpInspectStep, UnpStopStep, UnpRemoveStep, UnpUmountStep,
       UnpRmdirStep, UnpCleanStep
    DEF Unpublish
  <2> QED BY <1>1, <2>1, <2>2, FailsStep, ReturnStep DEF HandlerStep
<1>2. CASE UNCHANGED vars
  <2>1. UNCHANGED <<Overlapped, Halted, Torn, LateCreate, Written, Absent, Stray>>
    BY <1>2
    DEF vars, Overlapped, Halted, Torn, LateCreate, Written, Absent, Stray, InUse,
        Claimed
  <2>2. faults \in [n : 0 .. MaxFaults, kinds : SUBSET Lasting]
    BY DEF IInv, TypeOK
  <2>3. /\ InUse /\ ~Halted => cont.st # "exited"
        /\ cont.st # "none" => (Written /\ dir) \/ Stray
    BY DEF IInv, WorldInv
  <2> QED BY <1>2, <2>1, <2>2, <2>3, FilesTyped, DockerMoves DEF vars
<1> QED
  BY <1>1, <1>2, CallStep, FailsStep, TimeoutStep, LateStep, BosfsStep, CrashStep DEF Next

LEMMA Invariance == Spec => []IInv
<1> QED BY InitIInv, StepIInv, PTL DEF Spec

-----------------------------------------------------------------------------
(* Theorems.                                                               *)

\* Every variable keeps its type, a container has an id, and a handler that goes on to
\* use a container has kept one.
THEOREM TypeCorrect == Spec => []TypeOK
<1>1. IInv => TypeOK
  BY DEF IInv
<1> QED BY <1>1, Invariance, PTL

\* No step of a publish, of an unpublish, of a handler left over of either or of docker
\* carrying out what they asked for, takes the credentials file or the target path from
\* under a container, but for one that was created late and is never started.
THEOREM ContainersKeepFiles == Spec => []ContainerHasItsFiles
<1>1. IInv => ContainerHasItsFiles
  BY DEF IInv, WorldInv, ContainerHasItsFiles, Stray
<1> QED BY <1>1, Invariance, PTL

\* A published volume is served by a container that docker keeps running, unless it
\* ended for good, with its path, and with credentials that are written, being written,
\* or left empty by a write that was stopped halfway.
THEOREM PublishedStaysServed == Spec => []PublishedIsServed
<1>1. IInv => PublishedIsServed
  BY DEF IInv
<1> QED BY <1>1, Invariance, PTL

\* After the OK of NodeUnpublishVolume there is no mount, for good, no container but one
\* that docker created when nobody waited and that is never started, and no path and
\* credentials but those a handler left over has made.
THEOREM UnpublishedStaysClean == Spec => []UnpublishedIsClean
<1>1. IInv => UnpublishedIsClean
  BY DEF IInv, GoneInv, Absent, Stray, UnpublishedIsClean
<1> QED BY <1>1, Invariance, PTL
=============================================================================
