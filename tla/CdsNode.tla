------------------------------- MODULE CdsNode -------------------------------
(***************************************************************************)
(* NodeStageVolume, NodeUnstageVolume, NodePublishVolume,                  *)
(* NodeUnpublishVolume and NodeExpandVolume of the CDS node server         *)
(* (pkg/driver/cds/node.go, pkg/driver/cds/mount.go) for one volume, one   *)
(* staging path and one target path on one node.                           *)
(*                                                                         *)
(* The server's only state is inProcessRequests, and only NodeStageVolume  *)
(* takes it; what else the handlers know they read from the file system    *)
(* and the mount table and use some steps later, the name of a device      *)
(* included: by then it may be the name of another volume's device.  Only  *)
(* the lookups of a device and of its size end with the context of a call. *)
(***************************************************************************)
EXTENDS Naturals, Sequences, FiniteSets

CONSTANTS
    Calls,       \* handlers that may be running at the same time
    Devs,        \* device names the volume may appear under
    Renaming,    \* an attached volume may have another name than the cloud gives it
    Nil,         \* "no device"
    Bare,        \* a directory of the node that is not a mount point
    Faults,      \* the kinds of faults the environment may produce
    MaxFaults,   \* bound on the number of faults in a behaviour
    Once         \* a bound, too: the lasting ones of them that happen at most once

FaultKinds == {"crash", "reboot", "error", "timeout"}

ASSUME ConstantsAssumption ==
    /\ Nil \notin Devs /\ Bare \notin Devs
    /\ Nil # Bare
    /\ Faults \subseteq FaultKinds
    /\ Once \subseteq Faults
    /\ MaxFaults \in Nat /\ Renaming \in BOOLEAN

VARIABLES
    dev,         \* the device of the attached volume, or Nil
    name,        \* what the cloud calls that device, in the publish context
    fs,          \* the volume's file system, or "raw" for a block volume
    staging,     \* the staging path: whether it exists, and what is mounted
    target,      \* the target path, the same
    lock,        \* the stage requests in inProcessRequests
    call,        \* call[c]: a running handler
    phase,       \* what the kubelet wants, or was told
    growth,      \* how far an expansion of the volume has come
    faults       \* the number of faults so far, and what of them lasts

vars == <<dev, name, fs, staging, target, lock, call, phase, growth, faults>>

-----------------------------------------------------------------------------
(* Data.                                                                   *)

\* stack: what is mounted at the path, the first mount first.
Path == [there : BOOLEAN, stack : Seq(Devs \cup {Bare})]

NoPath == [there |-> FALSE, stack |-> << >>]

\* src: the device the handler found.  A stage request is locked as a whole, and what
\* tells two of them apart is the name in the publish context, its key.  held: the
\* handler holds that lock.
Handler == [op   : {"idle", "stage", "unstage", "publish", "unpublish",
                    "expand_staged", "expand_published"},
            pc   : {"lock", "dev", "path", "check", "blkid", "mkfs", "mount",
                    "umount", "rmdir", "size", "resize", "OK", "Internal"},
            ctx  : BOOLEAN,
            key  : Devs \cup {Nil},
            src  : Devs \cup {Nil, Bare},
            held : BOOLEAN]

NoHandler == [op |-> "idle", pc |-> "OK", ctx |-> FALSE, key |-> Nil, src |-> Nil,
              held |-> FALSE]

Phases == {"idle", "staging", "staged", "publishing", "published",
           "unpublishing", "unstaging"}

\* "asked": the controller has expanded the volume and the kubelet is to expand its
\* file system; "seen": the device shows the new size; "told": NodeExpandVolume was
\* answered OK.
Growths == {"none", "asked", "seen", "told"}

\* What lasts: that a call timed out; that the volume was attached again while a mount
\* or a handler of an earlier attachment was left; that a bare directory was published.
Lasting == {"timeout", "leftover", "bare"}

Recorded(kind, happens) ==
    faults' = IF happens THEN [faults EXCEPT !.kinds = @ \cup {kind}] ELSE faults

Fault(kind) ==
    /\ kind \in Faults \ (Once \cap faults.kinds)
    /\ faults.n < MaxFaults
    /\ faults' = [n |-> faults.n + 1, kinds |-> faults.kinds \cup ({kind} \cap Lasting)]

\* Some handler has outlived its call.
Overlapped == "timeout" \in faults.kinds

\* ... and something of an earlier attachment has outlived it.
Outrun == "leftover" \in faults.kinds

\* ... and a bare directory has been published.
BareShown == "bare" \in faults.kinds

\* The volume is used as a block device: the driver makes no file system on it.
Block == fs = "raw"

\* GetDeviceNameFromMount: the first mount at the path, if any.
Mounted(p) == IF p.stack = << >> THEN Nil ELSE Head(p.stack)

\* What a process sees at the path, and what a bind mount of it mounts.
Top(p) == IF p.stack = << >> THEN Bare ELSE p.stack[Len(p.stack)]

\* What goes by the name d on the node: the volume, a device that is not the volume's
\* (the node's own disk, where a directory is not a mount point), or none.
Found(d) == IF d = Nil THEN {"none"}
            ELSE IF d = dev THEN {"volume"}
            ELSE {"none", "another"}

Push(p, x) == [p EXCEPT !.stack = Append(@, x)]
Pop(p) == [p EXCEPT !.stack = SubSeq(@, 1, Len(@) - 1)]

Init ==
    /\ dev = Nil /\ name = Nil
    /\ fs \in {"blank", "raw"}
    /\ staging = NoPath
    /\ target = NoPath
    /\ lock = {}
    /\ call = [c \in Calls |-> NoHandler]
    /\ phase = "idle"
    /\ growth = "none"
    /\ faults = [n |-> 0, kinds |-> {}]

At(c, op, pc) == call[c].op = op /\ call[c].pc = pc
Go(c, pc) == call' = [call EXCEPT ![c].pc = pc]

-----------------------------------------------------------------------------
(* The controller attaches and detaches the volume while no pod of the node *)
(* uses it; the kubelet makes one call at a time and repeats it until OK.   *)

\* Each time the volume may come under another name.
Attach ==
    /\ dev = Nil /\ phase = "idle"
    /\ dev' \in Devs /\ name' \in IF Renaming THEN Devs ELSE {dev'}
    /\ Recorded("leftover", \/ staging.stack # << >> \/ target.stack # << >>
                            \/ \E c \in Calls : call[c].op \in {"stage", "publish"})
    /\ UNCHANGED <<fs, staging, target, lock, call, phase, growth>>

Detach ==
    /\ dev # Nil /\ phase = "idle"
    /\ dev' = Nil /\ name' = Nil
    /\ UNCHANGED <<fs, staging, target, lock, call, phase, growth, faults>>

\* ControllerExpandVolume has made the volume larger ...
Grow ==
    /\ growth = "none"
    /\ growth' = "asked"
    /\ UNCHANGED <<dev, name, fs, staging, target, lock, call, phase, faults>>

\* ... and some time later its device on the node is.
Appear ==
    /\ growth = "asked" /\ dev # Nil
    /\ growth' = "seen"
    /\ UNCHANGED <<dev, name, fs, staging, target, lock, call, phase, faults>>

\* The phases in which the kubelet may make a call.
Before(op) == CASE op = "stage" -> {"idle", "staging"}
                [] op = "publish" -> {"staged", "publishing"}
                [] op = "unpublish" -> {"publishing", "published", "unpublishing"}
                [] op = "unstage" -> {"staging", "staged", "unstaging"}

During(op) == CASE op = "stage" -> "staging"
                [] op = "publish" -> "publishing"
                [] op = "unpublish" -> "unpublishing"
                [] op = "unstage" -> "unstaging"

Expansions == {"expand_staged", "expand_published"}

After(op) == CASE op \in Expansions -> phase
               [] op = "stage" -> "staged"
               [] op = "publish" -> "published"
               [] op = "unpublish" -> "staged"
               [] op = "unstage" -> "idle"

\* Where a handler begins once its arguments are checked: staging a block volume
\* is no work, publishing one begins with its device.
First(op) == CASE op = "stage" -> IF Block THEN "OK" ELSE "lock"
               [] op = "publish" -> IF Block THEN "dev" ELSE "path"
               [] OTHER -> "path"

\* Handlers are alike: a call is served by a free one, no matter which.
Free(c) == c = CHOOSE d \in Calls : call[d].op = "idle"

CallNode(c, op) ==
    /\ call[c].op = "idle" /\ Free(c)
    /\ \A d \in Calls : ~call[d].ctx
    /\ phase \in Before(op)
    /\ dev # Nil
    /\ phase' = During(op)
    /\ call' = [call EXCEPT ![c] = [NoHandler EXCEPT !.op = op, !.pc = First(op),
                          !.ctx = TRUE, !.key = IF op = "stage" THEN name ELSE Nil]]
    /\ UNCHANGED <<dev, name, fs, staging, target, lock, growth, faults>>

\* NodeExpandVolume is called with the path the volume is used at; for a block volume
\* nothing is done.
CallExpand(c, op) ==
    /\ call[c].op = "idle" /\ Free(c)
    /\ \A d \in Calls : ~call[d].ctx
    /\ growth \in {"asked", "seen"}
    /\ \/ op = "expand_staged" /\ phase = "staged"
       \/ op = "expand_published" /\ phase = "published"
    /\ call' = [call EXCEPT ![c] = [NoHandler EXCEPT !.op = op, !.ctx = TRUE,
                                       !.pc = IF Block THEN "OK" ELSE "check"]]
    /\ UNCHANGED <<dev, name, fs, staging, target, lock, phase, growth, faults>>

\* The deadline of a call passes: the handler runs on.
Timeout(c) ==
    /\ call[c].ctx
    /\ Fault("timeout")
    /\ call' = [call EXCEPT ![c].ctx = FALSE]
    /\ UNCHANGED <<dev, name, fs, staging, target, lock, phase, growth>>

\* What a caller that still waits learns from the answer.
Told(c) ==
    LET told == call[c].ctx /\ call[c].pc = "OK"
    IN  /\ phase' = IF told THEN After(call[c].op) ELSE phase
        /\ growth' = IF told /\ call[c].op \in Expansions THEN "told" ELSE growth

\* Mutant of Return: Unlock is missed when the request was not answered OK.
ReturnLocked(c) ==
    /\ call[c].op # "idle" /\ call[c].pc \in {"OK", "Internal"}
    /\ call' = [call EXCEPT ![c] = NoHandler]
    /\ lock' = IF call[c].held /\ call[c].pc = "OK" THEN lock \ {call[c].key} ELSE lock
    /\ Told(c)
    /\ UNCHANGED <<dev, name, fs, staging, target, faults>>

\* A handler returns, and gives back the lock it holds; a caller that still
\* waits is answered.
Return(c) ==
    /\ call[c].op # "idle" /\ call[c].pc \in {"OK", "Internal"}
    /\ call' = [call EXCEPT ![c] = NoHandler]
    /\ lock' = IF call[c].held THEN lock \ {call[c].key} ELSE lock
    /\ Told(c)
    /\ UNCHANGED <<dev, name, fs, staging, target, faults>>

\* A system call or a command fails without effect.
Fails(c) ==
    /\ call[c].op # "idle" /\ call[c].pc \notin {"lock", "OK", "Internal"}
    /\ Fault("error")
    /\ Go(c, "Internal")
    /\ UNCHANGED <<dev, name, fs, staging, target, lock, phase, growth>>

\* The driver process dies and is restarted; mounts stay.
Crash ==
    /\ Fault("crash")
    /\ call' = [c \in Calls |-> NoHandler]
    /\ lock' = {}
    /\ UNCHANGED <<dev, name, fs, staging, target, phase, growth>>

\* The node restarts: mounts are lost, paths stay, the volume may come back
\* under another name, and the kubelet stages again what it needs.
Reboot ==
    /\ Fault("reboot")
    /\ dev' \in IF dev = Nil THEN {Nil} ELSE Devs
    /\ call' = [c \in Calls |-> NoHandler]
    /\ lock' = {}
    /\ staging' = [staging EXCEPT !.stack = << >>]
    /\ target' = [target EXCEPT !.stack = << >>]
    /\ phase' = IF phase = "idle" THEN "idle" ELSE "staging"
    /\ UNCHANGED <<name, fs, growth>>

-----------------------------------------------------------------------------
(* NodeStageVolume.                                                        *)

\* Mutant of StageLock: the request is not locked.
StageNoLock(c) ==
    /\ At(c, "stage", "lock")
    /\ Go(c, "dev")
    /\ UNCHANGED <<dev, name, fs, staging, target, lock, phase, growth, faults>>

\* TryLock on the request.
StageLock(c) ==
    /\ At(c, "stage", "lock")
    /\ IF call[c].key \in lock
       THEN Go(c, "Internal") /\ UNCHANGED lock
       ELSE /\ call' = [call EXCEPT ![c].pc = "dev", ![c].held = TRUE]
            /\ lock' = lock \cup {call[c].key}
    /\ UNCHANGED <<dev, name, fs, staging, target, phase, growth, faults>>

\* GetDevPath, in NodeStageVolume and in nodePublicBlockVolume: a command that
\* ends with the context.
FindDevice(c) ==
    /\ call[c].pc = "dev"
    /\ IF dev = Nil \/ ~call[c].ctx
       THEN Go(c, "Internal")
       ELSE call' = [call EXCEPT ![c].pc = "path", ![c].src = dev]
    /\ UNCHANGED <<dev, name, fs, staging, target, lock, phase, growth, faults>>

\* Mutant of StagePath: a path that exists is taken for a staged volume.
StagePathDone(c) ==
    /\ At(c, "stage", "path")
    /\ Go(c, IF staging.there THEN "OK" ELSE "check")
    /\ staging' = [staging EXCEPT !.there = TRUE]
    /\ UNCHANGED <<dev, name, fs, target, lock, phase, growth, faults>>

\* PathExists and MkdirAll.
StagePath(c) ==
    /\ At(c, "stage", "path")
    /\ Go(c, "check")
    /\ staging' = [staging EXCEPT !.there = TRUE]
    /\ UNCHANGED <<dev, name, fs, target, lock, phase, growth, faults>>

\* GetDeviceNameFromMount: is the device mounted at the path already?
StageCheck(c) ==
    /\ At(c, "stage", "check")
    /\ Go(c, IF Mounted(staging) = call[c].src THEN "OK" ELSE "blkid")
    /\ UNCHANGED <<dev, name, fs, staging, target, lock, phase, growth, faults>>

\* A file system is made as large as the device.
Made == IF growth \in {"none", "asked"} THEN "made" ELSE "grown"

\* FormatAndMount looks for a file system on the device ...
StageBlkid(c) ==
    /\ At(c, "stage", "blkid")
    /\ \E found \in Found(call[c].src) :
          \/ found = "none" /\ Go(c, "Internal")
          \/ found = "volume" /\ Go(c, IF fs = "blank" THEN "mkfs" ELSE "mount")
          \/ found = "another" /\ \E pc \in {"mkfs", "mount"} : Go(c, pc)
    /\ UNCHANGED <<dev, name, fs, staging, target, lock, phase, growth, faults>>

\* ... makes one where it found none, whatever is there by now ...
StageMkfs(c) ==
    /\ At(c, "stage", "mkfs")
    /\ \E found \in Found(call[c].src) :
          /\ Go(c, IF found = "none" THEN "Internal" ELSE "mount")
          /\ fs' = IF found # "volume" THEN fs ELSE IF fs = "blank" THEN Made ELSE "lost"
    /\ UNCHANGED <<dev, name, staging, target, lock, phase, growth, faults>>

\* ... and mounts it, unless it is the topmost mount there already.
StageMount(c) ==
    /\ At(c, "stage", "mount")
    /\ \E found \in Found(call[c].src) :
          IF \/ found = "none" \/ (found = "volume" /\ fs = "blank")
             \/ ~staging.there \/ Top(staging) = call[c].src
          THEN Go(c, "Internal") /\ UNCHANGED staging
          ELSE Go(c, "OK") /\ staging' = Push(staging, call[c].src)
    /\ UNCHANGED <<dev, name, fs, target, lock, phase, growth, faults>>

-----------------------------------------------------------------------------
(* NodePublishVolume, of a mounted volume and of a block volume.           *)

\* Mutant of PublishPath: a path that exists is taken for a published volume.
PublishPathDone(c) ==
    /\ At(c, "publish", "path")
    /\ Go(c, IF target.there THEN "OK" ELSE "check")
    /\ target' = [target EXCEPT !.there = TRUE]
    /\ UNCHANGED <<dev, name, fs, staging, lock, phase, growth, faults>>

\* PathExists and MkdirAll, or MakeFile.
PublishPath(c) ==
    /\ At(c, "publish", "path")
    /\ Go(c, "check")
    /\ target' = [target EXCEPT !.there = TRUE]
    /\ UNCHANGED <<dev, name, fs, staging, lock, phase, growth, faults>>

\* GetDeviceNameFromMount: is anything mounted at the path?
PublishCheck(c) ==
    /\ At(c, "publish", "check")
    /\ Go(c, IF Mounted(target) # Nil THEN "OK" ELSE "mount")
    /\ UNCHANGED <<dev, name, fs, staging, target, lock, phase, growth, faults>>

\* Mount with "bind": of the staging path, or of the device.
PublishMount(c) ==
    LET source == IF Block THEN call[c].src ELSE Top(staging)
        fits == IF Block THEN Found(source) \ {"none"} # {} ELSE staging.there
        must == IF Block THEN "none" \notin Found(source) ELSE staging.there
    IN  /\ At(c, "publish", "mount")
        /\ \/ /\ target.there /\ fits
              /\ Go(c, "OK") /\ target' = Push(target, source)
              /\ Recorded("bare", source = Bare)
           \/ /\ ~(target.there /\ must)
              /\ Go(c, "Internal") /\ UNCHANGED <<target, faults>>
        /\ UNCHANGED <<dev, name, fs, staging, lock, phase, growth>>

-----------------------------------------------------------------------------
(* NodeUnstageVolume and NodeUnpublishVolume: the same steps, each at its   *)
(* path p.                                                                 *)

\* PathExists: where there is no path nothing is left to do.
UndoPath(c, p) ==
    /\ call[c].pc = "path"
    /\ Go(c, IF p.there THEN "check" ELSE "OK")
    /\ UNCHANGED p

\* Mutant of UndoCheck: a path that is not a mount point is taken for undone.
UndoCheckDone(c, p) ==
    /\ call[c].pc = "check"
    /\ Go(c, IF Mounted(p) = Nil THEN "OK" ELSE "umount")
    /\ UNCHANGED p

\* GetDeviceNameFromMount: is anything mounted at the path?
UndoCheck(c, p) ==
    /\ call[c].pc = "check"
    /\ Go(c, IF Mounted(p) = Nil THEN "rmdir" ELSE "umount")
    /\ UNCHANGED p

\* Mutant of UndoUmount: what is mounted stays.
UndoUmountNot(c, p) ==
    /\ call[c].pc = "umount"
    /\ Go(c, "rmdir")
    /\ UNCHANGED p

\* Unmount takes the topmost mount away.
UndoUmount(c, p) ==
    /\ call[c].pc = "umount"
    /\ IF p.stack = << >>
       THEN Go(c, "Internal") /\ UNCHANGED p
       ELSE Go(c, "rmdir") /\ p' = Pop(p)

\* RemovePath fails on a mount point, and on a path that has gone.
UndoRmdir(c, p) ==
    /\ call[c].pc = "rmdir"
    /\ IF p.there /\ p.stack = << >>
       THEN Go(c, "OK") /\ p' = NoPath
       ELSE Go(c, "Internal") /\ UNCHANGED p

Undo(c, p) == UndoPath(c, p) \/ UndoCheck(c, p) \/ UndoUmount(c, p) \/ UndoRmdir(c, p)

Unstage(c) ==
    /\ call[c].op = "unstage"
    /\ Undo(c, staging)
    /\ UNCHANGED <<dev, name, fs, target, lock, phase, growth, faults>>

Unpublish(c) ==
    /\ call[c].op = "unpublish"
    /\ Undo(c, target)
    /\ UNCHANGED <<dev, name, fs, staging, lock, phase, growth, faults>>

-----------------------------------------------------------------------------
(* NodeExpandVolume, at the path p.                                        *)

\* GetDeviceNameFromMount.
ExpandCheck(c, p) ==
    /\ call[c].pc = "check"
    /\ call' = [call EXCEPT ![c].pc = "size", ![c].src = Mounted(p)]
    /\ UNCHANGED fs

\* Mutant of ExpandSize: the size of the device is not compared with the request.
ExpandSizeAny(c) ==
    /\ call[c].pc = "size"
    /\ \E found \in Found(call[c].src) :
          Go(c, IF call[c].ctx /\ found # "none" THEN "resize" ELSE "Internal")
    /\ UNCHANGED fs

\* Mutant of ExpandSize: the device must be larger than the request requires.
ExpandSizeLarger(c) ==
    /\ call[c].pc = "size"
    /\ \E found \in Found(call[c].src) :
          Go(c, IF /\ call[c].ctx /\ found # "none"
                   /\ found = "volume" => growth \notin {"asked", "seen"}
                THEN "resize" ELSE "Internal")
    /\ UNCHANGED fs

\* GetDeviceSize, a command that ends with the context; a device smaller than the
\* request requires is out of range.  That the device is the volume's is not checked.
ExpandSize(c) ==
    /\ call[c].pc = "size"
    /\ \E found \in Found(call[c].src) :
          Go(c, IF /\ call[c].ctx /\ found # "none"
                   /\ found = "volume" => growth # "asked"
                THEN "resize" ELSE "Internal")
    /\ UNCHANGED fs

\* ResizeFS: the file system on the device becomes as large as the device.
ExpandResize(c) ==
    /\ call[c].pc = "resize"
    /\ \E found \in Found(call[c].src) :
          /\ Go(c, IF found = "none" THEN "Internal" ELSE "OK")
          /\ fs' = IF found = "volume" /\ fs = "made" THEN Made ELSE fs

Expand(c) ==
    /\ call[c].op \in Expansions
    /\ \/ ExpandCheck(c, IF call[c].op = "expand_staged" THEN staging ELSE target)
       \/ ExpandSize(c)
       \/ ExpandResize(c)
    /\ UNCHANGED <<dev, name, staging, target, lock, phase, growth, faults>>

-----------------------------------------------------------------------------
Ops == {"stage", "publish", "unpublish", "unstage"}

HandlerStep(c) ==
    \/ StageLock(c) \/ FindDevice(c) \/ StagePath(c) \/ StageCheck(c)
    \/ StageBlkid(c) \/ StageMkfs(c) \/ StageMount(c)
    \/ PublishPath(c) \/ PublishCheck(c) \/ PublishMount(c)
    \/ Unstage(c)
    \/ Unpublish(c)
    \/ Expand(c)
    \/ Return(c)

Next ==
    \/ Attach
    \/ Detach
    \/ Grow
    \/ Appear
    \/ \E c \in Calls : \/ \E op \in Ops : CallNode(c, op)
                        \/ \E op \in Expansions : CallExpand(c, op)
                        \/ HandlerStep(c)
                        \/ Fails(c)
                        \/ Timeout(c)
    \/ Crash
    \/ Reboot

Spec == Init /\ [][Next]_vars

\* The process schedules its handlers, and the kubelet repeats a call until it is
\* told OK.
Fairness ==
    /\ \A c \in Calls : WF_vars(HandlerStep(c))
    /\ \A op \in Ops :
          WF_vars(phase = During(op) /\ \E c \in Calls : CallNode(c, op))
    /\ WF_vars(\E c \in Calls, op \in Expansions : CallExpand(c, op))
    /\ WF_vars(Appear)

FairSpec == Spec /\ Fairness

-----------------------------------------------------------------------------
(* Properties.                                                             *)

\* Every variable keeps its type, and a request is locked by exactly the one handler
\* that took its lock.
TypeOK ==
    /\ dev \in Devs \cup {Nil} /\ name \in Devs \cup {Nil}
    /\ fs \in {"raw", "blank", "made", "grown", "lost"}
    /\ staging.there \in BOOLEAN /\ target.there \in BOOLEAN
    /\ \A i \in DOMAIN staging.stack : staging.stack[i] \in Devs
    /\ \A i \in DOMAIN target.stack : target.stack[i] \in Devs \cup {Bare}
    /\ call \in [Calls -> Handler]
    /\ phase \in Phases
    /\ growth \in Growths
    /\ faults \in [n : 0 .. MaxFaults, kinds : SUBSET Lasting]
    /\ lock = {call[c].key : c \in {d \in Calls : call[d].held}}
    /\ \A c, d \in Calls : call[c].held /\ call[d].held /\ call[c].key = call[d].key
                             => c = d

\* The file system is made once: no call, retry, restart or handler left over formats a
\* volume that has one already, unless the volume was attached again while a handler or
\* a mount of an earlier attachment was left.
NeverReformatted == fs = "lost" => Outrun

\* From the OK of NodeStageVolume until NodeUnstageVolume is called, the staging
\* path shows the volume that is attached, unless a handler has outlived its call.
StagedIsMounted ==
    ~Block /\ phase \in {"staged", "publishing", "published", "unpublishing"}
        => Top(staging) = dev \/ Overlapped

\* From the OK of NodePublishVolume until NodeUnpublishVolume is called, the
\* target path shows the volume, never a directory of the node, unless a handler
\* has outlived its call.
PublishedIsVolume ==
    phase = "published" => (target.there /\ Top(target) = dev) \/ Overlapped

\* When nothing is staged, and the volume may be detached any moment, nothing is
\* left of it: no mount, no path, no handler that would mount it again.
UnstagedIsClean ==
    phase = "idle" => \/ /\ staging = NoPath
                         /\ target.stack = << >>
                         /\ \A c \in Calls : call[c].op \notin {"stage", "publish"}
                      \/ Overlapped

\* A stage that the kubelet keeps asking for ends with OK, unless a handler that
\* outlived its call has mounted beneath it.
StageSettles == phase = "staging" ~> phase # "staging" \/ Overlapped

\* An unpublish or an unstage that the kubelet keeps asking for ends with OK, also
\* where overlapping calls have mounted the volume twice.
UndoSettles ==
    \A undo \in {"unpublishing", "unstaging"} : phase = undo ~> phase # undo

\* Once NodeExpandVolume was answered OK the volume's file system has the size asked
\* for, however late the device shows it and whatever was restarted on the way, unless
\* the device it found by the path may have been another: one mounted for an earlier
\* attachment, or a bare directory's.
ExpandedIsGrown ==
    growth = "told" /\ ~Block => fs = "grown" \/ Outrun \/ BareShown

\* An expansion of a volume in use ends with OK while the volume stays in use, unless
\* a handler that outlived its call has mounted beneath it.
ExpandSettles ==
    phase = "published" /\ growth \in {"asked", "seen"}
        ~> growth = "told" \/ phase # "published" \/ Overlapped
=============================================================================
