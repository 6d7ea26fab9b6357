----------------------------- MODULE CdsAttach -----------------------------
(***************************************************************************)
(* ControllerPublishVolume, ControllerUnpublishVolume and                  *)
(* ControllerExpandVolume of the CDS controller server                     *)
(* (pkg/driver/cds/controller.go) for one volume.                          *)
(*                                                                         *)
(* Publish and unpublish each run in a singleflight group keyed by the     *)
(* volume id alone, whatever node a call names; expand runs once per call. *)
(* Every handler reads the volume first and sends the cloud its request    *)
(* later, on what it read.  The cloud attaches, detaches and scales        *)
(* asynchronously and refuses a request that does not fit the volume's     *)
(* status at that moment.                                                  *)
(***************************************************************************)
EXTENDS Naturals, FiniteSets

CONSTANTS
    Nodes,       \* instances a volume may be attached to
    Calls,       \* RPCs the csi-attacher sidecar may have outstanding
    Resizers,    \* RPCs the csi-resizer sidecar may have outstanding
    MaxSize,     \* bound on the volume's size in GB, which starts at 1
    Nil,         \* "no node"
    Online,      \* options.EnableOnlineExpansion
    Exclusive,   \* the orchestrator uses the volume at one node at a time
    Faults,      \* the kinds of faults the environment may produce
    MaxFaults    \* bound on the number of faults in a behaviour

FaultKinds == {"crash", "give_up", "api_error", "lost_reply", "cloud_fails",
               "node_gone", "volume_gone", "late_listing"}

ASSUME ConstantsAssumption ==
    /\ Nil \notin Nodes
    /\ MaxSize \in Nat \ {0}
    /\ Online \in BOOLEAN
    /\ Exclusive \in BOOLEAN
    /\ Faults \subseteq FaultKinds
    /\ MaxFaults \in Nat

VARIABLES
    vol,         \* the volume in the cloud
    gone,        \* instances that no longer exist
    pub,         \* the singleflight execution of controllerPublishVolume
    unpub,       \* the singleflight execution of controllerUnpublishVolume
    call,        \* call[c]: an outstanding RPC of the attacher
    expand,      \* expand[e]: an outstanding RPC of the resizer
    co,          \* co[n]: what the orchestrator wants, or was told, of node n
    grown,       \* the largest size ControllerExpandVolume was answered OK for
    faults       \* number of faults so far

vars == <<vol, gone, pub, unpub, call, expand, co, grown, faults>>

-----------------------------------------------------------------------------
(* Data.                                                                   *)

Codes == {"none", "OK", "Aborted", "Internal", "NotFound", "Unavailable",
          "FailedPrecondition"}
Statuses == {"Available", "Attaching", "InUse", "Detaching", "Scaling", "Gone"}

\* goal is the size being scaled to; before is the status scaling returns to.
Volume == [status : Statuses, node : Nodes \cup {Nil}, size : 1 .. MaxSize,
           goal : 0 .. MaxSize, before : {"none", "Available", "InUse"}]

Publishing == [pc   : {"idle", "node", "get", "attach", "ret"},
               node : Nodes \cup {Nil},
               res  : Codes]

\* at and status are the attachment and the status of the volume that was read.
Unpublishing == [pc     : {"idle", "get", "node", "detach", "ret"},
                 node   : Nodes \cup {Nil},
                 at     : Nodes \cup {Nil},
                 status : Statuses \cup {"none"},
                 res    : Codes]

Call == [op : {"idle", "publish", "unpublish"}, node : Nodes \cup {Nil}]

Expansion == [pc : {"idle", "get", "resize"}, size : 0 .. MaxSize]

NoPub == [pc |-> "idle", node |-> Nil, res |-> "none"]
NoUnpub == [pc |-> "idle", node |-> Nil, at |-> Nil, status |-> "none",
            res |-> "none"]
UnpubOf(n) == [pc |-> "get", node |-> n, at |-> Nil, status |-> "none",
                   res |-> "none"]
NoCall == [op |-> "idle", node |-> Nil]
NoExpansion == [pc |-> "idle", size |-> 0]

\* The node in volume.Detail().Attachments.  Where listings may be late, an
\* attachment is listed only when it is complete.
ListedNode == IF vol.status = "Attaching" /\ "late_listing" \in Faults
              THEN Nil ELSE vol.node

IsAttachedTo(n) == vol.node = n /\ (\/ vol.status = "InUse"
                                    \/ vol.status = "Scaling" /\ vol.before = "InUse")

Fault(kind) == kind \in Faults /\ faults < MaxFaults /\ faults' = faults + 1

Init ==
    /\ vol = [status |-> "Available", node |-> Nil, size |-> 1, goal |-> 0,
              before |-> "none"]
    /\ gone = {}
    /\ pub = NoPub
    /\ unpub = NoUnpub
    /\ call = [c \in Calls |-> NoCall]
    /\ expand = [e \in Resizers |-> NoExpansion]
    /\ co = [n \in Nodes |-> "none"]
    /\ grown = 0
    /\ faults = 0

-----------------------------------------------------------------------------
(* The orchestrator.  It wants a node to have the volume or not to, and     *)
(* calls until it is told OK; it gives a node up only once no publish call  *)
(* for it is outstanding.                                                  *)

CallPublish(c, n) ==
    /\ call[c].op = "idle"
    /\ co[n] \in {"none", "publishing"}
    /\ Exclusive => \A m \in Nodes \ {n} : co[m] = "none"
    /\ call' = [call EXCEPT ![c] = [op |-> "publish", node |-> n]]
    /\ co' = [co EXCEPT ![n] = "publishing"]
    /\ pub' = IF pub.pc = "idle" THEN [pc |-> "node", node |-> n, res |-> "none"]
                                 ELSE pub
    /\ UNCHANGED <<vol, gone, unpub, expand, grown, faults>>

CallUnpublish(c, n) ==
    /\ call[c].op = "idle"
    /\ co[n] # "none"
    /\ \A d \in Calls : ~(call[d].op = "publish" /\ call[d].node = n)
    /\ call' = [call EXCEPT ![c] = [op |-> "unpublish", node |-> n]]
    /\ co' = [co EXCEPT ![n] = "unpublishing"]
    /\ unpub' = IF unpub.pc = "idle" THEN UnpubOf(n) ELSE unpub
    /\ UNCHANGED <<vol, gone, pub, expand, grown, faults>>

CallExpand(e, s) ==
    /\ expand[e].pc = "idle"
    /\ expand' = [expand EXCEPT ![e] = [pc |-> "get", size |-> s]]
    /\ UNCHANGED <<vol, gone, pub, unpub, call, co, grown, faults>>

\* The caller goes away (deadline, lost connection): a flight goes on.
GiveUp(c) ==
    /\ call[c].op # "idle"
    /\ Fault("give_up")
    /\ call' = [call EXCEPT ![c] = NoCall]
    /\ UNCHANGED <<vol, gone, pub, unpub, expand, co, grown>>

\* A flight ends: every call of that operation that waits is answered with the
\* flight's result, the call for another node too.
Answer(op, res, from, to) ==
    LET waiting == {c \in Calls : call[c].op = op}
        told == {n \in Nodes : \E c \in waiting : call[c].node = n}
    IN  /\ call' = [c \in Calls |-> IF c \in waiting THEN NoCall ELSE call[c]]
        /\ co' = [n \in Nodes |-> IF res = "OK" /\ n \in told /\ co[n] = from
                                  THEN to ELSE co[n]]

-----------------------------------------------------------------------------
(* controllerPublishVolume.                                                *)

PubReturn(code) == pub' = [pc |-> "ret", node |-> pub.node, res |-> code]

\* GetNodeByID.
PubNode ==
    /\ pub.pc = "node"
    /\ IF pub.node \in gone THEN PubReturn("NotFound")
                            ELSE pub' = [pub EXCEPT !.pc = "get"]
    /\ UNCHANGED <<vol, gone, unpub, call, expand, co, grown, faults>>

\* Mutant of PubGet: a volume that is being attached counts as attached.
PubGetHasty ==
    /\ pub.pc = "get"
    /\ CASE vol.status \in {"InUse", "Attaching"} /\ ListedNode = pub.node ->
                PubReturn("OK")
         [] vol.status \in {"InUse", "Attaching"} /\ ListedNode # pub.node ->
                PubReturn("FailedPrecondition")
         [] vol.status = "Available" -> pub' = [pub EXCEPT !.pc = "attach"]
         [] OTHER -> PubReturn("Unavailable")
    /\ UNCHANGED <<vol, gone, unpub, call, expand, co, grown, faults>>

\* Mutant of PubGet: an attached volume is an error, at the same node too.
PubGetOnce ==
    /\ pub.pc = "get"
    /\ CASE vol.status = "InUse" -> PubReturn("FailedPrecondition")
         [] vol.status = "Attaching" -> PubReturn("Aborted")
         [] vol.status = "Available" -> pub' = [pub EXCEPT !.pc = "attach"]
         [] OTHER -> PubReturn("Unavailable")
    /\ UNCHANGED <<vol, gone, unpub, call, expand, co, grown, faults>>

\* GetVolumeByID, and all that is decided on the volume it returned.
PubGet ==
    /\ pub.pc = "get"
    /\ CASE vol.status = "InUse" /\ ListedNode = pub.node -> PubReturn("OK")
         [] vol.status = "InUse" /\ ListedNode # pub.node ->
                PubReturn("FailedPrecondition")
         [] vol.status = "Attaching" -> PubReturn("Aborted")
         [] vol.status = "Available" -> pub' = [pub EXCEPT !.pc = "attach"]
         [] vol.status = "Gone" -> PubReturn("NotFound")
         [] OTHER -> PubReturn("Unavailable")
    /\ UNCHANGED <<vol, gone, unpub, call, expand, co, grown, faults>>

\* The volume changes its status and its place.
Move(status, node) ==
    vol' = [status |-> status, node |-> node, size |-> vol.size,
            goal |-> vol.goal, before |-> vol.before]

\* What the cloud does with an attach request.
CanAttach(n) == vol.status = "Available" /\ n \notin gone

CloudAttaches(n) == CanAttach(n) /\ Move("Attaching", n)

\* volume.Attach; attaching is asynchronous, so even success is Aborted.
PubAttach ==
    /\ pub.pc = "attach"
    /\ \/ CloudAttaches(pub.node) /\ PubReturn("Aborted")
       \/ ~CanAttach(pub.node) /\ UNCHANGED vol /\ PubReturn("Internal")
    /\ UNCHANGED <<gone, unpub, call, expand, co, grown, faults>>

\* A request fails, without effect or (its reply is lost) with it.
PubFails ==
    /\ \/ /\ pub.pc \in {"node", "get", "attach"}
          /\ Fault("api_error")
          /\ UNCHANGED vol
       \/ /\ pub.pc = "attach"
          /\ Fault("lost_reply")
          /\ CloudAttaches(pub.node)
    /\ PubReturn("Internal")
    /\ UNCHANGED <<gone, unpub, call, expand, co, grown>>

\* retryOnAborted: Aborted is tried again until the deadline.
PubRetry ==
    /\ pub.pc = "ret"
    /\ pub.res = "Aborted"
    /\ pub' = [pc |-> "node", node |-> pub.node, res |-> "none"]
    /\ UNCHANGED <<vol, gone, unpub, call, expand, co, grown, faults>>

PubFinish ==
    /\ pub.pc = "ret"
    /\ pub' = NoPub
    /\ Answer("publish", pub.res, "publishing", "published")
    /\ UNCHANGED <<vol, gone, unpub, expand, grown, faults>>

-----------------------------------------------------------------------------
(* controllerUnpublishVolume.                                              *)

UnpubReturn(code) ==
    unpub' = [pc |-> "ret", node |-> unpub.node, at |-> unpub.at,
              status |-> unpub.status, res |-> code]

\* GetVolumeByID: a volume that is not found counts as detached.
UnpubGet ==
    /\ unpub.pc = "get"
    /\ IF vol.status = "Gone"
       THEN UnpubReturn("OK")
       ELSE unpub' = [pc |-> "node", node |-> unpub.node, at |-> ListedNode,
                      status |-> vol.status, res |-> "none"]
    /\ UNCHANGED <<vol, gone, pub, call, expand, co, grown, faults>>

\* Mutant of UnpubNode: the volume is detached from wherever it is.
UnpubNodeAnywhere ==
    /\ unpub.pc = "node"
    /\ IF unpub.node \in gone \/ unpub.at = Nil
       THEN UnpubReturn("OK")
       ELSE IF unpub.status = "Detaching"
       THEN UnpubReturn("Aborted")
       ELSE unpub' = [unpub EXCEPT !.pc = "detach", !.node = unpub.at]
    /\ UNCHANGED <<vol, gone, pub, call, expand, co, grown, faults>>

\* Mutant of UnpubNode: a volume that is detached already is detached again.
UnpubNodeAgain ==
    /\ unpub.pc = "node"
    /\ IF unpub.node \in gone
       THEN UnpubReturn("OK")
       ELSE IF unpub.status = "Detaching"
       THEN UnpubReturn("Aborted")
       ELSE unpub' = [unpub EXCEPT !.pc = "detach"]
    /\ UNCHANGED <<vol, gone, pub, call, expand, co, grown, faults>>

\* GetNodeByID, then what is decided on the volume read before it.
UnpubNode ==
    /\ unpub.pc = "node"
    /\ IF unpub.node \in gone \/ unpub.at # unpub.node
       THEN UnpubReturn("OK")
       ELSE IF unpub.status = "Detaching"
       THEN UnpubReturn("Aborted")
       ELSE unpub' = [unpub EXCEPT !.pc = "detach"]
    /\ UNCHANGED <<vol, gone, pub, call, expand, co, grown, faults>>

\* What the cloud does with a detach request.
CanDetach(n) == vol.status = "InUse" /\ vol.node = n

CloudDetaches(n) == CanDetach(n) /\ Move("Detaching", n)

\* Mutant of UnpubDetach: the answer does not wait for the detaching.
UnpubDetachHasty ==
    /\ unpub.pc = "detach"
    /\ \/ CloudDetaches(unpub.node) /\ UnpubReturn("OK")
       \/ ~CanDetach(unpub.node) /\ UNCHANGED vol /\ UnpubReturn("Internal")
    /\ UNCHANGED <<gone, pub, call, expand, co, grown, faults>>

\* volume.Detach; detaching is asynchronous too.
UnpubDetach ==
    /\ unpub.pc = "detach"
    /\ \/ CloudDetaches(unpub.node) /\ UnpubReturn("Aborted")
       \/ ~CanDetach(unpub.node) /\ UNCHANGED vol /\ UnpubReturn("Internal")
    /\ UNCHANGED <<gone, pub, call, expand, co, grown, faults>>

UnpubFails ==
    /\ \/ /\ unpub.pc \in {"get", "node", "detach"}
          /\ Fault("api_error")
          /\ UNCHANGED vol
       \/ /\ unpub.pc = "detach"
          /\ Fault("lost_reply")
          /\ CloudDetaches(unpub.node)
    /\ UnpubReturn("Internal")
    /\ UNCHANGED <<gone, pub, call, expand, co, grown>>

UnpubRetry ==
    /\ unpub.pc = "ret"
    /\ unpub.res = "Aborted"
    /\ unpub' = UnpubOf(unpub.node)
    /\ UNCHANGED <<vol, gone, pub, call, expand, co, grown, faults>>

UnpubFinish ==
    /\ unpub.pc = "ret"
    /\ unpub' = NoUnpub
    /\ Answer("unpublish", unpub.res, "unpublishing", "none")
    /\ UNCHANGED <<vol, gone, pub, expand, grown, faults>>

-----------------------------------------------------------------------------
(* ControllerExpandVolume, once per call.                                  *)

ExpandReturn(e) == expand' = [expand EXCEPT ![e] = NoExpansion]

\* GetVolumeByID and the checks on what it returned: gone, scaling already, large
\* enough already (the only OK), or not in a status to be resized.
ExpandGet(e) ==
    LET s == expand[e].size
        canResize == vol.status = "Available" \/ (Online /\ vol.status = "InUse")
        enough == vol.status \notin {"Gone", "Scaling"} /\ vol.size >= s
    IN  /\ expand[e].pc = "get"
        /\ IF canResize /\ ~enough
           THEN expand' = [expand EXCEPT ![e].pc = "resize"]
           ELSE ExpandReturn(e)
        /\ grown' = IF enough /\ s > grown THEN s ELSE grown
        /\ UNCHANGED <<vol, gone, pub, unpub, call, co, faults>>

\* What the cloud does with a resize request; it shrinks no volume.
CanScale(s) == vol.status \in {"Available", "InUse"} /\ s > vol.size

CloudScales(s) ==
    /\ CanScale(s)
    /\ vol' = [status |-> "Scaling", node |-> vol.node, size |-> vol.size,
               goal |-> s, before |-> vol.status]

\* Mutant of ExpandResize: the answer does not wait for the scaling.
ExpandResizeHasty(e) ==
    LET s == expand[e].size
    IN  /\ expand[e].pc = "resize"
        /\ \/ CloudScales(s) /\ grown' = IF s > grown THEN s ELSE grown
           \/ ~CanScale(s) /\ UNCHANGED <<vol, grown>>
        /\ ExpandReturn(e)
        /\ UNCHANGED <<gone, pub, unpub, call, co, faults>>

\* volume.Resize: Aborted when accepted, Internal when not, and not retried.
ExpandResize(e) ==
    /\ expand[e].pc = "resize"
    /\ CloudScales(expand[e].size) \/ (~CanScale(expand[e].size) /\ UNCHANGED vol)
    /\ ExpandReturn(e)
    /\ UNCHANGED <<gone, pub, unpub, call, co, grown, faults>>

ExpandFails(e) ==
    /\ expand[e].pc \in {"get", "resize"}
    /\ \/ Fault("api_error") /\ UNCHANGED vol
       \/ /\ expand[e].pc = "resize"
          /\ Fault("lost_reply")
          /\ CloudScales(expand[e].size)
    /\ ExpandReturn(e)
    /\ UNCHANGED <<gone, pub, unpub, call, co, grown>>

-----------------------------------------------------------------------------
(* The cloud, and the death of the controller process.                     *)

\* Scaling ends with this size.
Scaled(size) ==
    vol' = [status |-> vol.before, node |-> vol.node, size |-> size,
            goal |-> 0, before |-> "none"]

\* What the cloud has begun it completes.
CloudDone ==
    /\ \/ vol.status = "Attaching" /\ Move("InUse", vol.node)
       \/ vol.status = "Detaching" /\ Move("Available", Nil)
       \/ vol.status = "Scaling" /\ Scaled(vol.goal)
    /\ UNCHANGED <<gone, pub, unpub, call, expand, co, grown, faults>>

\* What the cloud has begun fails and is rolled back.
CloudFails ==
    /\ Fault("cloud_fails")
    /\ \/ vol.status = "Attaching" /\ Move("Available", Nil)
       \/ vol.status = "Detaching" /\ Move("InUse", vol.node)
       \/ vol.status = "Scaling" /\ Scaled(vol.size)
    /\ UNCHANGED <<gone, pub, unpub, call, expand, co, grown>>

\* An instance is deleted: the cloud detaches the volume with it.
NodeGone(n) ==
    /\ n \notin gone
    /\ Fault("node_gone")
    /\ gone' = gone \cup {n}
    /\ \/ vol.node # n /\ UNCHANGED vol
       \/ vol.node = n /\ vol.status # "Scaling" /\ Move("Available", Nil)
       \/ /\ vol.node = n /\ vol.status = "Scaling"
          /\ vol' = [status |-> "Scaling", node |-> Nil, size |-> vol.size,
                     goal |-> vol.goal, before |-> "Available"]
    /\ UNCHANGED <<pub, unpub, call, expand, co, grown>>

\* A detached volume is deleted behind the driver's back.
VolumeGone ==
    /\ vol.status = "Available"
    /\ Fault("volume_gone")
    /\ Move("Gone", Nil)
    /\ UNCHANGED <<gone, pub, unpub, call, expand, co, grown>>

\* The process dies and is restarted: flights and calls are gone.
Crash ==
    /\ Fault("crash")
    /\ pub' = NoPub
    /\ unpub' = NoUnpub
    /\ call' = [c \in Calls |-> NoCall]
    /\ expand' = [e \in Resizers |-> NoExpansion]
    /\ UNCHANGED <<vol, gone, co, grown>>

-----------------------------------------------------------------------------
Publish == PubNode \/ PubGet \/ PubAttach \/ PubFails \/ PubRetry \/ PubFinish

Unpublish == \/ UnpubGet \/ UnpubNode \/ UnpubDetach \/ UnpubFails
             \/ UnpubRetry \/ UnpubFinish

Expand(e) == ExpandGet(e) \/ ExpandResize(e) \/ ExpandFails(e)

Orchestrator ==
    \/ \E c \in Calls, n \in Nodes : CallPublish(c, n) \/ CallUnpublish(c, n)
    \/ \E e \in Resizers, s \in 1 .. MaxSize : CallExpand(e, s)
    \/ \E c \in Calls : GiveUp(c)

Next ==
    \/ Orchestrator
    \/ Publish
    \/ Unpublish
    \/ \E e \in Resizers : Expand(e)
    \/ CloudDone
    \/ CloudFails
    \/ \E n \in Nodes : NodeGone(n)
    \/ VolumeGone
    \/ Crash

Spec == Init /\ [][Next]_vars

\* The process schedules its handlers, the cloud completes what it has begun,
\* and the attacher repeats a call until it is told OK.
Fairness ==
    /\ WF_vars(Publish)
    /\ WF_vars(Unpublish)
    /\ \A e \in Resizers : WF_vars(Expand(e))
    /\ WF_vars(CloudDone)
    /\ \A n \in Nodes :
          /\ WF_vars(co[n] = "publishing" /\ \E c \in Calls : CallPublish(c, n))
          /\ WF_vars(co[n] = "unpublishing" /\ \E c \in Calls : CallUnpublish(c, n))

FairSpec == Spec /\ Fairness

-----------------------------------------------------------------------------
(* Properties.                                                             *)

\* Every variable keeps its type, and the volume's record makes sense: it has a
\* node unless it is available, and a goal above its size while it scales.
TypeOK ==
    /\ vol \in Volume
    /\ gone \subseteq Nodes
    /\ pub \in Publishing
    /\ unpub \in Unpublishing
    /\ call \in [Calls -> Call]
    /\ expand \in [Resizers -> Expansion]
    /\ co \in [Nodes -> {"none", "publishing", "published", "unpublishing"}]
    /\ grown \in 0 .. MaxSize
    /\ faults \in 0 .. MaxFaults
    /\ vol.status \in {"Attaching", "InUse", "Detaching"} => vol.node # Nil
    /\ vol.status = "Scaling" => vol.goal > vol.size

\* While the orchestrator holds an OK of ControllerPublishVolume for a node, the
\* volume is attached to that node: what another call, a retry, a restart or a
\* failed request does to it never takes it away.
PublishedIsAttached ==
    \A n \in Nodes : co[n] = "published" /\ n \notin gone => IsAttachedTo(n)

\* When ControllerUnpublishVolume was answered OK for a node, and until the next
\* publish, the volume is not attached to it and nothing still under way is
\* going to attach it.
UnpublishedIsDetached ==
    \A n \in Nodes : co[n] = "none" => vol.node # n /\ pub.node # n

\* Detaching begins only at a node that the orchestrator is taking the volume
\* from, although Detach is sent on a volume read earlier, by a flight that may
\* answer the calls for another node.
DetachingIsWanted ==
    [][vol'.status = "Detaching" /\ vol.status # "Detaching"
         => co[vol.node] = "unpublishing"]_vars

\* A size that ControllerExpandVolume was answered OK for stays: no request
\* computed from an older size undoes it.
ExpandedIsLarge == grown <= vol.size

\* A publish that the orchestrator keeps asking for ends: the volume is attached
\* to the node, unless it changes its mind or the node or the volume goes.
PublishSettles ==
    \A n \in Nodes :
        co[n] = "publishing" ~> \/ co[n] # "publishing"
                               \/ n \in gone
                               \/ vol.status = "Gone"

\* An unpublish that the orchestrator keeps asking for ends with OK.
UnpublishSettles ==
    \A n \in Nodes : co[n] = "unpublishing" ~> co[n] = "none"

-----------------------------------------------------------------------------
(* The abstract specification of attaching, and what implements it.        *)

Seat == INSTANCE VolumeSeat WITH
    seat <- vol.node,
    moving <- vol.node # Nil /\ ~IsAttachedTo(vol.node),
    claim <- co,
    lost <- gone

\* Where the volume is used at one node at a time, all that flights, retries, lost
\* replies and restarts do is a behaviour of VolumeSeat.
ImplementsSeat == Seat!Spec
=============================================================================
