---------------------------- MODULE DriverStart ----------------------------
(***************************************************************************)
(* How a driver process comes up: the flags (cmd/options.go, cmd/main.go), *)
(* the cluster id and the place of the node (driver/cds/driver.go,         *)
(* driver/bos/driver.go, driver/common/topology.go, cloud/metadata.go) and *)
(* the gRPC server (driver/common/server.go).                              *)
(*                                                                         *)
(* All of it is read once.  Whatever fails ends the process, and the       *)
(* kubelet starts another one; what does not fail is kept and told to the  *)
(* kubelet until the process dies.  Meanwhile the meta service and the API *)
(* server come and go, and the node object is still being filled in.       *)
(***************************************************************************)
EXTENDS FiniteSets, Naturals

CONSTANTS
    Deployments,  \* the flags and environments that are tried
    Faults,       \* the kinds of faults the environment may produce
    MaxFaults     \* bound on the number of faults; each kind happens once

FaultKinds == {"meta_down", "meta_empty", "meta_page", "api_down", "foreign",
               "no_id", "no_zone", "no_cluster", "killed"}

\* endpoints: the endpoints that are given.  name: the variable NODE_NAME.  A
\* string that is not given, or empty, is "none".
Deployment ==
    [driver    : {"cds", "bos", "other"},
     mode      : {"controller", "node", "all", "other"},
     auth      : {"key", "gateway", "other"},
     topology  : {"meta", "k8s", "auto", "other"},
     region    : {"none", "own"},
     endpoints : SUBSET {"bcc", "cds", "bos"},
     cluster   : {"none", "own"},
     name      : {"none", "own"}]

ASSUME ConstantsAssumption ==
    /\ Deployments \subseteq Deployment
    /\ Faults \subseteq FaultKinds
    /\ MaxFaults \in Nat

VARIABLES
    flags,       \* the deployment; it never changes
    node,        \* the node object in the API server, as far as it is read
    pc,          \* what the process does next
    options,     \* common.DriverOptions, as far as it is read
    socket,      \* whether a file is at the path of the unix socket
    told,        \* what NodeGetInfo last answered, or "untold" before the first answer
    faults       \* the kinds of faults so far

vars == <<flags, node, pc, options, socket, told, faults>>

-----------------------------------------------------------------------------
(* Data.  Of an id or a zone it matters whether it is the node's "own",     *)
(* "none" (the empty string), or something else: an error page.            *)

\* Node.Spec.ProviderID, and the labels zone and cluster-id.  A providerID is
\* "empty" if there is nothing behind its prefix, "foreign" if the prefix is not
\* the one of this cloud.
Fields == {"provider", "zone", "cluster"}

Node == [Fields -> {"unset", "empty", "foreign", "own"}]

Options == [NodeID    : {"none", "own", "page"},
            Zone      : {"none", "own", "page"},
            ClusterID : {"none", "own"}]

NoOptions == [NodeID |-> "none", Zone |-> "none", ClusterID |-> "none"]

Untold == [NodeID |-> "untold", Zone |-> "untold"]

Answer == [NodeID : {"none", "own", "page"}, Zone : {"none", "own", "page"}]

Steps == {"down", "start", "cluster", "node", "id", "zone", "k8s", "socket",
          "listen", "serve"}

Fault(kind) ==
    /\ kind \in Faults \ faults
    /\ Cardinality(faults) < MaxFaults
    /\ faults' = faults \cup {kind}

NoFault == UNCHANGED faults

Init ==
    /\ flags \in Deployments
    /\ node = [field \in Fields |-> "unset"]
    /\ pc = "down"
    /\ options = NoOptions
    /\ socket = "absent"
    /\ told = Untold
    /\ faults = {}

-----------------------------------------------------------------------------
(* The flags.                                                              *)

\* ParseFlags: what parseCDSDriverFlags and parseBOSDriverFlags accept.  Each
\* endpoint has a default that is made of the region.
Needs == [cds |-> {"bcc", "cds"}, bos |-> {"bos"}]

Accepted ==
    /\ flags.driver \in {"cds", "bos"}
    /\ flags.mode \in {"node", "all"} \cup (IF flags.driver = "cds"
                                            THEN {"controller"} ELSE {})
    /\ flags.auth \in {"key"} \cup (IF flags.driver = "cds"
                                    THEN {"gateway"} ELSE {})
    /\ flags.region # "none" \/ Needs[flags.driver] \subseteq flags.endpoints

HasController == flags.driver = "cds" /\ flags.mode \in {"controller", "all"}
HasNode == flags.mode \in {"node", "all"}
ViaGateway == HasController /\ flags.auth = "gateway"

-----------------------------------------------------------------------------
(* The process.                                                            *)

Goto(step) == pc' = step /\ UNCHANGED options

Learn(id, zone, cluster) ==
    options' = [NodeID |-> id, Zone |-> zone, ClusterID |-> cluster]

\* os.Exit(1), glog.Fatal: the process is gone, and what it has read with it.
Exit == pc' = "down" /\ options' = NoOptions

\* The kubelet starts the container.
Launch ==
    /\ pc = "down"
    /\ pc' = "start"
    /\ Learn("none", "none", flags.cluster)
    /\ UNCHANGED <<flags, node, socket, told, faults>>

\* ParseFlags and the beginning of NewDriver.
Start ==
    /\ pc = "start"
    /\ IF ~Accepted THEN Exit
       ELSE IF ViaGateway /\ flags.cluster = "none" THEN Goto("cluster")
       ELSE Goto("node")
    /\ UNCHANGED <<flags, node, socket, told, faults>>

\* getSelfNode: the node object, if NODE_NAME is set and the API server answers.
SelfNode == flags.name # "none" /\ UNCHANGED faults
NoSelfNode == (flags.name = "none" /\ UNCHANGED faults) \/ Fault("api_down")

\* Mutant of ReadCluster: a label that is not there is read as an empty one.
ReadClusterAnyway ==
    /\ pc = "cluster"
    /\ \/ /\ SelfNode
          /\ Learn("none", "none", IF node["cluster"] = "own" THEN "own" ELSE "none")
          /\ pc' = "node"
       \/ NoSelfNode /\ Exit
    /\ UNCHANGED <<flags, node, socket, told>>

\* GetCCEClusterIDFromNodeLabels: a label that is there may be empty.
ReadCluster ==
    /\ pc = "cluster"
    /\ \/ /\ SelfNode /\ node["cluster"] # "unset"
          /\ Learn("none", "none", IF node["cluster"] = "empty" THEN "none" ELSE "own")
          /\ pc' = "node"
       \/ SelfNode /\ node["cluster"] = "unset" /\ Exit
       \/ NoSelfNode /\ Exit
    /\ UNCHANGED <<flags, node, socket, told>>

\* The node server needs the place of the node: GetNodeTopology.
ChooseTopology ==
    /\ pc = "node"
    /\ \/ ~HasNode /\ Goto("socket")
       \/ HasNode /\ flags.topology \in {"meta", "auto"} /\ Goto("id")
       \/ HasNode /\ flags.topology = "k8s" /\ Goto("k8s")
       \/ HasNode /\ flags.topology = "other" /\ Exit
    /\ UNCHANGED <<flags, node, socket, told, faults>>

\* What the meta service answers a request: its HTTP status is not looked at, so
\* an error page is an answer too.
Answers(text) ==
    \/ text = "own" /\ UNCHANGED faults
    \/ text = "none" /\ Fault("meta_empty")
    \/ text = "page" /\ Fault("meta_page")

\* NewMetaDataService fails, and GetNodeTopology goes on with the node object or
\* not at all.
MetaFails == IF flags.topology = "auto" THEN Goto("k8s") ELSE Exit

ReadID ==
    /\ pc = "id"
    /\ \/ \E text \in {"own", "page"} :
             /\ Answers(text)
             /\ Learn(text, options.Zone, options.ClusterID)
             /\ pc' = "zone"
       \/ (Answers("none") \/ Fault("meta_down")) /\ MetaFails
    /\ UNCHANGED <<flags, node, socket, told>>

\* Mutant of ReadZone: an empty zone is taken.
ReadZoneAnyway ==
    /\ pc = "zone"
    /\ \/ \E text \in {"own", "page", "none"} :
             /\ Answers(text)
             /\ Learn(options.NodeID, text, options.ClusterID)
             /\ pc' = "socket"
       \/ Fault("meta_down") /\ MetaFails
    /\ UNCHANGED <<flags, node, socket, told>>

\* The zone is another request; the service may have gone since the first one.
ReadZone ==
    /\ pc = "zone"
    /\ \/ \E text \in {"own", "page"} :
             /\ Answers(text)
             /\ Learn(options.NodeID, text, options.ClusterID)
             /\ pc' = "socket"
       \/ (Answers("none") \/ Fault("meta_down")) /\ MetaFails
    /\ UNCHANGED <<flags, node, socket, told>>

\* What of the node object can be used: both have to be there, of this cloud, and
\* not empty.
NodeIsComplete == node["provider"] = "own" /\ node["zone"] = "own"

\* getNodeTopologyFromK8SNode.  It replaces an id the meta service has given.
ReadNode ==
    /\ pc = "k8s"
    /\ \/ /\ SelfNode /\ NodeIsComplete
          /\ Learn(node["provider"], node["zone"], options.ClusterID)
          /\ pc' = "socket"
       \/ SelfNode /\ ~NodeIsComplete /\ Exit
       \/ NoSelfNode /\ Exit
    /\ UNCHANGED <<flags, node, socket, told>>

\* Mutant of RemoveSocket: the file a killed process has left stays.
KeepSocket ==
    /\ pc = "socket"
    /\ Goto("listen")
    /\ UNCHANGED <<flags, node, socket, told, faults>>

\* gRPCServer.serve: what is left at the path is removed ...
RemoveSocket ==
    /\ pc = "socket"
    /\ Goto("listen")
    /\ socket' = "absent"
    /\ UNCHANGED <<flags, node, told, faults>>

\* ... for listening fails where there is a file.
Listen ==
    /\ pc = "listen"
    /\ IF socket = "present" THEN Exit ELSE Goto("serve")
    /\ socket' = "present"
    /\ UNCHANGED <<flags, node, told, faults>>

\* The kubelet asks for the place of the node; the answer for a bos node has no
\* zone.  Without a node server there is nothing to ask for.
NodeGetInfo ==
    /\ pc = "serve"
    /\ told' = IF HasNode
               THEN [NodeID |-> options.NodeID,
                     Zone |-> IF flags.driver = "cds" THEN options.Zone ELSE "none"]
               ELSE told
    /\ UNCHANGED <<flags, node, pc, options, socket, faults>>

\* The process is killed; the file of its socket stays.
Killed ==
    /\ pc # "down"
    /\ Fault("killed")
    /\ Exit
    /\ UNCHANGED <<flags, node, socket, told>>

-----------------------------------------------------------------------------
(* The node object is filled in, at times with something else at first.    *)

Fill(field) ==
    /\ node[field] # "own"
    /\ node' = [node EXCEPT ![field] = "own"]
    /\ UNCHANGED <<flags, pc, options, socket, told, faults>>

Misfill(field, text) ==
    /\ node[field] = "unset"
    /\ node' = [node EXCEPT ![field] = text]
    /\ \/ field = "provider" /\ text = "foreign" /\ Fault("foreign")
       \/ field = "provider" /\ text = "empty" /\ Fault("no_id")
       \/ field = "zone" /\ text = "empty" /\ Fault("no_zone")
       \/ field = "cluster" /\ text = "empty" /\ Fault("no_cluster")
    /\ UNCHANGED <<flags, pc, options, socket, told>>

-----------------------------------------------------------------------------
Process == \/ Start \/ ReadCluster \/ ChooseTopology \/ ReadID \/ ReadZone
           \/ ReadNode \/ RemoveSocket \/ Listen

Next ==
    \/ Launch \/ Process \/ NodeGetInfo \/ Killed
    \/ \E field \in Fields : Fill(field)
    \/ \E field \in Fields, text \in {"foreign", "empty"} : Misfill(field, text)

Spec == Init /\ [][Next]_vars

\* The process runs, the kubelet starts it again and asks it, and the node object
\* is complete in the end.
Fairness ==
    /\ WF_vars(Launch)
    /\ WF_vars(Process)
    /\ WF_vars(NodeGetInfo)
    /\ \A field \in Fields : WF_vars(Fill(field))

FairSpec == Spec /\ Fairness

-----------------------------------------------------------------------------
(* Properties.                                                             *)

\* Deployments that can come up: the flags are accepted, and where the cluster id
\* or the place of the node is only in the node object, its name is known.
CanServe ==
    /\ Accepted
    /\ ViaGateway /\ flags.cluster = "none" => flags.name # "none"
    /\ HasNode => \/ flags.topology \in {"meta", "auto"}
                  \/ flags.topology = "k8s" /\ flags.name # "none"

\* Every variable keeps its type, and a process that is down knows nothing.
TypeOK ==
    /\ flags \in Deployments
    /\ node \in Node
    /\ pc \in Steps
    /\ options \in Options
    /\ socket \in {"absent", "present"}
    /\ told \in Answer \cup {Untold}
    /\ faults \subseteq Faults /\ Cardinality(faults) <= MaxFaults
    /\ pc = "down" => options = NoOptions

\* Whatever the kubelet was told of the node is the node's own, and no part of it is
\* empty: never half of an answer or another provider's id, whichever source failed
\* halfway.  Only an error page of the meta service gets through.
ToldItsOwn ==
    LET good == {"own"} \cup (IF "meta_page" \in faults THEN {"page"} ELSE {})
    IN  told # Untold => /\ told.NodeID \in good
                         /\ flags.driver = "cds" => told.Zone \in good

\* A controller that serves through the gateway knows its cluster, without which
\* every call of it fails (cloud/auth.go:91), unless the label was empty.
GatewayKnowsCluster ==
    pc = "serve" /\ ViaGateway
        => options.ClusterID = "own" \/ "no_cluster" \in faults

\* A deployment that can come up does, however often its processes die on the
\* way, and the one that can not never serves.
ServesInTheEnd == IF CanServe THEN <>[](pc = "serve") ELSE [](pc # "serve")
=============================================================================
