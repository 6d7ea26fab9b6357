------------------------- MODULE DriverStartProofs -------------------------
(***************************************************************************)
(* Proofs about DriverStart, for every set of deployments and every bound  *)
(* on faults: types, what the kubelet is told, what the gateway needs, and *)
(* which deployments never serve.                                          *)
(***************************************************************************)
EXTENDS DriverStart, FiniteSetTheorems, TLAPS

USE ConstantsAssumption
    DEF ConstantsAssumption, Node, Options, NoOptions, Steps, Goto, Exit, Learn, Untold,
        Answer

\* The faults so far, and that adding one keeps them counted.
Counted ==
    IsFiniteSet(faults) /\ faults \subseteq Faults /\ Cardinality(faults) <= MaxFaults

LEMMA FaultCounts ==
    ASSUME Counted, NEW kind, Fault(kind)
    PROVE  Counted' /\ kind \in faults' /\ faults \subseteq faults'
<1>1. IsFiniteSet(faults') /\ Cardinality(faults') = Cardinality(faults) + 1
  BY FS_AddElement DEF Counted, Fault
<1>2. Cardinality(faults) \in Nat
  BY FS_CardinalityType DEF Counted
<1>3. Cardinality(faults) + 1 <= MaxFaults
  BY <1>2 DEF Fault
<1>4. faults' = faults \cup {kind} /\ kind \in Faults
  BY DEF Fault
<1> QED BY <1>1, <1>3, <1>4 DEF Counted

\* Faults are kept, whatever step is taken.
LEMMA FaultsStay ==
    ASSUME Counted, [Next]_vars
    PROVE  Counted' /\ faults \subseteq faults'
<1>1. CASE UNCHANGED faults
  BY <1>1 DEF Counted
<1>2. CASE \E kind : Fault(kind)
  BY <1>2, FaultCounts
<1> QED
  BY <1>1, <1>2
  DEF Next, vars, Launch, Process, Start, ReadCluster, ChooseTopology, ReadID,
      ReadZone, ReadNode, RemoveSocket, Listen, NodeGetInfo, Killed, Fill, Misfill,
      SelfNode, NoSelfNode, Answers

\* An id or a zone that may be told: the node's own, or an error page if there was one.
Tellable(text) == text = "own" \/ (text = "page" /\ "meta_page" \in faults)

\* What is known at each step of the process.
Knows ==
    /\ pc = "zone" => Tellable(options.NodeID)
    /\ pc \in {"socket", "listen", "serve"} /\ HasNode
          => Tellable(options.NodeID) /\ Tellable(options.Zone)
    /\ pc = "start" => options.ClusterID = flags.cluster
    /\ pc \notin {"down", "start", "cluster"} /\ ViaGateway
          => options.ClusterID = "own" \/ "no_cluster" \in faults
    /\ node["cluster"] = "empty" => "no_cluster" \in faults

IInv == TypeOK /\ Counted /\ Knows /\ ToldItsOwn

LEMMA InitIInv == Init => IInv
<1> SUFFICES ASSUME Init PROVE IInv
  OBVIOUS
<1>1. Counted
  <2>1. IsFiniteSet({}) /\ Cardinality({}) = 0
    BY FS_EmptySet
  <2> QED BY <2>1 DEF Init, Counted
<1> QED BY <1>1 DEF Init, IInv, TypeOK, Counted, Knows, ToldItsOwn, Fields

\* A step of the process: what it does not touch stays as it is.
LEMMA ProcessStep ==
    ASSUME IInv, Process
    PROVE  TypeOK' /\ Knows' /\ ToldItsOwn'
<1>1. Counted' /\ faults \subseteq faults' /\ UNCHANGED <<flags, node, told>>
  BY FaultsStay
  DEF IInv, Next, Process, Start, ReadCluster, ChooseTopology, ReadID, ReadZone,
      ReadNode, RemoveSocket, Listen
<1>2. /\ flags \in Deployment /\ options \in Options /\ node \in Node
      /\ HasNode' = HasNode /\ ViaGateway' = ViaGateway
  BY <1>1 DEF IInv, TypeOK, HasNode, HasController, ViaGateway, Deployment
<1>3. ToldItsOwn'
  BY <1>1 DEF IInv, ToldItsOwn
<1>4. pc' \in Steps /\ options' \in Options /\ socket' \in {"absent", "present"}
      /\ (pc' = "down" => options' = NoOptions)
  <2>1. CASE Start
    BY <1>2, <2>1 DEF IInv, TypeOK, Start
  <2>2. CASE ReadCluster
    BY <1>2, <2>2 DEF IInv, TypeOK, ReadCluster
  <2>3. CASE ChooseTopology
    BY <1>2, <2>3 DEF IInv, TypeOK, ChooseTopology
  <2>4. CASE ReadID \/ ReadZone
    BY <1>2, <2>4 DEF IInv, TypeOK, ReadID, ReadZone, MetaFails
  <2>5. CASE ReadNode
    BY <1>2, <2>5 DEF IInv, TypeOK, ReadNode, NodeIsComplete
  <2>6. CASE RemoveSocket \/ Listen
    BY <1>2, <2>6 DEF IInv, TypeOK, RemoveSocket, Listen
  <2> QED BY <2>1, <2>2, <2>3, <2>4, <2>5, <2>6 DEF Process
<1>5. Knows'
  <2>1. CASE Start
    BY <1>1, <1>2, <2>1 DEF IInv, Knows, Tellable, Start
  <2>2. CASE ReadCluster
    BY <1>1, <1>2, <2>2 DEF IInv, Knows, Tellable, ReadCluster
  <2>3. CASE ChooseTopology
    BY <1>1, <1>2, <2>3 DEF IInv, Knows, Tellable, ChooseTopology
  <2>4. CASE ReadID
    <3>1. ASSUME NEW text \in {"own", "page"}, Answers(text)
          PROVE  Tellable(text)'
      BY <3>1, FaultCounts DEF IInv, Answers, Tellable
    <3> QED
      BY <1>1, <1>2, <2>4, <3>1 DEF IInv, Knows, ReadID, MetaFails
  <2>5. CASE ReadZone
    <3>1. ASSUME NEW text \in {"own", "page"}, Answers(text)
          PROVE  Tellable(text)'
      BY <3>1, FaultCounts DEF IInv, Answers, Tellable
    <3>2. Tellable(options.NodeID)'  \/ options' # options
      BY <1>1, <2>5 DEF IInv, Knows, Tellable, ReadZone
    <3> QED
      BY <1>1, <1>2, <2>5, <3>1, <3>2 DEF IInv, Knows, Tellable, ReadZone, MetaFails
  <2>6. CASE ReadNode
    BY <1>1, <1>2, <2>6 DEF IInv, Knows, Tellable, ReadNode, NodeIsComplete
  <2>7. CASE RemoveSocket \/ Listen
    BY <1>1, <1>2, <2>7 DEF IInv, Knows, Tellable, RemoveSocket, Listen
  <2> QED BY <2>1, <2>2, <2>3, <2>4, <2>5, <2>6, <2>7 DEF Process
<1> QED BY <1>1, <1>3, <1>4, <1>5 DEF IInv, TypeOK, Counted

LEMMA EnvironmentStep ==
    ASSUME IInv, Next, ~Process
    PROVE  TypeOK' /\ Knows' /\ ToldItsOwn'
<1>1. Counted' /\ faults \subseteq faults'
  BY FaultsStay DEF IInv
<1>2. CASE Launch
  BY <1>1, <1>2
  DEF IInv, Launch, TypeOK, Counted, Knows, ToldItsOwn, Tellable, HasNode,
      ViaGateway, HasController, Deployment
<1>3. CASE NodeGetInfo
  BY <1>1, <1>3
  DEF IInv, NodeGetInfo, TypeOK, Counted, Knows, ToldItsOwn, Tellable, HasNode,
      ViaGateway, HasController
<1>4. CASE Killed
  BY <1>1, <1>4 DEF IInv, Killed, TypeOK, Counted, Knows, ToldItsOwn, Tellable
<1>5. ASSUME UNCHANGED <<flags, pc, options, socket, told>>, node' \in Node,
             node'["cluster"] = "empty" => "no_cluster" \in faults'
      PROVE  TypeOK' /\ Knows' /\ ToldItsOwn'
  BY <1>1, <1>5
  DEF IInv, TypeOK, Counted, Knows, ToldItsOwn, Tellable, HasNode, ViaGateway,
      HasController
<1>6. ASSUME NEW field \in Fields, Fill(field)
      PROVE  TypeOK' /\ Knows' /\ ToldItsOwn'
  BY <1>5, <1>6 DEF IInv, TypeOK, Knows, Fill, Fields
<1>7. ASSUME NEW field \in Fields, NEW text \in {"foreign", "empty"},
             Misfill(field, text)
      PROVE  TypeOK' /\ Knows' /\ ToldItsOwn'
  <2>1. field = "cluster" => "no_cluster" \in faults'
    BY <1>7, FaultCounts DEF IInv, Misfill, Fields
  <2>2. node' \in Node /\ (field # "cluster" => node'["cluster"] = node["cluster"])
    BY <1>7 DEF IInv, TypeOK, Misfill, Fields
  <2> QED BY <1>1, <1>5, <1>7, <2>1, <2>2 DEF IInv, Knows, Misfill
<1> QED BY <1>2, <1>3, <1>4, <1>6, <1>7 DEF Next

LEMMA AlwaysIInv == Spec => []IInv
<1>1. ASSUME IInv, [Next]_vars
      PROVE  IInv'
  <2>1. Counted'
    BY <1>1, FaultsStay DEF IInv
  <2>2. CASE UNCHANGED vars
    BY <2>1, <2>2, <1>1
    DEF vars, IInv, TypeOK, Counted, Knows, ToldItsOwn, Tellable, HasNode,
        ViaGateway, HasController
  <2> QED BY <1>1, <2>1, <2>2, ProcessStep, EnvironmentStep DEF IInv
<1> QED BY <1>1, InitIInv, PTL DEF Spec

\* The types of all variables, and that a process that is down knows nothing.
THEOREM TypeCorrect == Spec => []TypeOK
<1>1. IInv => TypeOK
  BY DEF IInv
<1> QED BY <1>1, AlwaysIInv, PTL

\* NodeGetInfo answers with the node's own id and zone or with an error page of the meta
\* service, and never with an empty id or, for a cds node, an empty zone: not the first
\* time, nor after a restart that read another source.
THEOREM NodeIsItself == Spec => []ToldItsOwn
<1>1. IInv => ToldItsOwn
  BY DEF IInv
<1> QED BY <1>1, AlwaysIInv, PTL

\* A controller that serves through the gateway knows its cluster, but for an empty
\* label.
THEOREM ClusterIsKnown == Spec => []GatewayKnowsCluster
<1>1. IInv => GatewayKnowsCluster
  BY DEF IInv, Knows, GatewayKnowsCluster
<1> QED BY <1>1, AlwaysIInv, PTL
-----------------------------------------------------------------------------
(* Which deployments come up at all.                                       *)

\* What a process has found out about its deployment by the time it is at pc.
Passed ==
    /\ pc \notin {"down", "start"} => Accepted
    /\ pc \notin {"down", "start", "cluster"}
          => (ViaGateway /\ flags.cluster = "none" => flags.name # "none")
    /\ pc \in {"id", "zone"} => flags.topology \in {"meta", "auto"}
    /\ pc = "k8s" => flags.topology \in {"auto", "k8s"}
    /\ pc \in {"socket", "listen", "serve"} => CanServe

LEMMA PassedStep ==
    ASSUME Passed, [Next]_vars
    PROVE  Passed'
<1>1. CASE UNCHANGED flags
  <2>1. /\ Accepted' = Accepted /\ ViaGateway' = ViaGateway
        /\ HasNode' = HasNode /\ CanServe' = CanServe
    BY <1>1 DEF Accepted, ViaGateway, HasController, HasNode, CanServe
  <2>2. CASE pc' = pc \/ pc' = "down"
    BY <1>1, <2>1, <2>2 DEF Passed
  <2>3. CASE Launch \/ Start
    BY <1>1, <2>1, <2>3 DEF Passed, Launch, Start
  <2>4. CASE ReadCluster
    BY <1>1, <2>1, <2>4 DEF Passed, ReadCluster, SelfNode
  <2>5. CASE ChooseTopology
    BY <1>1, <2>1, <2>5 DEF Passed, CanServe, ChooseTopology
  <2>6. CASE ReadID \/ ReadZone
    BY <1>1, <2>1, <2>6 DEF Passed, CanServe, ReadID, ReadZone, MetaFails
  <2>7. CASE ReadNode
    BY <1>1, <2>1, <2>7 DEF Passed, CanServe, ReadNode, SelfNode
  <2>8. CASE RemoveSocket \/ Listen
    BY <1>1, <2>1, <2>8 DEF Passed, RemoveSocket, Listen
  <2>9. CASE NodeGetInfo \/ Killed
    BY <2>2, <2>9 DEF NodeGetInfo, Killed
  <2>10. ASSUME NEW field, NEW text, Fill(field) \/ Misfill(field, text)
         PROVE  Passed'
    BY <2>2, <2>10 DEF Fill, Misfill
  <2> QED
    BY <2>2, <2>3, <2>4, <2>5, <2>6, <2>7, <2>8, <2>9, <2>10 DEF Next, Process, vars
<1> QED
  BY <1>1
  DEF Next, vars, Launch, Process, Start, ReadCluster, ChooseTopology, ReadID,
      ReadZone, ReadNode, RemoveSocket, Listen, NodeGetInfo, Killed, Fill, Misfill

\* The safety half of ServesInTheEnd: a driver that serves was given flags it
\* accepts, and a NODE_NAME where only the node object tells its cluster or its
\* place.  All others end in os.Exit or glog.Fatal, whatever the services answer.
THEOREM ServesOnlyIfItCan == Spec => [](pc = "serve" => CanServe)
<1>1. Init => Passed
  BY DEF Init, Passed
<1>2. Passed => (pc = "serve" => CanServe)
  BY DEF Passed
<1> QED BY <1>1, <1>2, PassedStep, PTL DEF Spec
=============================================================================
