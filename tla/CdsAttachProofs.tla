-------------------------- MODULE CdsAttachProofs --------------------------
(***************************************************************************)
(* Proofs about CdsAttach, for any number of nodes and calls, any size and *)
(* any bound on faults: types without conditions; that answers stay true   *)
(* and that VolumeSeat is implemented where the volume is used at one node *)
(* at a time, no caller gives up and no listing is late.                   *)
(***************************************************************************)
EXTENDS CdsAttach, TLAPS

-----------------------------------------------------------------------------
(* Types, whatever the orchestrator and the environment do.                *)

USE ConstantsAssumption
    DEF ConstantsAssumption, Volume, Statuses, Codes, Publishing, Unpublishing,
        Call, Expansion

\* The part of TypeOK about the volume, and what scaling returns to.
VolumeTyped ==
    /\ vol \in Volume
    /\ vol.status \in {"Attaching", "InUse", "Detaching"} => vol.node # Nil
    /\ vol.status = "Scaling" => /\ vol.goal > vol.size
                                 /\ vol.before \in {"Available", "InUse"}
                                 /\ vol.before = "InUse" => vol.node # Nil

\* A flight has a node to publish at, or attaching would not have one.
Typed == TypeOK /\ VolumeTyped /\ (pub.pc # "idle" => pub.node # Nil)

LEMMA MoveTypes ==
    ASSUME VolumeTyped, NEW status \in Statuses \ {"Scaling"},
           NEW node \in Nodes \cup {Nil}, Move(status, node),
           status \in {"Attaching", "InUse", "Detaching"} => node # Nil
    PROVE  VolumeTyped'
BY DEF VolumeTyped, Move

LEMMA InitTypes == Init => Typed
BY DEF Init, Typed, TypeOK, VolumeTyped, NoPub, NoUnpub, NoCall, NoExpansion

LEMMA PublishTypes ==
    ASSUME Typed, Publish
    PROVE  Typed'
<1>1. CASE PubNode
  BY <1>1 DEF Typed, TypeOK, VolumeTyped, PubNode, PubReturn
<1>2. CASE PubGet
  BY <1>2 DEF Typed, TypeOK, VolumeTyped, PubGet, PubReturn
<1>3. VolumeTyped' \/ ~(PubAttach \/ PubFails)
  <2>1. CASE UNCHANGED vol
    BY <2>1 DEF Typed, TypeOK, VolumeTyped
  <2>2. CASE pub.pc = "attach" /\ CloudAttaches(pub.node)
    BY <2>2, MoveTypes DEF Typed, TypeOK, VolumeTyped, CloudAttaches
  <2> QED BY <2>1, <2>2 DEF PubAttach, PubFails
<1>4. CASE PubAttach
  BY <1>3, <1>4 DEF Typed, TypeOK, VolumeTyped, PubAttach, PubReturn
<1>5. CASE PubFails
  BY <1>3, <1>5 DEF Typed, TypeOK, VolumeTyped, PubFails, PubReturn, Fault
<1>6. CASE PubRetry
  BY <1>6 DEF Typed, TypeOK, VolumeTyped, PubRetry
<1>7. CASE PubFinish
  BY <1>7 DEF Typed, TypeOK, VolumeTyped, PubFinish, Answer, NoPub, NoCall
<1> QED BY <1>1, <1>2, <1>4, <1>5, <1>6, <1>7 DEF Publish

LEMMA UnpublishTypes ==
    ASSUME Typed, Unpublish
    PROVE  Typed'
<1>1. CASE UnpubGet
  BY <1>1 DEF Typed, TypeOK, VolumeTyped, UnpubGet, UnpubReturn, ListedNode
<1>2. CASE UnpubNode
  BY <1>2 DEF Typed, TypeOK, VolumeTyped, UnpubNode, UnpubReturn
<1>3. VolumeTyped' \/ ~(UnpubDetach \/ UnpubFails)
  <2>1. CASE UNCHANGED vol
    BY <2>1 DEF Typed, TypeOK, VolumeTyped
  <2>2. CASE CloudDetaches(unpub.node)
    BY <2>2, MoveTypes DEF Typed, TypeOK, VolumeTyped, CloudDetaches, CanDetach
  <2> QED BY <2>1, <2>2 DEF UnpubDetach, UnpubFails
<1>4. CASE UnpubDetach
  BY <1>3, <1>4 DEF Typed, TypeOK, VolumeTyped, UnpubDetach, UnpubReturn
<1>5. CASE UnpubFails
  BY <1>3, <1>5 DEF Typed, TypeOK, VolumeTyped, UnpubFails, UnpubReturn, Fault
<1>6. CASE UnpubRetry
  BY <1>6 DEF Typed, TypeOK, VolumeTyped, UnpubRetry, UnpubOf
<1>7. CASE UnpubFinish
  BY <1>7 DEF Typed, TypeOK, VolumeTyped, UnpubFinish, Answer, NoUnpub, NoCall
<1> QED BY <1>1, <1>2, <1>4, <1>5, <1>6, <1>7 DEF Unpublish

LEMMA ScaleTypes ==
    ASSUME VolumeTyped, NEW s \in 0 .. MaxSize, CloudScales(s)
    PROVE  VolumeTyped'
BY DEF VolumeTyped, CloudScales, CanScale

LEMMA ScaledTypes ==
    ASSUME VolumeTyped, vol.status = "Scaling", NEW size \in 1 .. MaxSize,
           Scaled(size)
    PROVE  VolumeTyped'
BY DEF VolumeTyped, Scaled

LEMMA ExpandTypes ==
    ASSUME Typed, NEW e \in Resizers, Expand(e)
    PROVE  Typed'
<1>1. expand[e] \in Expansion
  BY DEF Typed, TypeOK
<1>2. CASE ExpandGet(e)
  BY <1>1, <1>2 DEF Typed, TypeOK, VolumeTyped, ExpandGet, ExpandReturn, NoExpansion
<1>3. VolumeTyped' \/ ~(ExpandResize(e) \/ ExpandFails(e))
  <2>1. CASE UNCHANGED vol
    BY <2>1 DEF Typed, VolumeTyped
  <2>2. CASE CloudScales(expand[e].size)
    BY <1>1, <2>2, ScaleTypes DEF Typed
  <2> QED BY <2>1, <2>2 DEF ExpandResize, ExpandFails
<1>4. expand' \in [Resizers -> Expansion] \/ ~(ExpandResize(e) \/ ExpandFails(e))
  BY DEF Typed, TypeOK, ExpandResize, ExpandFails, ExpandReturn, NoExpansion
<1>5. CASE ExpandResize(e)
  BY <1>3, <1>4, <1>5 DEF Typed, TypeOK, VolumeTyped, ExpandResize
<1>6. CASE ExpandFails(e)
  BY <1>3, <1>4, <1>6 DEF Typed, TypeOK, VolumeTyped, ExpandFails, Fault
<1> QED BY <1>2, <1>5, <1>6 DEF Expand

LEMMA OrchestratorTypes ==
    ASSUME Typed, Orchestrator
    PROVE  Typed'
<1>1. ASSUME NEW c \in Calls, NEW n \in Nodes, CallPublish(c, n)
      PROVE  Typed'
  BY <1>1 DEF Typed, TypeOK, VolumeTyped, CallPublish
<1>2. ASSUME NEW c \in Calls, NEW n \in Nodes, CallUnpublish(c, n)
      PROVE  Typed'
  BY <1>2 DEF Typed, TypeOK, VolumeTyped, CallUnpublish, UnpubOf
<1>3. ASSUME NEW e \in Resizers, NEW s \in 1 .. MaxSize, CallExpand(e, s)
      PROVE  Typed'
  BY <1>3 DEF Typed, TypeOK, VolumeTyped, CallExpand
<1>4. ASSUME NEW c \in Calls, GiveUp(c)
      PROVE  Typed'
  BY <1>4 DEF Typed, TypeOK, VolumeTyped, GiveUp, Fault, NoCall
<1> QED BY <1>1, <1>2, <1>3, <1>4 DEF Orchestrator

LEMMA CloudTypes ==
    ASSUME Typed,
           CloudDone \/ CloudFails \/ VolumeGone \/ \E n \in Nodes : NodeGone(n)
    PROVE  Typed'
<1>1. VolumeTyped'
  <2>1. CASE UNCHANGED vol
    BY <2>1 DEF Typed, VolumeTyped
  <2>2. CASE vol.status = "Scaling" /\ (Scaled(vol.goal) \/ Scaled(vol.size))
    BY <2>2, ScaledTypes DEF Typed, VolumeTyped
  <2>3. CASE vol' = [status |-> "Scaling", node |-> Nil, size |-> vol.size,
                     goal |-> vol.goal, before |-> "Available"]
             /\ vol.status = "Scaling"
    BY <2>3 DEF Typed, VolumeTyped
  <2>4. CASE \/ Move("Available", Nil) \/ Move("Gone", Nil)
             \/ Move("InUse", vol.node) /\ vol.node # Nil
    BY <2>4, MoveTypes DEF Typed, VolumeTyped
  <2> QED
    BY <2>1, <2>2, <2>3, <2>4
    DEF Typed, VolumeTyped, CloudDone, CloudFails, VolumeGone, NodeGone
<1>2. /\ UNCHANGED <<pub, unpub, call, expand, co, grown>>
      /\ gone' \subseteq Nodes
      /\ faults' \in 0 .. MaxFaults
  BY DEF Typed, TypeOK, CloudDone, CloudFails, VolumeGone, NodeGone, Fault
<1> QED BY <1>1, <1>2 DEF Typed, TypeOK, VolumeTyped

LEMMA NextTypes ==
    ASSUME Typed, [Next]_vars
    PROVE  Typed'
<1>1. CASE Crash
  BY <1>1 DEF Typed, TypeOK, VolumeTyped, Crash, Fault, NoPub, NoUnpub, NoCall,
     NoExpansion
<1>2. CASE UNCHANGED vars
  BY <1>2 DEF Typed, TypeOK, VolumeTyped, vars
<1> QED
  BY <1>1, <1>2, PublishTypes, UnpublishTypes, ExpandTypes, OrchestratorTypes,
     CloudTypes
  DEF Next

\* The types of all variables, and that a volume in use or being scaled makes
\* sense, in every behaviour.
THEOREM TypeCorrect == Spec => []TypeOK
<1>1. Init => Typed
  BY InitTypes
<1>2. Typed /\ [Next]_vars => Typed'
  BY NextTypes
<1>3. Typed => TypeOK
  BY DEF Typed
<1> QED BY <1>1, <1>2, <1>3, PTL DEF Spec

-----------------------------------------------------------------------------
(* What holds in any use.                                                  *)

\* The size only grows, and no size is promised that is not there.
LEMMA SizeGrows ==
    ASSUME Typed, [Next]_vars
    PROVE  vol'.size >= vol.size /\ (grown' = grown \/ grown' <= vol.size)
<1> USE DEF Typed, TypeOK, VolumeTyped
<1>1. CASE UNCHANGED <<vol, grown>>
  BY <1>1
<1>2. ASSUME NEW e \in Resizers, ExpandGet(e)
      PROVE  UNCHANGED vol /\ (grown' = grown \/ grown' <= vol.size)
  BY <1>2 DEF ExpandGet
<1>3. CASE UNCHANGED grown /\ \E status, node : Move(status, node)
  BY <1>3 DEF Move
<1>4. CASE UNCHANGED grown /\ \E s \in 0 .. MaxSize : CloudScales(s)
  BY <1>4 DEF CloudScales
<1>5. CASE /\ UNCHANGED grown
           /\ Scaled(vol.size) \/ (vol.status = "Scaling" /\ Scaled(vol.goal))
  BY <1>5 DEF Scaled
<1>6. CASE Publish
  BY <1>1, <1>3, <1>6
  DEF Publish, PubNode, PubGet, PubAttach, PubFails, PubRetry, PubFinish,
      CloudAttaches
<1>7. CASE Unpublish
  BY <1>1, <1>3, <1>7
  DEF Unpublish, UnpubGet, UnpubNode, UnpubDetach, UnpubFails, UnpubRetry,
      UnpubFinish, CloudDetaches
<1>8. ASSUME NEW e \in Resizers, Expand(e)
      PROVE  vol'.size >= vol.size /\ (grown' = grown \/ grown' <= vol.size)
  <2>1. expand[e].size \in 0 .. MaxSize
    OBVIOUS
  <2> QED BY <1>1, <1>2, <1>4, <1>8, <2>1 DEF Expand, ExpandResize, ExpandFails
<1>9. CASE CloudDone \/ CloudFails \/ VolumeGone \/ \E n \in Nodes : NodeGone(n)
  BY <1>1, <1>3, <1>5, <1>9 DEF CloudDone, CloudFails, VolumeGone, NodeGone
<1>10. CASE Orchestrator \/ Crash \/ UNCHANGED vars
  BY <1>1, <1>10
  DEF Orchestrator, CallPublish, CallUnpublish, CallExpand, GiveUp, Crash, vars
<1> QED BY <1>6, <1>7, <1>8, <1>9, <1>10 DEF Next

\* A size ControllerExpandVolume was answered OK for is never undone.
THEOREM ExpansionsStay == Spec => []ExpandedIsLarge
<1>1. Init => Typed /\ ExpandedIsLarge
  BY InitTypes DEF Init, ExpandedIsLarge
<1>2. Typed /\ ExpandedIsLarge /\ [Next]_vars => Typed' /\ ExpandedIsLarge'
  <2> SUFFICES ASSUME Typed, ExpandedIsLarge, [Next]_vars
               PROVE  ExpandedIsLarge'
    BY NextTypes
  <2>1. Typed'
    BY NextTypes
  <2> QED BY <2>1, SizeGrows DEF Typed, TypeOK, VolumeTyped, ExpandedIsLarge
<1> QED BY <1>1, <1>2, PTL DEF Spec

\* While an unpublish flight is under way, its node is being given up.
Wanted == unpub.pc # "idle" => unpub.node \in Nodes /\ co[unpub.node] = "unpublishing"

LEMMA NextWanted ==
    ASSUME Typed, Wanted, [Next]_vars
    PROVE  Wanted'
<1> USE DEF Typed, TypeOK
<1>1. CASE UNCHANGED <<unpub, co>>
  BY <1>1 DEF Wanted
<1>2. ASSUME NEW c \in Calls, NEW n \in Nodes, CallPublish(c, n)
      PROVE  Wanted'
  BY <1>2 DEF CallPublish, Wanted
<1>3. ASSUME NEW c \in Calls, NEW n \in Nodes, CallUnpublish(c, n)
      PROVE  Wanted'
  BY <1>3 DEF CallUnpublish, UnpubOf, Wanted
<1>4. CASE Publish
  BY <1>1, <1>4
  DEF Publish, PubNode, PubGet, PubAttach, PubFails, PubRetry, PubFinish, Answer,
      Wanted
<1>5. CASE UnpubFinish \/ Crash
  BY <1>5 DEF UnpubFinish, Crash, NoUnpub, Wanted
<1>6. CASE Unpublish /\ ~UnpubFinish
  <2>1. /\ unpub.pc # "idle" /\ unpub'.node = unpub.node /\ UNCHANGED co
    BY <1>6
    DEF Unpublish, UnpubGet, UnpubNode, UnpubDetach, UnpubFails, UnpubRetry,
        UnpubReturn, UnpubOf
  <2> QED BY <2>1 DEF Wanted
<1>7. CASE \/ \E e \in Resizers : Expand(e)
           \/ \E e \in Resizers, s \in 1 .. MaxSize : CallExpand(e, s)
           \/ \E c \in Calls : GiveUp(c)
           \/ CloudDone \/ CloudFails \/ VolumeGone
           \/ \E n \in Nodes : NodeGone(n)
           \/ UNCHANGED vars
  BY <1>1, <1>7
  DEF Expand, ExpandGet, ExpandResize, ExpandFails, CallExpand, GiveUp, CloudDone,
      CloudFails, VolumeGone, NodeGone, vars
<1> QED
  BY <1>2, <1>3, <1>4, <1>5, <1>6, <1>7 DEF Next, Orchestrator

\* The volume is only ever detached from a node it is being taken from.
THEOREM DetachingStaysWanted == Spec => DetachingIsWanted
<1>1. Init => Typed /\ Wanted
  BY InitTypes DEF Init, NoUnpub, Wanted
<1>2. Typed /\ Wanted /\ [Next]_vars => Typed' /\ Wanted'
  BY NextTypes, NextWanted
<1>3. ASSUME Typed, Wanted, [Next]_vars,
             vol'.status = "Detaching", vol.status # "Detaching"
      PROVE  co[vol.node] = "unpublishing"
  <2> USE DEF Typed, TypeOK, VolumeTyped
  <2>1. unpub.pc = "detach" /\ CloudDetaches(unpub.node)
    <3>1. CASE Publish
      BY <1>3, <3>1
      DEF Publish, PubNode, PubGet, PubAttach, PubFails, PubRetry, PubFinish,
          CloudAttaches, Move
    <3>2. CASE Unpublish
      BY <1>3, <3>2
      DEF Unpublish, UnpubGet, UnpubNode, UnpubDetach, UnpubFails, UnpubRetry,
          UnpubFinish
    <3>3. CASE \E e \in Resizers : Expand(e)
      BY <1>3, <3>3 DEF Expand, ExpandGet, ExpandResize, ExpandFails, CloudScales
    <3>4. CASE CloudDone \/ CloudFails \/ VolumeGone \/ \E n \in Nodes : NodeGone(n)
      BY <1>3, <3>4 DEF CloudDone, CloudFails, VolumeGone, NodeGone, Move, Scaled
    <3>5. CASE Orchestrator \/ Crash \/ UNCHANGED vars
      BY <1>3, <3>5
      DEF Orchestrator, CallPublish, CallUnpublish, CallExpand, GiveUp, Crash, vars
    <3> QED BY <1>3, <3>1, <3>2, <3>3, <3>4, <3>5 DEF Next
  <2> QED BY <1>3, <2>1 DEF Wanted, CloudDetaches, CanDetach
<1>4. Typed /\ Wanted /\ [Next]_vars
        => [vol'.status = "Detaching" /\ vol.status # "Detaching"
              => co[vol.node] = "unpublishing"]_vars
  BY <1>3
<1> QED BY <1>1, <1>2, <1>4, PTL DEF Spec, DetachingIsWanted

-----------------------------------------------------------------------------
(* What was answered stays true, in sheltered use.                         *)

\* Under what the promises hold.
Sheltered ==
    /\ Exclusive
    /\ "give_up" \notin Faults /\ "late_listing" \notin Faults

\* The orchestrator concerns itself with one node at a time.
OneNode == \A m, n \in Nodes : co[m] # "none" /\ co[n] # "none" => m = n

\* A publish flight works for the calls that wait for it, and they for its node.
PubServes ==
    /\ \A c \in Calls :
          call[c].op = "publish" => /\ pub.pc # "idle"
                                    /\ call[c].node \in Nodes
                                    /\ call[c].node = pub.node
                                    /\ co[call[c].node] = "publishing"
    /\ pub.pc # "idle" => \E c \in Calls : call[c].op = "publish"
    /\ pub.pc = "idle" => pub.node = Nil

UnpubServes ==
    /\ \A c \in Calls :
          call[c].op = "unpublish" => /\ unpub.pc # "idle"
                                      /\ call[c].node \in Nodes
                                      /\ call[c].node = unpub.node
                                      /\ co[call[c].node] = "unpublishing"
    /\ unpub.pc # "idle" => \E c \in Calls : call[c].op = "unpublish"

\* Where the volume is fits its status, and somebody has asked for it there.
Placed ==
    /\ vol.status \in {"Available", "Gone"} => vol.node = Nil
    /\ vol.status = "Scaling" /\ vol.before = "Available" => vol.node = Nil
    /\ vol.node # Nil => vol.node \notin gone /\ co[vol.node] # "none"

\* What a flight has read is still as true as its answer needs it to be.
PubKnows ==
    pub.pc = "ret" /\ pub.res = "OK" => IsAttachedTo(pub.node) \/ pub.node \in gone

UnpubKnows ==
    /\ unpub.pc = "node" => unpub.at = unpub.node \/ vol.node # unpub.node
    /\ unpub.pc = "ret" /\ unpub.res = "OK" => vol.node # unpub.node

Promises == OneNode /\ PubServes /\ UnpubServes /\ Placed
            /\ PubKnows /\ UnpubKnows /\ PublishedIsAttached

IInv == Typed /\ Promises

LEMMA InitPromises == Init => Promises
BY DEF Init, Promises, OneNode, PubServes, UnpubServes, Placed, PubKnows, UnpubKnows,
   PublishedIsAttached, NoPub, NoUnpub, NoCall

\* A flight of one kind keeps out the other kind.
LEMMA FlightsExclude ==
    ASSUME IInv
    PROVE  /\ pub.pc # "idle" => /\ unpub.pc = "idle"
                                 /\ pub.node \in Nodes
                                 /\ co[pub.node] = "publishing"
           /\ unpub.pc # "idle" => /\ pub.pc = "idle"
                                   /\ unpub.node \in Nodes
                                   /\ co[unpub.node] = "unpublishing"
BY DEF IInv, Promises, OneNode, PubServes, UnpubServes

\* A step that leaves volume, nodes and orchestrator alone, and only moves the publish
\* flight to another step of its own.
LEMMA PubMoves ==
    ASSUME IInv, pub.pc # "idle", pub'.pc # "idle", pub'.node = pub.node,
           UNCHANGED <<vol, gone, unpub, call, co>>,
           pub'.pc = "ret" /\ pub'.res = "OK" => IsAttachedTo(pub.node)
    PROVE  Promises'
BY DEF IInv, Promises, OneNode, PubServes, UnpubServes, Placed, PubKnows, UnpubKnows,
   PublishedIsAttached, IsAttachedTo

LEMMA PublishPromises ==
    ASSUME IInv, Typed', Sheltered, Publish
    PROVE  Promises'
<1> USE FlightsExclude DEF Typed, TypeOK, VolumeTyped
<1>1. CASE PubNode
  BY <1>1, PubMoves DEF IInv, PubNode, PubReturn
<1>2. CASE PubGet
  BY <1>2, PubMoves DEF IInv, PubGet, PubReturn, ListedNode, IsAttachedTo, Sheltered
<1>3. ASSUME pub.pc = "attach", CloudAttaches(pub.node), PubReturn("Aborted") \/ PubReturn("Internal"),
             UNCHANGED <<gone, unpub, call, co>>
      PROVE  Promises'
  <2>1. /\ vol.node = Nil /\ vol'.node = pub.node /\ vol'.status = "Attaching"
        /\ pub.node \in Nodes \ gone /\ co[pub.node] = "publishing"
        /\ unpub.pc = "idle"
        /\ pub'.pc = "ret" /\ pub'.res # "OK" /\ pub'.node = pub.node
    BY <1>3 DEF IInv, Promises, Placed, CloudAttaches, CanAttach, Move, PubReturn
  <2>2. PublishedIsAttached'
    BY <2>1, <1>3 DEF IInv, Promises, PublishedIsAttached, IsAttachedTo
  <2> QED
    BY <1>3, <2>1, <2>2
    DEF IInv, Promises, OneNode, PubServes, UnpubServes, Placed, PubKnows, UnpubKnows
<1>4. CASE PubAttach
  BY <1>3, <1>4, PubMoves DEF IInv, PubAttach, PubReturn
<1>5. CASE PubFails
  BY <1>3, <1>5, PubMoves DEF IInv, PubFails, PubReturn
<1>6. CASE PubRetry
  BY <1>6, PubMoves DEF IInv, PubRetry
<1>7. CASE PubFinish
  <2>1. \A n \in Nodes : co'[n] = IF /\ pub.res = "OK" /\ n = pub.node
                                     /\ co[n] = "publishing"
                                  THEN "published" ELSE co[n]
    BY <1>7 DEF IInv, Promises, PubServes, PubFinish, Answer
  <2>2. \A c \in Calls : /\ call'[c].op # "publish"
                         /\ call'[c].op = "unpublish" => call'[c] = call[c]
    BY <1>7 DEF PubFinish, Answer, NoCall
  <2>3. pub' = NoPub /\ UNCHANGED <<vol, gone, unpub>> /\ unpub.pc = "idle"
    BY <1>7 DEF IInv, PubFinish
  <2>4. PubServes' /\ UnpubServes'
    BY <2>1, <2>2, <2>3 DEF IInv, Promises, PubServes, UnpubServes, NoPub
  <2>5. OneNode' /\ Placed'
    BY <2>1, <2>3 DEF IInv, Promises, OneNode, Placed
  <2>6. PublishedIsAttached'
    BY <2>1, <2>3, <1>7
    DEF IInv, Promises, PublishedIsAttached, PubKnows, IsAttachedTo, PubFinish
  <2> QED BY <2>3, <2>4, <2>5, <2>6 DEF IInv, Promises, PubKnows, UnpubKnows, NoPub
<1> QED BY <1>1, <1>2, <1>4, <1>5, <1>6, <1>7 DEF Publish

\* The same for the unpublish flight.
LEMMA UnpubMoves ==
    ASSUME IInv, unpub.pc # "idle", unpub'.pc # "idle", unpub'.node = unpub.node,
           UNCHANGED <<vol, gone, pub, call, co>>,
           UnpubKnows'
    PROVE  Promises'
BY DEF IInv, Promises, OneNode, PubServes, UnpubServes, Placed, PubKnows,
   PublishedIsAttached, IsAttachedTo

LEMMA UnpublishPromises ==
    ASSUME IInv, Typed', Sheltered, Unpublish
    PROVE  Promises'
<1> USE FlightsExclude DEF Typed, TypeOK, VolumeTyped
<1>1. CASE UnpubGet
  <2>1. UnpubKnows'
    BY <1>1 DEF IInv, Promises, Placed, UnpubGet, UnpubReturn, ListedNode, Sheltered, UnpubKnows
  <2> QED BY <1>1, <2>1, UnpubMoves DEF IInv, UnpubGet, UnpubReturn
<1>2. CASE UnpubNode
  <2>1. UnpubKnows'
    BY <1>2 DEF IInv, Promises, Placed, UnpubNode, UnpubReturn, UnpubKnows
  <2>2. unpub.pc # "idle" /\ unpub'.pc # "idle" /\ unpub'.node = unpub.node
    BY <1>2 DEF IInv, UnpubNode, UnpubReturn
  <2> QED BY <1>2, <2>1, <2>2, UnpubMoves DEF UnpubNode
<1>3. ASSUME CloudDetaches(unpub.node), unpub.pc = "detach",
             UnpubReturn("Aborted") \/ UnpubReturn("Internal"),
             UNCHANGED <<gone, pub, call, co>>
      PROVE  Promises'
  <2>1. /\ vol.node = unpub.node /\ vol'.node = vol.node /\ vol'.status = "Detaching"
        /\ co[vol.node] = "unpublishing" /\ pub.pc = "idle"
        /\ unpub'.pc = "ret" /\ unpub'.res # "OK" /\ unpub'.node = unpub.node
    BY <1>3 DEF IInv, CloudDetaches, CanDetach, Move, UnpubReturn
  <2>2. PublishedIsAttached'
    BY <2>1, <1>3 DEF IInv, Promises, PublishedIsAttached, IsAttachedTo
  <2> QED
    BY <1>3, <2>1, <2>2
    DEF IInv, Promises, OneNode, PubServes, UnpubServes, Placed, PubKnows, UnpubKnows
<1>4. CASE UnpubDetach
  BY <1>3, <1>4, UnpubMoves DEF IInv, UnpubDetach, UnpubReturn, UnpubKnows
<1>5. CASE UnpubFails
  BY <1>3, <1>5, UnpubMoves DEF IInv, UnpubFails, UnpubReturn, UnpubKnows
<1>6. CASE UnpubRetry
  BY <1>6, UnpubMoves DEF IInv, UnpubRetry, UnpubOf, UnpubKnows
<1>7. CASE UnpubFinish
  <2>1. \A n \in Nodes : co'[n] = IF /\ unpub.res = "OK" /\ n = unpub.node
                                     /\ co[n] = "unpublishing"
                                  THEN "none" ELSE co[n]
    BY <1>7 DEF IInv, Promises, UnpubServes, UnpubFinish, Answer
  <2>2. \A c \in Calls : /\ call'[c].op # "unpublish"
                         /\ call'[c].op = "publish" => call'[c] = call[c]
    BY <1>7 DEF UnpubFinish, Answer, NoCall
  <2>3. unpub' = NoUnpub /\ UNCHANGED <<vol, gone, pub>> /\ pub.pc = "idle"
    BY <1>7 DEF IInv, UnpubFinish
  <2>4. PubServes' /\ UnpubServes'
    BY <2>1, <2>2, <2>3 DEF IInv, Promises, PubServes, UnpubServes, NoUnpub
  <2>5. OneNode' /\ PublishedIsAttached'
    BY <2>1, <2>3 DEF IInv, Promises, OneNode, PublishedIsAttached, IsAttachedTo
  <2>6. Placed'
    BY <2>1, <2>3, <1>7
    DEF IInv, Promises, Placed, UnpubKnows, UnpubFinish
  <2> QED BY <2>3, <2>4, <2>5, <2>6 DEF IInv, Promises, PubKnows, UnpubKnows, NoUnpub
<1> QED BY <1>1, <1>2, <1>4, <1>5, <1>6, <1>7 DEF Unpublish

LEMMA OrchestratorPromises ==
    ASSUME IInv, Typed', Sheltered, Orchestrator
    PROVE  Promises'
<1> USE FlightsExclude DEF Typed, TypeOK, VolumeTyped
<1>1. ASSUME NEW c \in Calls, NEW n \in Nodes, CallPublish(c, n)
      PROVE  Promises'
  <2>1. \A m \in Nodes \ {n} : co[m] = "none"
    BY <1>1 DEF CallPublish, Sheltered
  <2>2. \A m \in Nodes : co'[m] = IF m = n THEN "publishing" ELSE co[m]
    BY <1>1 DEF IInv, CallPublish
  <2>3. unpub.pc = "idle" /\ (pub.pc # "idle" => pub.node = n)
    BY <1>1, <2>1 DEF IInv, CallPublish
  <2>4. call' = [call EXCEPT ![c] = [op |-> "publish", node |-> n]]
        /\ pub'.pc # "idle" /\ pub'.node = n
        /\ (pub'.pc = "ret" => pub' = pub)
        /\ UNCHANGED <<vol, gone, unpub>>
    BY <1>1, <2>3 DEF CallPublish
  <2>5. \A d \in Calls : call[d].op # "unpublish"
    BY <2>3 DEF IInv, Promises, UnpubServes
  <2>6. PubServes' /\ UnpubServes'
    BY <2>2, <2>3, <2>4, <2>5 DEF IInv, Promises, PubServes, UnpubServes
  <2>7. OneNode' /\ Placed' /\ PublishedIsAttached'
    BY <2>1, <2>2, <2>4
    DEF IInv, Promises, OneNode, Placed, PublishedIsAttached, IsAttachedTo
  <2>8. PubKnows' /\ UnpubKnows'
    BY <2>4 DEF IInv, Promises, PubKnows, UnpubKnows, IsAttachedTo
  <2> QED BY <2>6, <2>7, <2>8 DEF Promises
<1>2. ASSUME NEW c \in Calls, NEW n \in Nodes, CallUnpublish(c, n)
      PROVE  Promises'
  <2>1. \A m \in Nodes : co'[m] = IF m = n THEN "unpublishing" ELSE co[m]
    BY <1>2 DEF IInv, CallUnpublish
  <2>2. pub.pc = "idle" /\ \A d \in Calls : call[d].op # "publish"
    BY <1>2 DEF IInv, Promises, OneNode, PubServes, CallUnpublish
  <2>3. unpub.pc # "idle" => unpub.node = n
    BY <1>2 DEF IInv, Promises, OneNode, CallUnpublish
  <2>4. call' = [call EXCEPT ![c] = [op |-> "unpublish", node |-> n]]
        /\ unpub'.pc # "idle" /\ unpub'.node = n
        /\ (unpub'.pc \in {"node", "ret"} => unpub' = unpub)
        /\ UNCHANGED <<vol, gone, pub>>
    BY <1>2, <2>3 DEF CallUnpublish, UnpubOf
  <2>5. PubServes' /\ UnpubServes'
    BY <2>1, <2>2, <2>3, <2>4 DEF IInv, Promises, OneNode, PubServes, UnpubServes
  <2>6. OneNode' /\ Placed' /\ PublishedIsAttached'
    BY <1>2, <2>1, <2>4
    DEF IInv, Promises, OneNode, Placed, PublishedIsAttached, IsAttachedTo,
        CallUnpublish
  <2>7. PubKnows' /\ UnpubKnows'
    BY <2>4 DEF IInv, Promises, PubKnows, UnpubKnows, IsAttachedTo
  <2> QED BY <2>5, <2>6, <2>7 DEF Promises
<1>3. ASSUME NEW e \in Resizers, NEW s \in 1 .. MaxSize, CallExpand(e, s)
      PROVE  Promises'
  BY <1>3
  DEF CallExpand, IInv, Promises, OneNode, PubServes, UnpubServes, Placed, PubKnows,
      UnpubKnows, PublishedIsAttached, IsAttachedTo
<1> QED BY <1>1, <1>2, <1>3 DEF Orchestrator, GiveUp, Fault, Sheltered

\* Steps that leave flights, calls and the orchestrator alone: the volume may only
\* leave a node that has not been told it is published there.
LEMMA VolumeMoves ==
    ASSUME IInv, Typed', UNCHANGED <<pub, unpub, call, co>>,
           gone \subseteq gone',
           vol'.node \in {vol.node, Nil},
           Placed',
           \A n \in Nodes : IsAttachedTo(n) => IsAttachedTo(n)' \/ n \in gone'
    PROVE  Promises'
<1>1. PubKnows' /\ PublishedIsAttached'
  BY FlightsExclude
  DEF IInv, Promises, PubKnows, PublishedIsAttached, IsAttachedTo
<1>2. UnpubKnows'
  BY FlightsExclude DEF IInv, Promises, UnpubKnows
<1> QED BY <1>1, <1>2 DEF IInv, Promises, OneNode, PubServes, UnpubServes

LEMMA CloudPromises ==
    ASSUME IInv, Typed',
           \/ CloudDone \/ CloudFails \/ VolumeGone
           \/ \E n \in Nodes : NodeGone(n)
           \/ \E e \in Resizers : Expand(e)
    PROVE  Promises'
<1> USE DEF Typed, TypeOK, VolumeTyped
<1>1. CASE UNCHANGED <<vol, gone, pub, unpub, call, co>>
  BY <1>1
  DEF IInv, Promises, OneNode, PubServes, UnpubServes, Placed, PubKnows,
      UnpubKnows, PublishedIsAttached, IsAttachedTo
<1>2. CASE CloudDone \/ CloudFails \/ VolumeGone
  <2>1. /\ UNCHANGED <<gone, pub, unpub, call, co>>
        /\ vol'.node \in {vol.node, Nil}
        /\ \A n \in Nodes : IsAttachedTo(n) => IsAttachedTo(n)'
    BY <1>2
    DEF IInv, Promises, Placed, CloudDone, CloudFails, VolumeGone, Move, Scaled,
        IsAttachedTo
  <2>2. Placed'
    BY <1>2, <2>1
    DEF IInv, Promises, Placed, CloudDone, CloudFails, VolumeGone, Move, Scaled
  <2> QED BY <2>1, <2>2, VolumeMoves
<1>3. ASSUME NEW n \in Nodes, NodeGone(n)
      PROVE  Promises'
  <2>1. /\ gone' = gone \cup {n} /\ UNCHANGED <<pub, unpub, call, co>>
        /\ vol'.node \in {vol.node, Nil} /\ vol'.node # n
        /\ \A m \in Nodes \ {n} : IsAttachedTo(m) => IsAttachedTo(m)'
    BY <1>3 DEF IInv, NodeGone, Move, IsAttachedTo
  <2>2. Placed'
    BY <1>3, <2>1 DEF IInv, Promises, Placed, NodeGone, Move
  <2> QED BY <2>1, <2>2, VolumeMoves
<1>4. ASSUME NEW e \in Resizers, CloudScales(expand[e].size),
             UNCHANGED <<gone, pub, unpub, call, co>>
      PROVE  Promises'
  <2>1. /\ vol'.node = vol.node
        /\ \A n \in Nodes : IsAttachedTo(n) => IsAttachedTo(n)'
    BY <1>4 DEF CloudScales, CanScale, IsAttachedTo
  <2>2. Placed'
    BY <1>4 DEF IInv, Promises, Placed, CloudScales, CanScale
  <2> QED BY <1>4, <2>1, <2>2, VolumeMoves
<1> QED
  BY <1>1, <1>2, <1>3, <1>4 DEF Expand, ExpandGet, ExpandResize, ExpandFails

LEMMA NextPromises ==
    ASSUME IInv, Sheltered, [Next]_vars
    PROVE  IInv'
<1> USE DEF Typed, TypeOK, VolumeTyped
<1>1. Typed'
  BY NextTypes DEF IInv
<1>2. CASE Crash
  <2>1. /\ pub' = NoPub /\ unpub' = NoUnpub /\ UNCHANGED <<vol, gone, co>>
        /\ \A c \in Calls : call'[c] = NoCall
    BY <1>2 DEF Crash
  <2>2. PubServes' /\ UnpubServes' /\ PubKnows' /\ UnpubKnows'
    BY <2>1 DEF PubServes, UnpubServes, PubKnows, UnpubKnows, NoPub, NoUnpub, NoCall
  <2>3. OneNode' /\ Placed' /\ PublishedIsAttached'
    BY <2>1 DEF IInv, Promises, OneNode, Placed, PublishedIsAttached, IsAttachedTo
  <2> QED BY <1>1, <2>2, <2>3 DEF IInv, Promises
<1>3. CASE UNCHANGED vars
  BY <1>3
  DEF vars, IInv, Promises, OneNode, PubServes, UnpubServes, Placed, PubKnows,
      UnpubKnows, PublishedIsAttached, IsAttachedTo
<1>4. Promises'
  BY <1>1, <1>2, <1>3, PublishPromises, UnpublishPromises, OrchestratorPromises,
     CloudPromises
  DEF Next, IInv
<1> QED BY <1>1, <1>4 DEF IInv

LEMMA PromisesHold ==
    ASSUME Sheltered
    PROVE  Spec => []IInv
<1>1. Init => IInv
  BY InitTypes, InitPromises DEF IInv
<1>2. IInv /\ [Next]_vars => IInv'
  BY NextPromises
<1> QED BY <1>1, <1>2, PTL DEF Spec

\* What ControllerPublishVolume answered OK for stays attached until it is given
\* back, through retries, restarts and lost replies.
THEOREM PublishedStaysAttached ==
    ASSUME Sheltered
    PROVE  Spec => []PublishedIsAttached
<1>1. IInv => PublishedIsAttached
  BY DEF IInv, Promises
<1> QED BY <1>1, PromisesHold, PTL

\* After an OK of ControllerUnpublishVolume neither the volume nor any publish
\* flight has to do with the node.
THEOREM UnpublishedStaysDetached ==
    ASSUME Sheltered
    PROVE  Spec => []UnpublishedIsDetached
<1>1. IInv => UnpublishedIsDetached
  BY FlightsExclude
  DEF IInv, Typed, TypeOK, Promises, Placed, PubServes, UnpublishedIsDetached
<1> QED BY <1>1, PromisesHold, PTL

-----------------------------------------------------------------------------
(* VolumeSeat is implemented.                                              *)

Moving == vol.node # Nil /\ ~IsAttachedTo(vol.node)

LEMMA InitSeat == Init => Seat!Init
BY DEF Init, Seat!Init

\* A step that changes nothing the seat is made of.
LEMMA SeatStutters ==
    ASSUME vol'.node = vol.node, Moving' = Moving, UNCHANGED <<co, gone>>
    PROVE  UNCHANGED Seat!place
BY DEF Moving, Seat!place

LEMMA OrchestratorSeat ==
    ASSUME IInv, Orchestrator
    PROVE  [Seat!Next]_Seat!place
<1> USE DEF Typed, TypeOK, VolumeTyped
<1>1. ASSUME NEW c \in Calls, NEW n \in Nodes, CallPublish(c, n)
      PROVE  Seat!Want(n) \/ UNCHANGED Seat!place
  <2>1. UNCHANGED <<vol, gone>> /\ Moving' = Moving
    BY <1>1 DEF CallPublish, Moving, IsAttachedTo
  <2>2. CASE co[n] = "none"
    BY <1>1, <2>1, <2>2 DEF CallPublish, Moving, Seat!Want, Seat!Claim
  <2>3. CASE co[n] = "publishing"
    BY <1>1, <2>1, <2>3, SeatStutters DEF IInv, CallPublish
  <2> QED BY <1>1, <2>2, <2>3 DEF CallPublish
<1>2. ASSUME NEW c \in Calls, NEW n \in Nodes, CallUnpublish(c, n)
      PROVE  Seat!GiveBack(n) \/ UNCHANGED Seat!place
  <2>1. UNCHANGED <<vol, gone>> /\ Moving' = Moving
    BY <1>2 DEF CallUnpublish, Moving, IsAttachedTo
  <2>2. CASE co[n] \in {"publishing", "published"}
    BY <1>2, <2>1, <2>2 DEF CallUnpublish, Moving, Seat!GiveBack, Seat!Claim
  <2>3. CASE co[n] = "unpublishing"
    BY <1>2, <2>1, <2>3, SeatStutters DEF IInv, CallUnpublish
  <2> QED BY <1>2, <2>2, <2>3 DEF IInv, CallUnpublish
<1>3. ASSUME UNCHANGED <<vol, gone, co>>
      PROVE  UNCHANGED Seat!place
  BY <1>3, SeatStutters DEF Moving, IsAttachedTo
<1> QED BY <1>1, <1>2, <1>3 DEF Orchestrator, Seat!Next, CallExpand, GiveUp

\* The volume is attached for a publish flight.
LEMMA ComesToSeat ==
    ASSUME IInv, pub.pc = "attach", CloudAttaches(pub.node), UNCHANGED <<co, gone>>
    PROVE  Seat!Come(pub.node) /\ pub.node \in Nodes
<1>1. /\ vol.node = Nil /\ vol'.node = pub.node /\ vol'.status = "Attaching"
      /\ pub.node \in Nodes \ gone /\ co[pub.node] # "none"
  BY FlightsExclude
  DEF IInv, Promises, Placed, CloudAttaches, CanAttach, Move
<1>2. vol'.node # Nil /\ ~IsAttachedTo(vol.node)'
  BY <1>1 DEF IsAttachedTo
<1> QED BY <1>1, <1>2 DEF Seat!Come

\* The volume is detached for an unpublish flight.
LEMMA RisesFromSeat ==
    ASSUME IInv, unpub.pc = "detach", CloudDetaches(unpub.node), UNCHANGED <<co, gone>>
    PROVE  Seat!Rise
<1>1. /\ vol.node = unpub.node /\ vol'.node = vol.node /\ vol'.status = "Detaching"
      /\ vol.node # Nil /\ co[vol.node] = "unpublishing"
  BY FlightsExclude DEF CloudDetaches, CanDetach, Move
<1>2. vol'.node # Nil /\ ~IsAttachedTo(vol.node)'
  BY <1>1 DEF IsAttachedTo
<1> QED BY <1>1, <1>2 DEF Seat!Rise

LEMMA FlightSeat ==
    ASSUME IInv, Publish \/ Unpublish
    PROVE  [Seat!Next]_Seat!place
<1> USE DEF Typed, TypeOK, VolumeTyped
<1>1. ASSUME UNCHANGED <<vol, gone, co>>
      PROVE  UNCHANGED Seat!place
  BY <1>1, SeatStutters DEF Moving, IsAttachedTo
<1>2. CASE PubAttach \/ PubFails
  BY <1>1, <1>2, ComesToSeat DEF PubAttach, PubFails, Seat!Next
<1>3. CASE UnpubDetach \/ UnpubFails
  BY <1>1, <1>3, RisesFromSeat DEF UnpubDetach, UnpubFails, Seat!Next
<1>4. CASE PubFinish
  <2>1. UNCHANGED <<vol, gone>> /\ Moving' = Moving
    BY <1>4 DEF PubFinish, Moving, IsAttachedTo
  <2>2. \A n \in Nodes : co'[n] = IF /\ pub.res = "OK" /\ n = pub.node
                                     /\ co[n] = "publishing"
                                  THEN "published" ELSE co[n]
    BY <1>4 DEF IInv, Promises, PubServes, PubFinish, Answer
  <2>3. co' \in [Nodes -> {"none", "publishing", "published", "unpublishing"}]
    BY <1>4 DEF IInv, PubFinish, Answer
  <2>4. CASE pub.res = "OK"
    <3>1. pub.node \in Nodes /\ co[pub.node] = "publishing"
      BY <1>4, FlightsExclude DEF PubFinish
    <3>2. co' = [co EXCEPT ![pub.node] = "published"]
      BY <2>2, <2>3, <2>4, <3>1 DEF IInv
    <3>3. (vol.node = pub.node /\ ~Moving) \/ pub.node \in gone
      BY <1>4, <2>4 DEF IInv, Promises, PubKnows, PubFinish, Moving, IsAttachedTo
    <3>4. Seat!Grant(pub.node)
      BY <2>1, <3>1, <3>2, <3>3 DEF Moving, Seat!Grant, Seat!Claim
    <3> QED BY <3>1, <3>4 DEF Seat!Next
  <2>5. CASE pub.res # "OK"
    <3>1. co' = co
      BY <2>2, <2>3, <2>5 DEF IInv
    <3> QED BY <1>1, <2>1, <3>1
  <2> QED BY <2>4, <2>5
<1>5. CASE UnpubFinish
  <2>1. UNCHANGED <<vol, gone>> /\ Moving' = Moving
    BY <1>5 DEF UnpubFinish, Moving, IsAttachedTo
  <2>2. \A n \in Nodes : co'[n] = IF /\ unpub.res = "OK" /\ n = unpub.node
                                     /\ co[n] = "unpublishing"
                                  THEN "none" ELSE co[n]
    BY <1>5 DEF IInv, Promises, UnpubServes, UnpubFinish, Answer
  <2>3. co' \in [Nodes -> {"none", "publishing", "published", "unpublishing"}]
    BY <1>5 DEF IInv, UnpubFinish, Answer
  <2>4. CASE unpub.res = "OK"
    <3>1. unpub.node \in Nodes /\ co[unpub.node] = "unpublishing"
      BY <1>5, FlightsExclude DEF UnpubFinish
    <3>2. co' = [co EXCEPT ![unpub.node] = "none"]
      BY <2>2, <2>3, <2>4, <3>1 DEF IInv
    <3>3. vol.node # unpub.node
      BY <1>5, <2>4 DEF IInv, Promises, UnpubKnows, UnpubFinish
    <3>4. Seat!Release(unpub.node)
      BY <2>1, <3>1, <3>2, <3>3 DEF Moving, Seat!Release, Seat!Claim
    <3> QED BY <3>1, <3>4 DEF Seat!Next
  <2>5. CASE unpub.res # "OK"
    <3>1. co' = co
      BY <2>2, <2>3, <2>5 DEF IInv
    <3> QED BY <1>1, <2>1, <3>1
  <2> QED BY <2>4, <2>5
<1> QED
  BY <1>1, <1>2, <1>3, <1>4, <1>5
  DEF Publish, Unpublish, PubNode, PubGet, PubRetry, UnpubGet, UnpubNode, UnpubRetry

LEMMA CloudSeat ==
    ASSUME IInv,
           \/ CloudDone \/ CloudFails \/ VolumeGone
           \/ \E n \in Nodes : NodeGone(n)
           \/ \E e \in Resizers : Expand(e)
    PROVE  [Seat!Next]_Seat!place
<1> USE DEF Typed, TypeOK, VolumeTyped
<1>1. ASSUME vol'.node = vol.node, UNCHANGED <<gone, co>>,
             IsAttachedTo(vol.node)' <=> IsAttachedTo(vol.node)
      PROVE  UNCHANGED Seat!place
  BY <1>1, SeatStutters DEF Moving
<1>2. CASE CloudDone \/ CloudFails
  <2>1. UNCHANGED <<gone, co>>
    BY <1>2 DEF CloudDone, CloudFails
  <2>2. CASE vol.status \in {"Attaching", "Detaching"} /\ Move("InUse", vol.node)
    <3>1. /\ vol'.node = vol.node /\ vol.node # Nil
          /\ ~IsAttachedTo(vol.node) /\ IsAttachedTo(vol.node)'
      BY <2>2 DEF IInv, Move, IsAttachedTo
    <3>2. Seat!Settle
      BY <2>1, <3>1 DEF Seat!Settle
    <3> QED BY <3>2 DEF Seat!Next
  <2>3. CASE vol.status \in {"Attaching", "Detaching"} /\ Move("Available", Nil)
    <3>1. vol'.node = Nil /\ vol.node \in Nodes /\ ~IsAttachedTo(vol.node)
      BY <2>3 DEF IInv, Move, IsAttachedTo
    <3>2. co[vol.node] # "published"
      BY <3>1 DEF IInv, Promises, Placed, PublishedIsAttached
    <3>3. Seat!Leave
      BY <2>1, <3>1, <3>2 DEF Seat!Leave
    <3> QED BY <3>3 DEF Seat!Next
  <2>4. CASE vol.status = "Scaling" /\ (Scaled(vol.goal) \/ Scaled(vol.size))
    BY <1>1, <2>1, <2>4 DEF IInv, Scaled, IsAttachedTo
  <2> QED BY <1>2, <2>2, <2>3, <2>4 DEF CloudDone, CloudFails
<1>3. CASE VolumeGone
  BY <1>1, <1>3 DEF IInv, Promises, Placed, VolumeGone, Move, IsAttachedTo
<1>4. ASSUME NEW n \in Nodes, NodeGone(n)
      PROVE  Seat!Lose(n)
  <2>1. gone' = gone \cup {n} /\ UNCHANGED co /\ n # Nil
    BY <1>4 DEF NodeGone
  <2>2. vol'.node = IF vol.node = n THEN Nil ELSE vol.node
    BY <1>4 DEF NodeGone, Move
  <2>3. Moving' = (Moving /\ vol.node # n)
    BY <1>4, <2>1, <2>2 DEF NodeGone, Moving, IsAttachedTo
  <2> QED BY <2>1, <2>2, <2>3 DEF Seat!Lose, Moving
<1>5. ASSUME NEW e \in Resizers, Expand(e)
      PROVE  UNCHANGED Seat!place
  <2>1. CASE CloudScales(expand[e].size) /\ UNCHANGED <<gone, co>>
    BY <1>1, <2>1 DEF CloudScales, CanScale, IsAttachedTo
  <2>2. CASE UNCHANGED <<vol, gone, co>>
    BY <1>1, <2>2 DEF IsAttachedTo
  <2> QED BY <1>5, <2>1, <2>2 DEF Expand, ExpandGet, ExpandResize, ExpandFails
<1> QED BY <1>2, <1>3, <1>4, <1>5 DEF Seat!Next

LEMMA NextSeat ==
    ASSUME IInv, [Next]_vars
    PROVE  [Seat!Next]_Seat!place
<1>1. CASE Crash \/ UNCHANGED vars
  <2>1. UNCHANGED <<vol, gone, co>>
    BY <1>1 DEF Crash, vars
  <2> QED BY <2>1, SeatStutters DEF Moving, IsAttachedTo
<1> QED BY <1>1, OrchestratorSeat, FlightSeat, CloudSeat DEF Next

\* In sheltered use all that publish, unpublish and expand do to the place of the
\* volume is a behaviour of VolumeSeat.
THEOREM SeatImplemented ==
    ASSUME Sheltered
    PROVE  Spec => ImplementsSeat
<1>1. Spec => []IInv
  BY PromisesHold
<1>2. IInv /\ [Next]_vars => [Seat!Next]_Seat!place
  BY NextSeat
<1> QED BY <1>1, <1>2, InitSeat, PTL DEF Spec, ImplementsSeat, Seat!Spec
=============================================================================
