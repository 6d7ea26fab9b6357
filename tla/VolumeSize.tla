----------------------------- MODULE VolumeSize -----------------------------
(***************************************************************************)
(* The size arithmetic of CreateVolume and ControllerExpandVolume          *)
(* (pkg/driver/cds/controller.go, pkg/util/util.go) for one volume.        *)
(*                                                                         *)
(* The orchestrator asks in bytes, with a requirement and a limit, in      *)
(* int64; the cloud counts in GB.  The driver converts in both directions  *)
(* with int64 arithmetic that wraps around.  Statuses, locks and failures  *)
(* of these handlers are in CdsProvision and CdsAttach: here a creation is *)
(* one step and a resize is accepted whenever it is sent.                  *)
(***************************************************************************)
EXTENDS Integers

CONSTANTS
    GB,       \* util.GB: bytes in a GB
    Half,     \* 2^63: an int64 lies in -Half .. Half - 1
    Default,  \* defaultVolumeSizeGB
    Bytes,    \* the amounts a request may name as requirement or limit
    Nil       \* no CapacityRange

ASSUME ConstantsAssumption ==
    /\ GB \in Nat \ {0}
    /\ Half \in Nat
    /\ Default \in Nat \ {0}
    /\ GB <= Half
    /\ GB * Default < Half
    /\ Bytes \subseteq 0 .. Half - 1
    /\ Nil \notin [req : Int, lim : Int]

VARIABLES
    size,     \* the volume's size in GB, 0 while there is no volume
    goal,     \* the size it is being scaled to, or 0
    want,     \* the range that size (or goal, if any) was computed from
    served    \* the range of the last request answered OK

vars == <<size, goal, want, served>>

Range == [req : Bytes, lim : Bytes]

-----------------------------------------------------------------------------
(* int64.                                                                  *)

Wrap(x) == ((x + Half) % (2 * Half)) - Half

\* Go's division truncates towards zero.
Quotient(a, b) == IF a >= 0 THEN a \div b ELSE -((-a) \div b)

\* Mutant of RoundUpGB: the rest of a GB is cut off.
RoundUpGBDown(bytes) == Quotient(bytes, GB)

RoundUpGB(bytes) == Quotient(Wrap(bytes + GB - 1), GB)

SizeGBToBytes(gb) == Wrap(GB * gb)

-----------------------------------------------------------------------------
\* The size getVolumeSizeGB computes, and whether it returns an error instead.
BadRange(rg) ==
    /\ rg # Nil
    /\ rg.lim > 0
    /\ \/ rg.lim < rg.req
       \/ rg.req = 0 /\ SizeGBToBytes(Default) > rg.lim
       \/ rg.req # 0 /\ SizeGBToBytes(RoundUpGB(rg.req)) > rg.lim

getVolumeSizeGB(rg) ==
    IF rg = Nil \/ rg.req = 0 THEN Default ELSE RoundUpGB(rg.req)

\* Mutant of sizeInGBMeetCapRange: the requirement is not compared.
MeetLimitOnly(gb, rg) == rg.lim = 0 \/ SizeGBToBytes(gb) <= rg.lim

sizeInGBMeetCapRange(gb, rg) ==
    /\ SizeGBToBytes(gb) >= rg.req
    /\ rg.lim = 0 \/ SizeGBToBytes(gb) <= rg.lim

Init == size = 0 /\ goal = 0 /\ want = Nil /\ served = Nil

\* createVolume, the volume does not exist: the cloud makes one of a positive
\* size and refuses any other.
Create(rg) ==
    /\ size = 0
    /\ ~BadRange(rg)
    /\ getVolumeSizeGB(rg) > 0
    /\ size' = getVolumeSizeGB(rg)
    /\ want' = rg
    /\ served' = rg
    /\ UNCHANGED goal

\* createVolume, the volume exists: OK if it has the size asked for.
CreateAgain(rg) ==
    /\ size # 0
    /\ ~BadRange(rg)
    /\ getVolumeSizeGB(rg) = size
    /\ served' = rg
    /\ UNCHANGED <<size, goal, want>>

\* ControllerExpandVolume answers OK: the volume is not scaling, and large enough.
ExpandIsDone(rg) ==
    /\ size # 0 /\ goal = 0
    /\ rg # Nil
    /\ sizeInGBMeetCapRange(size, rg)
    /\ served' = rg
    /\ UNCHANGED <<size, goal, want>>

\* Mutant of ExpandResizes: a size below the volume's is not refused.
ExpandResizesDown(rg) ==
    /\ size # 0 /\ goal = 0
    /\ rg # Nil
    /\ ~sizeInGBMeetCapRange(size, rg)
    /\ ~BadRange(rg)
    /\ goal' = getVolumeSizeGB(rg)
    /\ want' = rg
    /\ UNCHANGED <<size, served>>

\* ControllerExpandVolume sends a resize request and answers Aborted.
ExpandResizes(rg) ==
    /\ size # 0 /\ goal = 0
    /\ rg # Nil
    /\ ~sizeInGBMeetCapRange(size, rg)
    /\ ~BadRange(rg)
    /\ getVolumeSizeGB(rg) >= size
    /\ goal' = getVolumeSizeGB(rg)
    /\ want' = rg
    /\ UNCHANGED <<size, served>>

\* The cloud has scaled the volume.
Scaled ==
    /\ goal # 0
    /\ size' = goal
    /\ goal' = 0
    /\ UNCHANGED <<want, served>>

\* The cloud fails to scale it.
NotScaled ==
    /\ goal # 0
    /\ goal' = 0
    /\ want' = Nil
    /\ UNCHANGED <<size, served>>

Next ==
    \/ \E rg \in Range \cup {Nil} : \/ Create(rg)
                                    \/ CreateAgain(rg)
                                    \/ ExpandIsDone(rg)
                                    \/ ExpandResizes(rg)
    \/ Scaled
    \/ NotScaled

Spec == Init /\ [][Next]_vars

-----------------------------------------------------------------------------
(* Properties.                                                             *)

\* Every variable keeps its type, and the volume's bytes are an int64.
TypeOK ==
    /\ size \in Nat /\ GB * size < Half
    /\ goal \in Nat /\ GB * goal < Half
    /\ want \in Range \cup {Nil}
    /\ served \in Range \cup {Nil}

\* A size in GB lies in the range, in plain arithmetic.
Fits(gb, rg) == GB * gb >= rg.req /\ (rg.lim = 0 \/ GB * gb <= rg.lim)

\* The size computed from a range lies in it, and the code sees that it does: a
\* repetition of the request that made or resized the volume is answered OK,
\* and does not resize it again.
AskedIsMet ==
    LET gb == IF goal # 0 THEN goal ELSE size
    IN  want # Nil => Fits(gb, want) /\ sizeInGBMeetCapRange(gb, want)

\* A resize request always grows the volume, whatever the range and however it
\* wraps around.
ResizeIsGrowth == goal # 0 => goal > size

\* Whoever was answered OK keeps the bytes it required through every later
\* request.
ServedIsEnough == served # Nil => GB * size >= served.req
=============================================================================
