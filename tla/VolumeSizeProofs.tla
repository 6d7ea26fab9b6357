-------------------------- MODULE VolumeSizeProofs --------------------------
(***************************************************************************)
(* Proofs about VolumeSize, for every GB, default size, set of byte        *)
(* amounts and width of the integers.                                      *)
(***************************************************************************)
EXTENDS VolumeSize, TLAPS

\* A value that an int64 holds is not changed by wrapping.
LEMMA WrapSmall ==
    ASSUME NEW x \in Int, -Half <= x, x < Half
    PROVE  Wrap(x) = x
<1>1. x + Half \in 0 .. 2 * Half - 1
    BY ConstantsAssumption
<1>2. \A d \in Nat, a \in Int : 0 <= a /\ a < d => a % d = a
    OBVIOUS
<1>3. (x + Half) % (2 * Half) = x + Half
    BY <1>1, <1>2, ConstantsAssumption
<1> QED
    BY <1>3, ConstantsAssumption DEF Wrap

\* A sum that exceeds int64 once wraps to a negative value.
LEMMA WrapBig ==
    ASSUME NEW x \in Int, Half <= x, x < 2 * Half
    PROVE  Wrap(x) = x - 2 * Half
<1>1. \A d \in Nat, a \in Int : d <= a /\ a < 2 * d => a % d = a - d
    OBVIOUS
<1>2. (x + Half) % (2 * Half) = x - Half
  <2>1. 2 * Half \in Nat /\ x + Half \in Int
    BY ConstantsAssumption
  <2>2. 2 * Half <= x + Half /\ x + Half < 2 * (2 * Half)
    BY ConstantsAssumption
  <2>3. PICK d \in Nat, a \in Int : d = 2 * Half /\ a = x + Half
    BY <2>1
  <2>4. a % d = a - d
    BY <1>1, <2>2, <2>3
  <2>5. (x + Half) % (2 * Half) = a % d
    BY <2>3, Zenon
  <2>6. a - d = x - Half
    BY <2>3, ConstantsAssumption
  <2> QED
    BY <2>4, <2>5, <2>6, Zenon
<1> QED
    BY <1>2, ConstantsAssumption DEF Wrap

\* A positive result of RoundUpGB has not wrapped, and covers the bytes it
\* was computed from.
LEMMA RoundUpCovers ==
    ASSUME NEW b \in 1 .. Half - 1, RoundUpGB(b) > 0
    PROVE  /\ RoundUpGB(b) \in Nat
           /\ b <= GB * RoundUpGB(b)
           /\ GB * RoundUpGB(b) < Half
<1>1. GB \in Nat /\ GB > 0 /\ Half \in Nat /\ GB <= Half
    BY ConstantsAssumption
<1> DEFINE sum == b + GB - 1
<1>2. sum \in Nat /\ sum < 2 * Half
    BY <1>1
<1>3. CASE sum < Half
  <2>1. Wrap(sum) = sum
    BY <1>1, <1>2, <1>3, WrapSmall
  <2>2. RoundUpGB(b) = sum \div GB
    BY <2>1, <1>2 DEF RoundUpGB, Quotient
  <2>3. \A m \in Nat, n \in Nat \ {0} :
            m \div n \in Nat /\ n * (m \div n) <= m /\ m < n * (m \div n) + n
    OBVIOUS
  <2>4. /\ sum \div GB \in Nat
        /\ GB * (sum \div GB) <= sum
        /\ sum < GB * (sum \div GB) + GB
    BY <1>1, <1>2, <2>3
  <2> DEFINE q == sum \div GB
             p == GB * q
  <2>5. q \in Nat /\ p \in Nat /\ p <= sum /\ sum < p + GB
    BY <1>1, <2>4
  <2> HIDE DEF q, p
  <2>6. b <= p /\ p < Half
    BY <1>1, <1>3, <2>5
  <2> QED
    BY <2>2, <2>5, <2>6 DEF q, p
<1>4. CASE Half <= sum
  <2>1. Wrap(sum) = sum - 2 * Half
    BY <1>2, <1>4, WrapBig
  <2>2. Wrap(sum) \in Int /\ Wrap(sum) < 0
    BY <1>1, <1>2, <2>1
  <2> DEFINE m == - Wrap(sum)
  <2>3. m \in Nat
    BY <2>2
  <2>4. RoundUpGB(b) = - (m \div GB)
    BY <2>2 DEF RoundUpGB, Quotient
  <2>5. m \div GB \in Nat
    <3>1. \A i \in Nat, n \in Nat \ {0} : i \div n \in Nat
      OBVIOUS
    <3> QED
      BY <1>1, <2>3, <3>1
  <2>6. ~(RoundUpGB(b) > 0)
    BY <2>4, <2>5
  <2> QED
    BY <2>6
<1> QED
    BY <1>1, <1>2, <1>3, <1>4

\* Bytes grow with GB.
LEMMA BytesGrow ==
    ASSUME NEW i \in Nat, NEW j \in Nat, i <= j
    PROVE  GB * i <= GB * j /\ GB * i \in Nat
BY ConstantsAssumption

\* The bytes of a volume are computed without wrapping.
LEMMA BytesExact ==
    ASSUME NEW g \in Nat, GB * g < Half
    PROVE  SizeGBToBytes(g) = GB * g
<1>1. GB * g \in Nat
    BY ConstantsAssumption
<1> QED
    BY <1>1, WrapSmall, ConstantsAssumption DEF SizeGBToBytes

\* A range is not "no range", and names two amounts of bytes.
LEMMA RangeTyped ==
    ASSUME NEW rg \in Range
    PROVE  rg # Nil /\ rg.req \in 0 .. Half - 1 /\ rg.lim \in 0 .. Half - 1
<1>1. rg.req \in 0 .. Half - 1 /\ rg.lim \in 0 .. Half - 1
    BY ConstantsAssumption DEF Range
<1>2. rg \in [req : Int, lim : Int]
    BY <1>1 DEF Range
<1> QED
    BY <1>1, <1>2, ConstantsAssumption

\* A size that getVolumeSizeGB computes without error, and that is positive,
\* lies in the range it was computed from, and is seen to.
LEMMA ComputedFits ==
    ASSUME NEW rg \in Range, ~BadRange(rg), getVolumeSizeGB(rg) > 0
    PROVE  /\ getVolumeSizeGB(rg) \in Nat
           /\ GB * getVolumeSizeGB(rg) < Half
           /\ Fits(getVolumeSizeGB(rg), rg)
           /\ sizeInGBMeetCapRange(getVolumeSizeGB(rg), rg)
<1>1. rg # Nil /\ rg.req \in 0 .. Half - 1 /\ rg.lim \in 0 .. Half - 1
    BY RangeTyped
<1> DEFINE g == getVolumeSizeGB(rg)
<1>2. g \in Nat /\ GB * g < Half /\ rg.req <= GB * g
  <2>1. CASE rg.req = 0
    BY <1>1, <2>1, ConstantsAssumption DEF getVolumeSizeGB
  <2>2. CASE rg.req # 0
    <3>1. g = RoundUpGB(rg.req)
      BY <1>1, <2>2 DEF getVolumeSizeGB
    <3>2. rg.req \in 1 .. Half - 1
      BY <1>1, <2>2, ConstantsAssumption
    <3> QED
      BY <3>1, <3>2, RoundUpCovers
  <2> QED
    BY <2>1, <2>2
<1>3. SizeGBToBytes(g) = GB * g
    BY <1>2, BytesExact
<1>4. rg.lim = 0 \/ SizeGBToBytes(g) <= rg.lim
  <2>1. rg.lim > 0 => ~(SizeGBToBytes(g) > rg.lim)
    BY <1>1 DEF BadRange, getVolumeSizeGB
  <2>2. GB * g \in Nat
    BY <1>2, ConstantsAssumption
  <2> QED
    BY <1>1, <1>3, <2>1, <2>2
<1> QED
    BY <1>2, <1>3, <1>4 DEF Fits, sizeInGBMeetCapRange

-----------------------------------------------------------------------------
\* The inductive invariant: the four properties together.  A volume that does
\* not exist has neither a goal nor an answer.
IInv == /\ TypeOK
        /\ AskedIsMet
        /\ ResizeIsGrowth
        /\ ServedIsEnough
        /\ size = 0 => goal = 0 /\ want = Nil /\ served = Nil

LEMMA InitIInv == Init => IInv
BY ConstantsAssumption
   DEF Init, IInv, TypeOK, AskedIsMet, ResizeIsGrowth, ServedIsEnough

LEMMA NextIInv == IInv /\ [Next]_vars => IInv'
<1> SUFFICES ASSUME IInv, [Next]_vars
             PROVE  IInv'
    OBVIOUS
<1> USE DEF IInv, TypeOK
<1>0. GB * 0 = 0 /\ 0 < Half
    BY ConstantsAssumption
<1>1. ASSUME NEW rg \in Range \cup {Nil}, Create(rg)
      PROVE  IInv'
  <2>1. CASE rg = Nil
    <3>1. size' = Default
      BY <1>1, <2>1 DEF Create, getVolumeSizeGB
    <3> QED
      BY <1>1, <2>1, <3>1, ConstantsAssumption
         DEF Create, AskedIsMet, ResizeIsGrowth, ServedIsEnough
  <2>2. CASE rg \in Range
    <3>1. /\ size' \in Nat /\ GB * size' < Half /\ size' > 0
          /\ Fits(size', rg) /\ sizeInGBMeetCapRange(size', rg)
      BY <1>1, <2>2, ComputedFits DEF Create
    <3> QED
      BY <1>1, <3>1 DEF Create, AskedIsMet, ResizeIsGrowth, ServedIsEnough, Fits
  <2> QED
    BY <2>1, <2>2
<1>2. ASSUME NEW rg \in Range \cup {Nil}, CreateAgain(rg)
      PROVE  IInv'
  <2>1. AskedIsMet' /\ ResizeIsGrowth'
    BY <1>2 DEF CreateAgain, AskedIsMet, ResizeIsGrowth
  <2>2. ServedIsEnough'
    <3>1. CASE rg = Nil
      BY <1>2, <3>1 DEF CreateAgain, ServedIsEnough
    <3>2. CASE rg \in Range
      <4>1. Fits(size, rg)
        BY <1>2, <3>2, ComputedFits DEF CreateAgain
      <4> QED
        BY <1>2, <4>1 DEF CreateAgain, ServedIsEnough, Fits
    <3> QED
      BY <3>1, <3>2
  <2> QED
    BY <1>2, <2>1, <2>2 DEF CreateAgain
<1>3. ASSUME NEW rg \in Range \cup {Nil}, ExpandIsDone(rg)
      PROVE  IInv'
  <2>1. AskedIsMet' /\ ResizeIsGrowth'
    BY <1>3 DEF ExpandIsDone, AskedIsMet, ResizeIsGrowth
  <2>2. SizeGBToBytes(size) = GB * size
    BY BytesExact
  <2>3. ServedIsEnough'
    BY <1>3, <2>2 DEF ExpandIsDone, ServedIsEnough, sizeInGBMeetCapRange
  <2> QED
    BY <1>3, <2>1, <2>3 DEF ExpandIsDone
<1>4. ASSUME NEW rg \in Range \cup {Nil}, ExpandResizes(rg)
      PROVE  IInv'
  <2> DEFINE g == getVolumeSizeGB(rg)
  <2>1. rg \in Range /\ ~BadRange(rg) /\ g >= size /\ size > 0
    BY <1>4 DEF ExpandResizes
  <2>2. g > 0
    <3>1. g \in Int
      <4>1. CASE rg.req = 0
        BY <4>1, ConstantsAssumption DEF getVolumeSizeGB
      <4>2. CASE rg.req # 0
        <5>1. rg # Nil /\ rg.req \in Nat
          BY <2>1, RangeTyped, ConstantsAssumption
        <5>2. \A i \in Int, n \in Nat \ {0} : i \div n \in Int /\ i % n \in Int
          OBVIOUS
        <5>3. GB \in Nat \ {0} /\ Half \in Nat \ {0} /\ 2 * Half \in Nat \ {0}
          BY ConstantsAssumption
        <5>4. Wrap(rg.req + GB - 1) \in Int
          BY <5>1, <5>2, <5>3 DEF Wrap
        <5>5. RoundUpGB(rg.req) \in Int
          BY <5>2, <5>3, <5>4 DEF RoundUpGB, Quotient
        <5> QED
          BY <4>2, <5>1, <5>5 DEF getVolumeSizeGB
      <4> QED
        BY <4>1, <4>2
    <3> QED
      BY <2>1, <3>1
  <2>3. /\ g \in Nat /\ GB * g < Half
        /\ Fits(g, rg) /\ sizeInGBMeetCapRange(g, rg)
    BY <2>1, <2>2, ComputedFits
  <2>4. g # size
    BY <1>4, <2>3 DEF ExpandResizes
  <2>5. ResizeIsGrowth'
    BY <1>4, <2>1, <2>3, <2>4 DEF ExpandResizes, ResizeIsGrowth
  <2>6. AskedIsMet'
    BY <1>4, <2>2, <2>3 DEF ExpandResizes, AskedIsMet
  <2> QED
    BY <1>4, <2>1, <2>3, <2>5, <2>6 DEF ExpandResizes, ServedIsEnough
<1>5. CASE Scaled
  <2>1. size' = goal /\ goal > size /\ goal' = 0 /\ goal \in Nat
    BY <1>5 DEF Scaled, ResizeIsGrowth
  <2>2. ServedIsEnough'
    <3>1. GB * size <= GB * goal /\ GB * size \in Nat /\ GB * goal \in Nat
      BY <2>1, BytesGrow
    <3>2. served # Nil => served.req \in Int
      BY RangeTyped, ConstantsAssumption
    <3> DEFINE a == GB * size
               b == GB * goal
    <3>3. a \in Nat /\ b \in Nat /\ a <= b
      BY <3>1
    <3>4. served # Nil => a >= served.req
      BY DEF ServedIsEnough
    <3> HIDE DEF a, b
    <3>5. served # Nil => b >= served.req
      BY <3>2, <3>3, <3>4
    <3> QED
      BY <1>5, <3>5 DEF Scaled, ServedIsEnough, b
  <2>3. AskedIsMet'
    BY <1>5 DEF Scaled, AskedIsMet
  <2> QED
    BY <1>0, <1>5, <2>1, <2>2, <2>3 DEF Scaled, ResizeIsGrowth
<1>6. CASE NotScaled
    BY <1>0, <1>6 DEF NotScaled, AskedIsMet, ResizeIsGrowth, ServedIsEnough
<1>7. CASE UNCHANGED vars
    BY <1>7 DEF vars, AskedIsMet, ResizeIsGrowth, ServedIsEnough
<1> QED
    BY <1>1, <1>2, <1>3, <1>4, <1>5, <1>6, <1>7 DEF Next

LEMMA SpecIInv == Spec => []IInv
BY InitIInv, NextIInv, PTL DEF Spec

\* Types, and a volume whose bytes are an int64.
THEOREM SizesAreInt64 == Spec => []TypeOK
BY SpecIInv, PTL DEF IInv

\* The size computed from a range lies in it and is seen to: repeating a request
\* ends in OK, and never in another resize.
THEOREM SizesAreMet == Spec => []AskedIsMet
BY SpecIInv, PTL DEF IInv

\* A resize request grows the volume.
THEOREM ResizesGrow == Spec => []ResizeIsGrowth
BY SpecIInv, PTL DEF IInv

\* What was answered OK stays answered.
THEOREM ServedStaysEnough == Spec => []ServedIsEnough
BY SpecIInv, PTL DEF IInv
=============================================================================
