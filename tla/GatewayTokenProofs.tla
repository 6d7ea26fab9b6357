------------------------- MODULE GatewayTokenProofs -------------------------
(***************************************************************************)
(* Theorems about GatewayToken, for every lifetime, number of retries and  *)
(* number of faults.                                                       *)
(***************************************************************************)
EXTENDS GatewayToken, TLAPS

-----------------------------------------------------------------------------
(* Time.                                                                   *)

\* Time passes for tokens and expiries, not for what is none.
LEMMA OlderTime ==
    /\ \A t \in Time : Older(t) \in Time
    /\ \A t \in Time : t # 0 => Older(t) = t - 1
    /\ Older(0) = 0
    /\ Older(Nil) = Nil
    /\ Older(Text) = Text
    /\ Older(Forever) = Forever
BY ConstantsAssumption, SMT DEF Older, Time, Forever

\* What is no time is none of the others.
LEMMA NoTimes ==
    /\ Nil \notin Time /\ Text \notin Time /\ Forever \notin Time
    /\ Nil # Forever /\ Text # Forever /\ Nil # Text
BY ConstantsAssumption, SMT DEF Time, Forever

\* The volume after a unit of time.
LEMMA OlderFiles ==
    ASSUME vol \in Files \cup {Nil}, vol # Nil
    PROVE  [token |-> Older(vol.token), expiry |-> Older(vol.expiry)] \in Files
BY OlderTime, SMT DEF Files

\* A fresh pair of files is one.
LEMMA FreshFiles == Fresh \in Files /\ Life \in Time
BY ConstantsAssumption, SMT DEF Fresh, Files, Time

-----------------------------------------------------------------------------
(* Type correctness.                                                       *)

\* A fault counts, and leaves its kind behind where it is a lasting one.
LEMMA FaultType ==
    ASSUME TypeOK, NEW kind, Fault(kind)
    PROVE  /\ faults' \in [n : 0 .. MaxFaults, kinds : SUBSET Lasting]
           /\ faults.kinds \subseteq faults'.kinds
           /\ kind \in Lasting => kind \in faults'.kinds
BY ConstantsAssumption, SMT DEF TypeOK, Fault

LEMMA InitType == Init => TypeOK
BY ConstantsAssumption, FreshFiles, SMT
   DEF Init, TypeOK, NoToken, Signer, Go, Work, Unsigned, Request, Time

LEMMA AgeType ==
    ASSUME TypeOK, Age
    PROVE  /\ vol' \in Files \cup {Nil}
           /\ signer' \in Signer
           /\ work' \in Work
           /\ req' \in Request
           /\ held' \subseteq Time
<1>1. vol' \in Files \cup {Nil}
  BY OlderFiles DEF TypeOK, Age
<1>2. signer' \in Signer
  BY OlderTime, SMT DEF TypeOK, Age, Signer
<1>3. work' \in Work
  BY OlderTime, SMT DEF TypeOK, Age, Go, Work
<1>4. req' \in Request
  BY OlderTime, SMT DEF TypeOK, Age, Request
<1>5. held' \subseteq Time
  BY OlderTime DEF TypeOK, Age
<1> QED BY <1>1, <1>2, <1>3, <1>4, <1>5

\* The headers of a signed request are those of a request, whatever the token is.
LEMMA HeadersType ==
    ASSUME TypeOK, WholeOrUntouched, NEW t \in Time \cup {Nil}, SetHeaders(t)
    PROVE  req' \in Request /\ req'.token = t /\ req'.remote = "origin"
           /\ req'.host = "gateway"
BY ConstantsAssumption, SMT
   DEF TypeOK, WholeOrUntouched, SetHeaders, Request, Unsigned, Time

\* An empty token is only read after the volume held one.
ReadInv ==
    "emptied" \notin faults.kinds
        => /\ vol # Nil => vol.token \in Time
           /\ work.pc = "expiry" => work.token \in Time

LEMMA NextType ==
    ASSUME TypeOK, WholeOrUntouched, [Next]_vars
    PROVE  TypeOK'
<1>1. CASE Tick
  <2>1. faults' \in [n : 0 .. MaxFaults, kinds : SUBSET Lasting]
    BY <1>1, FaultType DEF Tick, TypeOK
  <2> QED BY <1>1, <2>1, AgeType DEF Tick, TypeOK
<1>2. CASE Rotate
  BY <1>2, FreshFiles, SMT DEF Rotate, TypeOK
<1>3. CASE Spoil
  <2>1. faults' \in [n : 0 .. MaxFaults, kinds : SUBSET Lasting]
    BY <1>3, FaultType DEF Spoil
  <2>2. vol' \in Files \cup {Nil}
    BY <1>3, SMT DEF Spoil, TypeOK, Files
  <2> QED BY <1>3, <2>1, <2>2 DEF Spoil, TypeOK
<1>4. CASE SignWithCached
  <2>1. signer.Token \in Time
    BY <1>4, SMT DEF SignWithCached, StillValid, TypeOK, Signer
  <2>2. req' \in Request
    BY <1>4, <2>1, HeadersType DEF SignWithCached
  <2> QED BY <1>4, <2>2, SMT DEF SignWithCached, TypeOK, Go, Work
<1>5. CASE Refresh
  BY <1>5, SMT DEF Refresh, TypeOK, Go, Work
<1>6. CASE ReadToken
  BY <1>6, SMT DEF ReadToken, Sent, TypeOK, Go, Work, Files
<1>7. CASE ReadExpiry
  <2>1. work' \in Work
    BY <1>7, SMT DEF ReadExpiry, KeepToken, Sent, Go, TypeOK, Work
  <2>2. CASE /\ UNCHANGED req
             /\ \/ UNCHANGED signer
                \/ \E e \in {0, Forever} : signer' = [signer EXCEPT !.ExpiredAt = e]
    <3>1. signer' \in Signer
      BY <2>2, ConstantsAssumption, SMT DEF TypeOK, Signer, Time
    <3> QED BY <1>7, <2>1, <2>2, <3>1 DEF ReadExpiry, KeepToken, TypeOK
  <2>3. CASE SetHeaders(work.token) /\ signer' = [Token |-> work.token, ExpiredAt |-> vol.expiry]
             /\ vol # Nil /\ vol.expiry \notin {Text, Forever}
    <3>1. work.token \in Time \cup {Nil}
      BY SMT DEF TypeOK, Work
    <3>2. req' \in Request
      BY <2>3, <3>1, HeadersType
    <3>3. signer' \in Signer
      BY <2>3, <3>1, SMT DEF TypeOK, Signer, Files
    <3> QED BY <1>7, <2>1, <3>2, <3>3 DEF ReadExpiry, KeepToken, TypeOK
  <2> QED BY <1>7, <2>2, <2>3 DEF ReadExpiry, KeepToken
<1>8. CASE Answer
  <2>1. faults' \in [n : 0 .. MaxFaults, kinds : SUBSET Lasting]
    BY <1>8, FaultType DEF Answer, TypeOK
  <2>2. work' \in Work
    BY <1>8, SMT DEF Answer, TypeOK, Go, Work
  <2> QED BY <1>8, <2>1, <2>2 DEF Answer, TypeOK
<1>9. CASE Retry
  BY <1>9, ConstantsAssumption, SMT DEF Retry, TypeOK, Go, Work
<1>10. CASE NextRequest
  BY <1>10, ConstantsAssumption, SMT DEF NextRequest, TypeOK, Go, Work, Unsigned, Request
<1>11. CASE NewCall
  <2>1. work' \in Work /\ req' \in Request
    BY <1>11, ConstantsAssumption, SMT DEF NewCall, TypeOK, Go, Work, Unsigned, Request
  <2>2. signer' \in Signer
    BY <1>11, ConstantsAssumption, SMT DEF NewCall, NoToken, Signer, Time
  <2>3. held' \subseteq Time
    BY <1>11, SMT DEF NewCall, TypeOK, Files
  <2> QED BY <1>11, <2>1, <2>2, <2>3 DEF NewCall, TypeOK
<1>12. CASE UNCHANGED vars
  BY <1>12 DEF vars, TypeOK
<1> QED BY <1>1, <1>2, <1>3, <1>4, <1>5, <1>6, <1>7, <1>8, <1>9, <1>10, <1>11, <1>12
        DEF Next, Call, Sign

-----------------------------------------------------------------------------
(* The safety invariant.                                                   *)

\* What the volume holds, what has been read of it and what is used of that was
\* all in the volume during the call.
HeldInv ==
    /\ vol # Nil => vol.token \in held \cup {Nil}
    /\ work.token \in held \cup {Nil}
    /\ TokenOfThisCall

\* While the volume is rotated in time, a token that has been read is not expired
\* when its expiry is read.
RotationInv ==
    "late_rotation" \notin faults.kinds
        => /\ vol # Nil /\ vol.token # Nil => vol.token >= Margin
           /\ work.pc = "expiry" /\ work.token # Nil => work.token >= Margin - work.age

Inv == TypeOK /\ ReadInv /\ WholeOrUntouched /\ HeldInv /\ RotationInv

LEMMA InitInv == Init => Inv
<1> SUFFICES ASSUME Init PROVE Inv
  OBVIOUS
<1>1. TypeOK
  BY InitType
<1>2. ReadInv /\ WholeOrUntouched
  BY FreshFiles, SMT DEF Init, ReadInv, WholeOrUntouched, Fresh
<1>3. HeldInv
  BY DEF Init, HeldInv, TokenOfThisCall, Fresh, NoToken, Unsigned
<1>4. RotationInv
  BY ConstantsAssumption, SMT DEF Init, RotationInv, Fresh, Margin
<1> QED BY <1>1, <1>2, <1>3, <1>4 DEF Inv

\* The kinds of faults are never forgotten.
LEMMA KindsKept ==
    ASSUME Inv, [Next]_vars
    PROVE  faults.kinds \subseteq faults'.kinds
BY FaultType DEF Next, Tick, Rotate, Spoil, Call, Sign, SignWithCached, Refresh, ReadToken,
                 ReadExpiry, KeepToken, Answer, Retry, NextRequest, NewCall, Inv, vars

LEMMA NextRead ==
    ASSUME Inv, [Next]_vars
    PROVE  ReadInv'
<1> SUFFICES ASSUME "emptied" \notin faults'.kinds
             PROVE  /\ (vol # Nil => vol.token \in Time)'
                    /\ (work.pc = "expiry" => work.token \in Time)'
  BY DEF ReadInv
<1>1. /\ vol # Nil => vol.token \in Time
      /\ work.pc = "expiry" => work.token \in Time
  BY KindsKept DEF Inv, ReadInv
<1>2. CASE Tick
  BY <1>1, <1>2, OlderTime, SMT DEF Tick, Age, Go
<1>3. CASE Rotate
  BY <1>1, <1>3, FreshFiles, SMT DEF Rotate, Fresh
<1>4. CASE Spoil
  <2>1. ~Fault("emptied")
    BY FaultType DEF Inv, Lasting
  <2> QED BY <1>1, <1>4, <2>1, SMT DEF Spoil, Inv, TypeOK, Files
<1>5. CASE ReadToken
  BY <1>1, <1>5, SMT DEF ReadToken, Sent, Go
<1>6. CASE SignWithCached \/ Refresh \/ ReadExpiry \/ Answer \/ Retry \/ NextRequest \/ NewCall
  BY <1>1, <1>6, SMT DEF SignWithCached, Refresh, ReadExpiry, KeepToken, Answer, Retry, NextRequest,
                         NewCall, Sent, Go
<1>7. CASE UNCHANGED vars
  BY <1>1, <1>7 DEF vars
<1> QED BY <1>2, <1>3, <1>4, <1>5, <1>6, <1>7 DEF Next, Call, Sign

LEMMA NextWhole ==
    ASSUME Inv, [Next]_vars
    PROVE  WholeOrUntouched'
<1>1. CASE Tick
  <2>1. req' = [req EXCEPT !.token = Older(@)]
    BY <1>1 DEF Tick, Age
  <2>2. CASE req = Unsigned
    BY <2>1, <2>2, OlderTime, SMT DEF Unsigned, WholeOrUntouched
  <2>3. CASE req # Unsigned
    <3>1. req.token # Nil => Older(req.token) # Nil
      BY OlderTime, NoTimes, SMT DEF Inv, TypeOK, Request
    <3> QED BY <2>1, <2>3, <3>1, KindsKept, SMT DEF WholeOrUntouched, Inv, TypeOK, Request
  <2> QED BY <2>2, <2>3
<1>2. CASE UNCHANGED req
  BY <1>2, KindsKept DEF Inv, WholeOrUntouched
<1>3. CASE NextRequest \/ NewCall
  BY <1>3 DEF NextRequest, NewCall, WholeOrUntouched
<1>4. ASSUME NEW t \in Time \cup {Nil}, SetHeaders(t), t # Nil \/ "emptied" \in faults.kinds
      PROVE  WholeOrUntouched'
  BY <1>4, HeadersType, KindsKept DEF Inv, WholeOrUntouched
<1>5. CASE SignWithCached
  <2>1. signer.Token \in Time
    BY <1>5, SMT DEF SignWithCached, StillValid, Inv, TypeOK, Signer
  <2> QED BY <1>4, <1>5, <2>1, NoTimes DEF SignWithCached
<1>6. CASE ReadExpiry
  <2>1. work.token \in Time \cup {Nil}
    BY SMT DEF Inv, TypeOK, Work
  <2>2. work.token # Nil \/ "emptied" \in faults.kinds
    BY <1>6, NoTimes DEF ReadExpiry, Inv, ReadInv
  <2> QED BY <1>2, <1>4, <1>6, <2>1, <2>2 DEF ReadExpiry, KeepToken
<1> QED BY <1>1, <1>2, <1>3, <1>5, <1>6
        DEF Next, Call, Sign, Rotate, Spoil, Refresh, ReadToken, Answer, Retry, vars

LEMMA NextHeld ==
    ASSUME Inv, [Next]_vars
    PROVE  HeldInv'
<1>1. CASE Tick
  <2>1. \A t : t \in held \cup {Nil} => Older(t) \in held' \cup {Nil}
    BY <1>1, OlderTime DEF Tick, Age
  <2>2. (vol # Nil => vol.token \in held \cup {Nil})'
    BY <1>1, <2>1, SMT DEF Tick, Age, Inv, HeldInv
  <2>3. work'.token = Older(work.token) /\ signer'.Token = Older(signer.Token)
        /\ req'.token = Older(req.token)
    BY <1>1, SMT DEF Tick, Age, Go, Inv, TypeOK, Request
  <2> QED BY <2>1, <2>2, <2>3 DEF Inv, HeldInv, TokenOfThisCall
<1>2. CASE Rotate
  BY <1>2, SMT DEF Rotate, Fresh, Inv, HeldInv, TokenOfThisCall
<1>3. CASE Spoil
  BY <1>3, SMT DEF Spoil, Inv, TypeOK, Files, HeldInv, TokenOfThisCall
<1>4. CASE SignWithCached
  BY <1>4, SMT DEF SignWithCached, SetHeaders, Go, Inv, HeldInv, TokenOfThisCall
<1>5. CASE Refresh
  BY <1>5, SMT DEF Refresh, Go, Inv, HeldInv, TokenOfThisCall
<1>6. CASE ReadToken
  BY <1>6, SMT DEF ReadToken, Sent, Go, Inv, HeldInv, TokenOfThisCall
<1>7. CASE ReadExpiry
  BY <1>7, SMT DEF ReadExpiry, KeepToken, SetHeaders, Sent, Go, Inv, TypeOK, Signer, HeldInv, TokenOfThisCall
<1>8. CASE Answer \/ Retry
  BY <1>8, SMT DEF Answer, Retry, Go, Inv, HeldInv, TokenOfThisCall
<1>9. CASE NextRequest \/ NewCall
  BY <1>9, SMT DEF NextRequest, NewCall, Go, Unsigned, NoToken, Inv, HeldInv, TokenOfThisCall
<1>10. CASE UNCHANGED vars
  BY <1>10 DEF vars, Inv, HeldInv, TokenOfThisCall
<1> QED BY <1>1, <1>2, <1>3, <1>4, <1>5, <1>6, <1>7, <1>8, <1>9, <1>10 DEF Next, Call, Sign

LEMMA NextRotation ==
    ASSUME Inv, [Next]_vars
    PROVE  RotationInv'
<1> SUFFICES ASSUME "late_rotation" \notin faults'.kinds
             PROVE  /\ (vol # Nil /\ vol.token # Nil => vol.token >= Margin)'
                    /\ (work.pc = "expiry" /\ work.token # Nil
                           => work.token >= Margin - work.age)'
  BY DEF RotationInv
<1>1. "late_rotation" \notin faults.kinds
  BY KindsKept
<1>2. /\ vol # Nil /\ vol.token # Nil => vol.token >= Margin
      /\ work.pc = "expiry" /\ work.token # Nil => work.token >= Margin - work.age
  BY <1>1 DEF Inv, RotationInv
<1>3. CASE Tick
  <2>1. ~Fault("late_rotation")
    BY FaultType DEF Inv, Lasting
  <2>2. vol # Nil /\ vol.token # Nil => vol.token > Margin
    BY <1>3, <2>1 DEF Tick, InTime
  <2>3. (vol # Nil /\ vol.token # Nil => vol.token >= Margin)'
    BY <1>3, <2>2, OlderTime, SMT DEF Tick, Age, Inv, TypeOK, Files, Time, Margin
  <2>4. work'.pc = "expiry" /\ work'.token # Nil
          => /\ work.token \in Time /\ work.token >= Margin
             /\ work'.token = work.token - 1 /\ work'.age = 1
    BY <1>2, <1>3, OlderTime, SMT DEF Tick, Age, Go, Inv, TypeOK, Work, Time, Margin
  <2> QED BY <2>3, <2>4, SMT DEF Time, Margin
<1>4. CASE Rotate
  BY <1>2, <1>4, ConstantsAssumption, SMT DEF Rotate, Fresh, Margin
<1>5. CASE Spoil
  BY <1>2, <1>5, SMT DEF Spoil, Inv, TypeOK, Files
<1>6. CASE ReadToken
  BY <1>2, <1>6, SMT DEF ReadToken, Sent, Go, Inv, TypeOK, Work, Files, Time, Margin
<1>7. CASE SignWithCached \/ Refresh \/ ReadExpiry \/ Answer \/ Retry \/ NextRequest \/ NewCall
  BY <1>2, <1>7, SMT DEF SignWithCached, Refresh, ReadExpiry, KeepToken, Answer, Retry, NextRequest,
                         NewCall, Sent, Go
<1>8. CASE UNCHANGED vars
  BY <1>2, <1>8 DEF vars
<1> QED BY <1>3, <1>4, <1>5, <1>6, <1>7, <1>8 DEF Next, Call, Sign

LEMMA NextInv == Inv /\ [Next]_vars => Inv'
<1> SUFFICES ASSUME Inv, [Next]_vars PROVE Inv'
  OBVIOUS
<1>1. TypeOK'
  BY NextType DEF Inv
<1> QED BY <1>1, NextRead, NextWhole, NextHeld, NextRotation DEF Inv

-----------------------------------------------------------------------------
(* Theorems.                                                               *)

\* Inv holds in every state.
LEMMA Invariant == Spec => []Inv
<1>1. Init => Inv
  BY InitInv
<1>2. Inv /\ [Next]_vars => Inv'
  BY NextInv
<1> QED BY <1>1, <1>2, PTL DEF Spec

\* Every variable keeps its type.
THEOREM TypeCorrect == Spec => []TypeOK
<1>1. Inv => TypeOK
  BY DEF Inv
<1> QED BY <1>1, Invariant, PTL

\* A request is sent signed for the gateway or as it was made, after any number of
\* retries and failing refreshes.
THEOREM NothingInBetween == Spec => []WholeOrUntouched
<1>1. Inv => WholeOrUntouched
  BY DEF Inv
<1> QED BY <1>1, Invariant, PTL

\* No token outlives the call that read it by having been replaced before it.
THEOREM TokensEndWithCalls == Spec => []TokenOfThisCall
<1>1. Inv => TokenOfThisCall
  BY DEF Inv, HeldInv
<1> QED BY <1>1, Invariant, PTL

\* A step that signs uses the cached token, or the one just read.
LEMMA SigningStep ==
    ASSUME Inv, [Next]_vars, work.pc # "sent", work'.pc = "sent",
           req'.token \notin {Nil, req.token}
    PROVE  req'.token > 0 \/ Mixed' \/ "late_rotation" \in faults.kinds
<1>1. CASE SignWithCached
  <2>1. signer.Token \in Time /\ signer.ExpiredAt > 0
    BY <1>1, SMT DEF SignWithCached, StillValid, Inv, TypeOK, Signer
  <2>2. req'.token = signer.Token /\ signer' = signer
    BY <1>1 DEF SignWithCached, SetHeaders
  <2> QED BY <2>1, <2>2, SMT DEF Mixed, Time
<1>2. CASE ReadExpiry
  <2>1. req'.token = work.token
    BY <1>2 DEF ReadExpiry, KeepToken, SetHeaders
  <2>2. work.pc = "expiry" /\ work.token \in Time /\ work.age \in 0 .. 1
    BY <1>2, <2>1, SMT DEF ReadExpiry, Inv, TypeOK, Work
  <2>3. "late_rotation" \notin faults.kinds => work.token >= Margin - work.age
    BY <2>2, NoTimes DEF Inv, RotationInv
  <2> QED BY <2>1, <2>2, <2>3, SMT DEF Time, Margin
<1>3. CASE Tick
  BY <1>3 DEF Tick, Age, Go
<1>4. CASE UNCHANGED req
  BY <1>4
<1>5. CASE NextRequest \/ NewCall
  BY <1>5 DEF NextRequest, NewCall, Go
<1> QED BY <1>1, <1>2, <1>3, <1>4, <1>5
        DEF Next, Call, Sign, Rotate, Spoil, Refresh, ReadToken, Answer, Retry, vars

\* While the volume is rotated in time, only a pair of files mixed up by a rotation
\* makes a signer use an expired token.
THEOREM SignedWhileLive == Spec => SignedIsLive
<1>1. Inv /\ [Next]_vars
      => [work.pc # "sent" /\ work'.pc = "sent" /\ req'.token \notin {Nil, req.token}
             => req'.token > 0 \/ Mixed' \/ "late_rotation" \in faults.kinds]_vars
  BY SigningStep
<1> QED BY <1>1, Invariant, PTL DEF Spec, SignedIsLive
=============================================================================
