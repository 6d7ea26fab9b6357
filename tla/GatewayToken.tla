---------------------------- MODULE GatewayToken ----------------------------
(***************************************************************************)
(* The signer of the CCE gateway (pkg/cloud/ccegateway/bcesigner.go) as    *)
(* the CDS controller uses it: every call of a sidecar makes a signer of   *)
(* its own (cds/controller.go:84, cloud/auth.go:90), sends one request     *)
(* after the other with it, and lets the SDK sign a request again when it  *)
(* retries.  The token and its expiry are two files of a volume, rotated   *)
(* while the signer reads them.                                            *)
(*                                                                         *)
(* A token is named by the time it has left; Tick makes all of them older. *)
(* A token with no time left is expired, and so is an expiry.  What the    *)
(* plugin left in the files may also be an empty token, or an expiry that  *)
(* is no number or one too large for an int64.                             *)
(***************************************************************************)
EXTENDS Naturals, FiniteSets

CONSTANTS
    Life,        \* the lifetime of a token, in units of time
    MaxRetries,  \* bound on how often the SDK retries a request
    Nil,         \* no token, an empty token, no files
    Text,        \* what the expiry file holds when it is no number
    Faults,      \* the kinds of faults the environment may produce
    MaxFaults    \* bound on the number of faults in a behaviour

FaultKinds == {"withdrawn", "emptied", "garbled", "huge", "late_rotation", "lost_reply"}

\* The token in the volume is replaced while it has this much time left.
Margin == 2

ASSUME ConstantsAssumption ==
    /\ Life \in Nat /\ Life > Margin
    /\ MaxRetries \in Nat /\ MaxFaults \in Nat
    /\ Nil \notin Nat /\ Text \notin Nat /\ Nil # Text
    /\ Faults \subseteq FaultKinds

VARIABLES
    vol,         \* the two files of the token volume, or Nil
    signer,      \* the bceSigner of the call under way
    work,        \* where the call is, and what Sign has read so far
    req,         \* the headers of the request under way
    held,        \* history: the tokens the volume has held during the call
    faults       \* the number of faults so far, and which lasting kinds

vars == <<vol, signer, work, req, held, faults>>

-----------------------------------------------------------------------------
(* Data.                                                                   *)

Time == 0 .. Life

\* An expiry beyond every int64, and the largest int64: no time makes it less.
Forever == Life + 1

Files == [token : Time \cup {Nil}, expiry : Time \cup {Text, Forever}]

Fresh == [token |-> Life, expiry |-> Life]

Signer == [Token : Time \cup {Nil}, ExpiredAt : Time \cup {Forever}]

\* NewBCESigner.
NoToken == [Token |-> Nil, ExpiredAt |-> 0]

\* pc "sign": the SDK calls Sign next.  age: the units of time since then.
Work == [pc : {"sign", "token", "expiry", "sent", "accepted", "refused"},
         token : Time \cup {Nil}, age : 0 .. 1, tries : 0 .. MaxRetries]

Go(pc, token, age, tries) ==
    work' = [pc |-> pc, token |-> token, age |-> age, tries |-> tries]

\* The headers cce-token and cce-remote-host, and where the request goes.
Request == [token : Time \cup {Nil}, remote : {"origin", Nil},
            host : {"origin", "gateway"}]

Unsigned == [token |-> Nil, remote |-> Nil, host |-> "origin"]

Lasting == {"late_rotation", "emptied"}

Fault(kind) ==
    /\ kind \in Faults
    /\ faults.n < MaxFaults
    /\ faults' = [n |-> faults.n + 1, kinds |-> faults.kinds \cup ({kind} \cap Lasting)]

Init ==
    /\ vol = Fresh
    /\ signer = NoToken
    /\ work = [pc |-> "sign", token |-> Nil, age |-> 0, tries |-> 0]
    /\ req = Unsigned
    /\ held = {Life}
    /\ faults = [n |-> 0, kinds |-> {}]

-----------------------------------------------------------------------------
(* The environment: time, and the plugin that writes the token.            *)

\* One unit of time less, for a token, an expiry, or neither.
Older(t) == IF t \in 1 .. Life THEN t - 1 ELSE t

Age ==
    /\ vol' = IF vol = Nil THEN Nil
              ELSE [token |-> Older(vol.token), expiry |-> Older(vol.expiry)]
    /\ signer' = [Token |-> Older(signer.Token), ExpiredAt |-> Older(signer.ExpiredAt)]
    /\ Go(work.pc, Older(work.token), 1, work.tries)
    /\ req' = [req EXCEPT !.token = Older(@)]
    /\ held' = {Older(t) : t \in held}

\* The volume need not be rotated before a unit of time has passed.
InTime == vol # Nil /\ vol.token # Nil => vol.token > Margin

\* Signing and sending a request takes less than a unit.
Tick ==
    /\ work.pc \in {"token", "expiry", "sent"} => work.age = 0
    /\ Age
    /\ \/ InTime /\ UNCHANGED faults
       \/ Fault("late_rotation")

\* The plugin replaces both files at once.
Rotate ==
    /\ vol # Fresh
    /\ vol' = Fresh
    /\ held' = held \cup {Life}
    /\ UNCHANGED <<signer, work, req, faults>>

\* The files disappear, the token is empty, or the expiry is not a number or no int64.
Spoil ==
    /\ \/ vol' = Nil /\ Fault("withdrawn")
       \/ vol # Nil /\ vol' = [vol EXCEPT !.token = Nil] /\ Fault("emptied")
       \/ vol # Nil /\ vol' = [vol EXCEPT !.expiry = Text] /\ Fault("garbled")
       \/ vol # Nil /\ vol' = [vol EXCEPT !.expiry = Forever] /\ Fault("huge")
    /\ UNCHANGED <<signer, work, req, held>>

-----------------------------------------------------------------------------
(* Sign.                                                                   *)

\* Mutant of SetHeaders: the host is moved to cce-remote-host on every retry.
SetHeadersAgain(t) ==
    req' = [token |-> t, remote |-> req.host, host |-> "gateway"]

\* The headers of a signed request; the host is moved only once.
SetHeaders(t) ==
    req' = [token |-> t,
            remote |-> IF req.host = "gateway" THEN req.remote ELSE req.host,
            host |-> "gateway"]

\* Sign returns, with the headers set or, after an error, as they were.
Sent == Go("sent", Nil, work.age, work.tries)

\* Mutant of StillValid: a token is used at its expiry.
StillValidLate == signer.Token # Nil /\ signer.ExpiredAt >= 0

StillValid == signer.Token # Nil /\ signer.ExpiredAt > 0

\* ensureToken: "Our token is still valid, just use it."
SignWithCached ==
    /\ work.pc = "sign"
    /\ StillValid
    /\ SetHeaders(signer.Token)
    /\ Go("sent", Nil, 0, work.tries)
    /\ UNCHANGED <<vol, signer, held, faults>>

\* ensureToken goes to the volume ...
Refresh ==
    /\ work.pc = "sign"
    /\ ~StillValid
    /\ Go("token", Nil, 0, work.tries)
    /\ UNCHANGED <<vol, signer, req, held, faults>>

\* ... reads the token ...
ReadToken ==
    /\ work.pc = "token"
    /\ IF vol = Nil
       THEN Sent
       ELSE Go("expiry", vol.token, work.age, work.tries)
    /\ UNCHANGED <<vol, signer, req, held, faults>>

\* What ensureToken keeps of the two texts.  ParseInt gives 0 for an expiry that is no
\* number and the largest int64 for one beyond it, and an error for both, after which
\* the signer has the new expiry and the token it had before.
KeepToken(token, expiry) ==
    \/ /\ expiry \in {Text, Forever}
       /\ signer' = [signer EXCEPT !.ExpiredAt = IF expiry = Text THEN 0 ELSE Forever]
       /\ UNCHANGED req
    \/ /\ expiry \notin {Text, Forever}
       /\ signer' = [Token |-> token, ExpiredAt |-> expiry]
       /\ SetHeaders(token)

\* ... and reads the expiry.
ReadExpiry ==
    /\ work.pc = "expiry"
    /\ Sent
    /\ \/ vol = Nil /\ UNCHANGED <<signer, req>>
       \/ vol # Nil /\ KeepToken(work.token, vol.expiry)
    /\ UNCHANGED <<vol, held, faults>>

-----------------------------------------------------------------------------
(* The SDK, the gateway and the sidecar.                                   *)

\* The gateway passes on what carries a valid token and the host to pass it to; an
\* unsigned request is refused by that host.
Good == req.token \notin {Nil, 0} /\ req.host = "gateway" /\ req.remote = "origin"

Answer ==
    /\ work.pc = "sent"
    /\ \/ /\ Go(IF Good THEN "accepted" ELSE "refused", Nil, work.age, work.tries)
          /\ UNCHANGED faults
       \/ /\ Go("refused", Nil, work.age, work.tries)
          /\ Fault("lost_reply")
    /\ UNCHANGED <<vol, signer, req, held>>

\* The SDK signs the same request again.
Retry ==
    /\ work.pc = "refused"
    /\ work.tries < MaxRetries
    /\ Go("sign", Nil, work.age, work.tries + 1)
    /\ UNCHANGED <<vol, signer, req, held, faults>>

\* The call goes on with another request.
NextRequest ==
    /\ work.pc = "accepted"
    /\ Go("sign", Nil, work.age, 0)
    /\ req' = Unsigned
    /\ UNCHANGED <<vol, signer, held, faults>>

\* Mutant of NewCall: the signer is shared by all calls.
NewCallShared ==
    /\ work.pc \in {"accepted", "refused"}
    /\ Go("sign", Nil, work.age, 0)
    /\ req' = Unsigned
    /\ held' = IF vol = Nil THEN {} ELSE {vol.token} \ {Nil}
    /\ UNCHANGED <<vol, signer, faults>>

\* getAuth: the next call, or the same one repeated, makes a signer.
NewCall ==
    /\ work.pc \in {"accepted", "refused"}
    /\ Go("sign", Nil, work.age, 0)
    /\ req' = Unsigned
    /\ signer' = NoToken
    /\ held' = IF vol = Nil THEN {} ELSE {vol.token} \ {Nil}
    /\ UNCHANGED <<vol, faults>>

-----------------------------------------------------------------------------
Sign == SignWithCached \/ Refresh \/ ReadToken \/ ReadExpiry

Call == Sign \/ Answer \/ Retry \/ NextRequest \/ NewCall

Next == Tick \/ Rotate \/ Spoil \/ Call

Spec == Init /\ [][Next]_vars

\* Requests return, the sidecars repeat what failed, and the plugin rotates.
FairSpec == Spec /\ WF_vars(Call) /\ WF_vars(Rotate)

-----------------------------------------------------------------------------
(* Properties.                                                             *)

\* Every variable keeps its type.
TypeOK ==
    /\ vol \in Files \cup {Nil}
    /\ signer \in Signer
    /\ work \in Work
    /\ req \in Request
    /\ held \subseteq Time
    /\ faults \in [n : 0 .. MaxFaults, kinds : SUBSET Lasting]

\* However often a request is signed again, and whatever fails in between, it either
\* goes to the gateway with a token and the name of the host it was made for, or it
\* is as the SDK made it: nothing in between is ever sent.  An empty token file is
\* taken, and gives a request for the gateway without a token.
WholeOrUntouched ==
    \/ req = Unsigned
    \/ /\ req.host = "gateway" /\ req.remote = "origin"
       /\ req.token # Nil \/ "emptied" \in faults.kinds

\* No token is used that was replaced before the call began: what a signer caches,
\* and what a rotation between its two reads mixes up, ends with its call.
TokenOfThisCall ==
    /\ signer.Token \in held \cup {Nil}
    /\ req.token \in held \cup {Nil}

\* The token in the signer and its expiry come from different pairs of files, by a
\* rotation between the two reads or by an expiry that is no int64.
Mixed == signer.Token # signer.ExpiredAt

\* As long as the volume is rotated in time, no request is given an expired token,
\* unless the signer trusts the expiry of another pair of files.
SignedIsLive ==
    [][work.pc # "sent" /\ work'.pc = "sent" /\ req'.token \notin {Nil, req.token}
        => req'.token > 0 \/ Mixed' \/ "late_rotation" \in faults.kinds]_vars

\* Whatever has been lost, spoiled or mixed up, some request is accepted again and
\* again: no signer keeps a controller out for good.
EventuallyAccepted == []<>(work.pc = "accepted")
=============================================================================
