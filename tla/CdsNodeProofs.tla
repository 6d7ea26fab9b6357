--------------------------- MODULE CdsNodeProofs ---------------------------
(***************************************************************************)
(* Proofs about CdsNode, for any number of handlers and of faults: types;  *)
(* that, unless something of an earlier attachment is left over, a volume  *)
(* is formatted once and an expansion that was answered OK has reached the *)
(* file system; and, while no handler outlives its call, that the paths    *)
(* show what the kubelet was told.                                         *)
(***************************************************************************)
EXTENDS CdsNode, SequenceTheorems, TLAPS

USE ConstantsAssumption
    DEF ConstantsAssumption, Handler, NoHandler, Phases, Growths, Lasting,
        FaultKinds, Expansions

FileSystems == {"raw", "blank", "made", "grown", "lost"}

\* A file system is on the volume.
Formatted(f) == f \in {"made", "grown"}

\* The requests that follow the lookup of the device.
WithDevice == {"path", "check", "blkid", "mkfs", "mount"}

\* The volume is attached as d, and nothing of an earlier attachment is left over; so
\* say the faults that last.
Intact(d, lasting) == d # Nil /\ "leftover" \notin lasting

\* What a handler k knows of the volume's device d and its name n in the cloud, of the
\* file system f and of an expansion g: what stage has found out is still true, as it
\* holds the lock of that name; what expand has found out, as file systems are neither
\* unmade nor made smaller.
Sound(k, d, n, f, g, lasting) ==
    /\ k.op = "idle" => k.pc = "OK"
    /\ k.held => k.op = "stage" /\ k.key \in Devs
    /\ k.op = "stage" /\ k.pc \notin {"OK", "Internal"} =>
          /\ f # "raw" /\ k.key \in Devs
          /\ k.pc # "lock" => k.held
          /\ k.pc \in WithDevice => k.src \in Devs
          /\ Intact(d, lasting) =>
                /\ k.key = n
                /\ k.pc \in WithDevice => k.src = d
                /\ k.pc = "mkfs" => f = "blank"
                /\ k.pc = "mount" => Formatted(f)
    /\ k.op = "publish" /\ f = "raw" /\ k.pc \in WithDevice =>
          /\ k.src \in Devs
          /\ Intact(d, lasting) => k.src = d
    /\ k.op \in Expansions =>
          /\ g # "none"
          /\ k.pc \in {"check", "size", "resize"} => f # "raw"
          /\ k.ctx /\ Intact(d, lasting) /\ "bare" \notin lasting =>
                /\ k.pc = "size" => k.src = Nil \/ (k.src = d /\ Formatted(f))
                /\ k.pc = "resize" => k.src = d /\ Formatted(f) /\ g \in {"seen", "told"}
                /\ k.pc = "OK" => f \in {"raw", "grown"}

\* A volume that is mounted somewhere has a file system, or is a block volume; and
\* nothing else is mounted, but for a bare directory.
MountInv ==
    /\ staging \in [there : BOOLEAN, stack : Seq(Devs)]
    /\ target \in Path
    /\ Intact(dev, faults.kinds) =>
          /\ staging.stack # << >> => Formatted(fs)
          /\ \A i \in DOMAIN staging.stack : staging.stack[i] = dev
          /\ \A i \in DOMAIN target.stack :
                \/ target.stack[i] = dev /\ fs # "blank"
                \/ target.stack[i] = Bare /\ BareShown

\* A lock is held by the handler that took it, and by no other.
LockInv ==
    /\ lock = {call[c].key : c \in {d \in Calls : call[d].held}}
    /\ \A c, d \in Calls : call[c].held /\ call[d].held /\ call[c].key = call[d].key
                             => c = d

CallInv ==
    /\ call \in [Calls -> Handler]
    /\ \A c \in Calls : Sound(call[c], dev, name, fs, growth, faults.kinds)

PlainInv ==
    /\ dev \in Devs \cup {Nil} /\ name \in Devs \cup {Nil}
    /\ dev # Nil => name # Nil
    /\ fs \in FileSystems
    /\ phase \in Phases
    /\ growth \in Growths
    /\ faults \in [n : 0 .. MaxFaults, kinds : SUBSET Lasting]

\* One caller waits at a time, and the phase is the one of its call.
CallerInv ==
    /\ phase # "idle" => dev # Nil
    /\ \A c, d \in Calls : call[c].ctx /\ call[d].ctx => c = d
    /\ \A c \in Calls : call[c].ctx =>
          \/ call[c].op \in Ops /\ phase = During(call[c].op)
          \/ call[c].op = "expand_staged" /\ phase = "staged"
          \/ call[c].op = "expand_published" /\ phase = "published"

IInv ==
    PlainInv /\ MountInv /\ LockInv /\ CallInv /\ NeverReformatted /\ ExpandedIsGrown

-----------------------------------------------------------------------------
(* What the helpers promise.                                               *)

\* The file system and an expansion only ever go on.
GoesOn(f, g, f2, g2) ==
    /\ f2 = f \/ (f = "made" /\ f2 = "grown")
    /\ g2 = g \/ (g = "none" /\ g2 = "asked") \/ (g = "asked" /\ g2 = "seen")
              \/ g2 = "told"

LEMMA SoundStays ==
    ASSUME NEW k \in Handler, NEW d, NEW n, NEW f, NEW g, NEW l,
           NEW f2, NEW g2, NEW l2,
           Sound(k, d, n, f, g, l), GoesOn(f, g, f2, g2), l \subseteq l2
    PROVE  Sound(k, d, n, f2, g2, l2)
<1>1. Intact(d, l2) => Intact(d, l)
  BY DEF Intact
<1>2. "bare" \notin l2 => "bare" \notin l
  OBVIOUS
<1> QED BY <1>1, <1>2 DEF Sound, GoesOn, Formatted, WithDevice

\* A handler that is finished, or has not begun, knows nothing.
LEMMA SoundAgain ==
    ASSUME NEW k \in Handler, NEW d, NEW n, NEW f, NEW g, NEW l, Sound(k, d, n, f, g, l),
           NEW d2, NEW n2, NEW l2, k.op \notin {"stage", "publish"}, ~k.ctx
    PROVE  Sound(k, d2, n2, f, g, l2)
BY DEF Sound

LEMMA FaultTyped ==
    ASSUME PlainInv, NEW kind, Fault(kind), kind # "leftover", kind # "bare"
    PROVE  /\ faults' \in [n : 0 .. MaxFaults, kinds : SUBSET Lasting]
           /\ faults.kinds \subseteq faults'.kinds
           /\ Outrun' = Outrun /\ BareShown' = BareShown
           /\ \A d : Intact(d, faults'.kinds) <=> Intact(d, faults.kinds)
<1>1. /\ faults.n \in 0 .. MaxFaults /\ faults.kinds \in SUBSET Lasting
      /\ faults.n < MaxFaults
      /\ faults' = [n |-> faults.n + 1, kinds |-> faults.kinds \cup ({kind} \cap Lasting)]
  BY DEF PlainInv, Fault
<1>2. faults.n + 1 \in 0 .. MaxFaults
  BY <1>1
<1>3. faults'.kinds \in SUBSET Lasting /\ faults.kinds \subseteq faults'.kinds
  BY <1>1
<1>4. \A x \in {"leftover", "bare"} : x \in faults'.kinds <=> x \in faults.kinds
  BY <1>1
<1> QED BY <1>1, <1>2, <1>3, <1>4 DEF Outrun, BareShown, Intact

LEMMA RecordedTyped ==
    ASSUME PlainInv, NEW kind \in Lasting, NEW happens \in BOOLEAN, Recorded(kind, happens)
    PROVE  /\ faults' \in [n : 0 .. MaxFaults, kinds : SUBSET Lasting]
           /\ faults.kinds \subseteq faults'.kinds
           /\ happens => kind \in faults'.kinds
           /\ \A x : x # kind => (x \in faults'.kinds <=> x \in faults.kinds)
BY DEF PlainInv, Recorded

\* What goes by a name.
LEMMA FoundIs ==
    ASSUME NEW d
    PROVE  /\ Found(d) \subseteq {"none", "volume", "another"}
           /\ "volume" \in Found(d) => d = dev /\ dev # Nil
           /\ d = dev /\ dev # Nil => Found(d) = {"volume"}
           /\ d = Nil => Found(d) = {"none"}
BY DEF Found

\* What a process sees at a path, what is mounted first, and what a mount or an unmount
\* leave at it.
LEMMA PathSteps ==
    ASSUME NEW D, NEW p \in [there : BOOLEAN, stack : Seq(D)], NEW x \in D
    PROVE  /\ Push(p, x) \in [there : BOOLEAN, stack : Seq(D)]
           /\ DOMAIN Push(p, x).stack = 1 .. Len(p.stack) + 1
           /\ \A i \in DOMAIN p.stack : Push(p, x).stack[i] = p.stack[i]
           /\ Push(p, x).stack[Len(p.stack) + 1] = x
BY DEF Push

\* What is mounted after a mount was so before, or is the new one.
LEMMA PathGrows ==
    ASSUME NEW D, NEW p \in [there : BOOLEAN, stack : Seq(D)], NEW x \in D,
           NEW i \in DOMAIN Push(p, x).stack
    PROVE  Push(p, x).stack[i] = x \/ (i \in DOMAIN p.stack
                                        /\ Push(p, x).stack[i] = p.stack[i])
<1> DEFINE s == p.stack
<1>1. s \in Seq(D) /\ Push(p, x).stack = Append(s, x)
  BY DEF Push
<1> HIDE DEF s
<1>2. i \in 1 .. Len(s) + 1 /\ DOMAIN s = 1 .. Len(s) /\ Len(s) \in Nat
  BY <1>1
<1>3. CASE i \in 1 .. Len(s)
  BY <1>1, <1>2, <1>3 DEF s
<1>4. CASE i = Len(s) + 1
  BY <1>1, <1>4
<1> QED BY <1>2, <1>3, <1>4
LEMMA WithStack ==
    ASSUME NEW D, NEW p \in [there : BOOLEAN, stack : Seq(D)], NEW q \in Seq(D)
    PROVE  /\ [p EXCEPT !.stack = q] \in [there : BOOLEAN, stack : Seq(D)]
           /\ [p EXCEPT !.stack = q].stack = q
OBVIOUS

LEMMA PathPop ==
    ASSUME NEW D, NEW p \in [there : BOOLEAN, stack : Seq(D)], p.stack # << >>
    PROVE  /\ Pop(p) \in [there : BOOLEAN, stack : Seq(D)]
           /\ DOMAIN Pop(p).stack \subseteq DOMAIN p.stack
           /\ \A i \in DOMAIN Pop(p).stack : Pop(p).stack[i] = p.stack[i]
<1> DEFINE s == p.stack
           q == SubSeq(s, 1, Len(s) - 1)
<1>1. s \in Seq(D) /\ Len(s) \in Nat /\ Len(s) >= 1 /\ DOMAIN s = 1 .. Len(s)
  OBVIOUS
<1>2. \A i \in 1 .. Len(s) - 1 : s[i] \in D
  BY <1>1
<1>3. /\ q \in Seq(D)
      /\ Len(q) = IF 1 <= Len(s) - 1 THEN (Len(s) - 1) - 1 + 1 ELSE 0
      /\ \A i \in 1 .. (Len(s) - 1) - 1 + 1 : q[i] = s[1 + i - 1]
  BY <1>1, <1>2, SubSeqProperties, Len(s) - 1 \in Int
<1>4. DOMAIN q = 1 .. Len(s) - 1 /\ \A i \in 1 .. Len(s) - 1 : q[i] = s[i]
  BY <1>1, <1>3
<1>5. Pop(p) \in [there : BOOLEAN, stack : Seq(D)] /\ Pop(p).stack = q
  BY <1>3, WithStack DEF Pop
<1> QED BY <1>1, <1>4, <1>5

LEMMA PathLooks ==
    ASSUME NEW D, NEW p \in [there : BOOLEAN, stack : Seq(D)]
    PROVE  /\ p.stack = << >> => Mounted(p) = Nil /\ Top(p) = Bare
           /\ p.stack # << >> =>
                 /\ Mounted(p) \in D /\ \E i \in DOMAIN p.stack : Mounted(p) = p.stack[i]
                 /\ Top(p) \in D /\ \E i \in DOMAIN p.stack : Top(p) = p.stack[i]
<1>1. CASE p.stack = << >>
  BY <1>1 DEF Mounted, Top
<1>2. CASE p.stack # << >>
  <2>1. Len(p.stack) \in Nat /\ Len(p.stack) >= 1 /\ DOMAIN p.stack = 1 .. Len(p.stack)
    BY <1>2
  <2>2. Head(p.stack) = p.stack[1]
    BY <1>2
  <2> QED BY <1>2, <2>1, <2>2 DEF Mounted, Top
<1> QED BY <1>1, <1>2

\* One handler moves and knows what is so; what the others know stays so.
LEMMA OneMoves ==
    ASSUME CallInv, NEW c \in Calls,
           call' = [call EXCEPT ![c] = call'[c]],
           call'[c] \in Handler,
           Sound(call'[c], dev', name', fs', growth', faults'.kinds),
           UNCHANGED <<dev, name>>, faults.kinds \subseteq faults'.kinds,
           GoesOn(fs, growth, fs', growth')
    PROVE  CallInv'
<1>1. ASSUME NEW d \in Calls
      PROVE  /\ Sound(call'[d], dev', name', fs', growth', faults'.kinds)
             /\ call'[d] \in Handler
  <2>1. CASE d = c
    BY <2>1
  <2>2. CASE d # c
    <3>1. call'[d] = call[d] /\ call[d] \in Handler
          /\ Sound(call[d], dev, name, fs, growth, faults.kinds)
      BY <2>2 DEF CallInv
    <3> QED BY <3>1, SoundStays
  <2> QED BY <2>1, <2>2
<1> QED BY <1>1 DEF CallInv

\* A handler goes on to another request.
LEMMA OneGoes ==
    ASSUME call \in [Calls -> Handler], NEW c \in Calls, NEW pc, Go(c, pc),
           pc \in {"lock", "dev", "path", "check", "blkid", "mkfs", "mount",
                   "umount", "rmdir", "size", "resize", "OK", "Internal"}
    PROVE  /\ call' = [call EXCEPT ![c] = call'[c]]
           /\ call'[c] \in Handler
           /\ call'[c].pc = pc
           /\ call'[c].op = call[c].op /\ call'[c].src = call[c].src
           /\ call'[c].ctx = call[c].ctx
           /\ call'[c].key = call[c].key /\ call'[c].held = call[c].held
BY DEF Go

LEMMA LockKept ==
    ASSUME LockInv, CallInv, NEW c \in Calls,
           call' = [call EXCEPT ![c] = call'[c]],
           call'[c].held = call[c].held, call[c].held => call'[c].key = call[c].key,
           UNCHANGED lock
    PROVE  LockInv'
<1>1. \A d \in Calls : /\ call'[d].held = call[d].held
                       /\ call[d].held => call'[d].key = call[d].key
  BY DEF CallInv
<1>2. {d \in Calls : call'[d].held} = {d \in Calls : call[d].held}
  BY <1>1
<1>3. {call'[e].key : e \in {d \in Calls : call'[d].held}}
        = {call[e].key : e \in {d \in Calls : call[d].held}}
  BY <1>1, <1>2
<1> QED BY <1>1, <1>3 DEF LockInv

-----------------------------------------------------------------------------
(* The invariant holds at the beginning, and every step keeps it.          *)

LEMMA InitIInv == Init => IInv
<1> SUFFICES ASSUME Init PROVE IInv
  OBVIOUS
<1>1. PlainInv
  BY DEF Init, PlainInv, FileSystems
<1>2. NoPath \in [there : BOOLEAN, stack : Seq(Devs)] /\ NoPath \in Path
  BY DEF NoPath, Path
<1>3. MountInv
  BY <1>2 DEF Init, MountInv, NoPath, Intact
<1>4. LockInv /\ CallInv
  BY DEF Init, LockInv, CallInv, Sound
<1> QED BY <1>1, <1>3, <1>4 DEF Init, IInv, NeverReformatted, ExpandedIsGrown

\* All handlers end with the process.
LEMMA AllGone ==
    ASSUME call' = [c \in Calls |-> NoHandler], lock' = {}
    PROVE  LockInv' /\ CallInv'
BY DEF LockInv, CallInv, Sound

\* The volume is attached: what was left over is recorded, and the rest knows nothing.
LEMMA AttachStep == ASSUME IInv, CallerInv, Attach PROVE IInv'
<1> DEFINE Left == \/ staging.stack # << >> \/ target.stack # << >>
                   \/ \E c \in Calls : call[c].op \in {"stage", "publish"}
<1>1. /\ phase = "idle" /\ dev' \in Devs /\ name' \in Devs
      /\ Recorded("leftover", Left)
      /\ UNCHANGED <<fs, staging, target, lock, call, phase, growth>>
  BY DEF Attach
<1>2. /\ faults' \in [n : 0 .. MaxFaults, kinds : SUBSET Lasting]
      /\ Left => "leftover" \in faults'.kinds
      /\ faults.kinds \subseteq faults'.kinds
      /\ BareShown' = BareShown
  <2> HIDE DEF Left
  <2> DEFINE happens == Left = TRUE
  <2>1. happens \in BOOLEAN /\ Recorded("leftover", happens) /\ (Left => happens)
    BY <1>1 DEF Recorded
  <2> HIDE DEF happens
  <2>2. /\ faults' \in [n : 0 .. MaxFaults, kinds : SUBSET Lasting]
        /\ faults.kinds \subseteq faults'.kinds
        /\ happens => "leftover" \in faults'.kinds
        /\ \A x : x # "leftover" => (x \in faults'.kinds <=> x \in faults.kinds)
    BY <2>1, RecordedTyped DEF IInv
  <2> QED BY <2>1, <2>2 DEF BareShown
<1>3. Outrun => Outrun'
  BY <1>2 DEF Outrun
<1>4. CallInv'
  <2> SUFFICES ASSUME NEW c \in Calls
               PROVE  Sound(call[c], dev', name', fs, growth, faults'.kinds)
    BY <1>1 DEF IInv, CallInv
  <2>1. call[c] \in Handler /\ Sound(call[c], dev, name, fs, growth, faults.kinds)
    BY DEF IInv, CallInv
  <2>2. CASE call[c].op \in {"stage", "publish"}
    <3>1. "leftover" \in faults'.kinds
      BY <1>2, <2>2
    <3> QED BY <2>1, <2>2, <3>1 DEF Sound, Intact
  <2>3. CASE call[c].op \notin {"stage", "publish"}
    <3>1. ~call[c].ctx
      BY <1>1, <2>1 DEF CallerInv, Ops, During
    <3> QED BY <2>1, <2>3, <3>1, SoundAgain DEF Sound
  <2> QED BY <2>2, <2>3
<1>5. MountInv'
  <2>1. Intact(dev', faults'.kinds) => staging.stack = << >> /\ target.stack = << >>
    BY <1>2 DEF Intact
  <2> QED BY <1>1, <2>1 DEF IInv, MountInv
<1>6. LockInv'
  BY <1>1 DEF IInv, LockInv
<1>7. PlainInv'
  BY <1>1, <1>2 DEF IInv, PlainInv
<1> QED
  BY <1>1, <1>2, <1>3, <1>4, <1>5, <1>6, <1>7
  DEF IInv, NeverReformatted, ExpandedIsGrown, Block

\* Other steps of the environment.
LEMMA OutsideStep ==
    ASSUME IInv, Detach \/ Grow \/ Appear
    PROVE  IInv'
<1>1. CASE Detach
  <2>1. \A c \in Calls : Sound(call[c], dev', name', fs', growth', faults'.kinds)
    <3> SUFFICES ASSUME NEW c \in Calls
                 PROVE  Sound(call[c], dev', name', fs', growth', faults'.kinds)
      OBVIOUS
    <3>1. Sound(call[c], dev, name, fs, growth, faults.kinds)
      BY DEF IInv, CallInv
    <3>2. dev' = Nil /\ UNCHANGED <<fs, growth, faults>>
      BY <1>1 DEF Detach
    <3> QED BY <3>1, <3>2 DEF Sound, Intact
  <2> QED
    BY <1>1, <2>1
    DEF IInv, PlainInv, MountInv, LockInv, CallInv, NeverReformatted, ExpandedIsGrown,
        Outrun, BareShown, Block, Detach, Intact
<1>2. CASE Grow \/ Appear
  <2>1. GoesOn(fs, growth, fs', growth') /\ UNCHANGED <<dev, name, faults>>
    BY <1>2 DEF Grow, Appear, GoesOn
  <2>2. \A c \in Calls : Sound(call[c], dev', name', fs', growth', faults'.kinds)
    BY <2>1, SoundStays DEF IInv, CallInv
  <2> QED
    BY <1>2, <2>2
    DEF IInv, PlainInv, MountInv, LockInv, CallInv, NeverReformatted, ExpandedIsGrown,
        Outrun, BareShown, Block, Grow, Appear
<1> QED BY <1>1, <1>2

LEMMA CrashStep == ASSUME IInv, Crash PROVE IInv'
BY AllGone, FaultTyped
DEF IInv, Crash, PlainInv, MountInv, NeverReformatted, ExpandedIsGrown, Block

LEMMA RebootStep == ASSUME IInv, Reboot PROVE IInv'
<1>1. LockInv' /\ CallInv'
  BY AllGone DEF Reboot
<1>2. PlainInv'
  BY FaultTyped DEF IInv, PlainInv, Reboot
<1>3. MountInv'
  <2>1. ASSUME NEW D, NEW p \in [there : BOOLEAN, stack : Seq(D)]
        PROVE  /\ [p EXCEPT !.stack = << >>] \in [there : BOOLEAN, stack : Seq(D)]
               /\ [p EXCEPT !.stack = << >>].stack = << >>
    BY WithStack, << >> \in Seq(D)
  <2> QED BY <2>1 DEF IInv, MountInv, Reboot, Path
<1> QED
  BY <1>1, <1>2, <1>3, FaultTyped
  DEF IInv, Reboot, NeverReformatted, ExpandedIsGrown, Block

LEMMA CallNodeStep ==
    ASSUME IInv, NEW c \in Calls, NEW op \in Ops, CallNode(c, op)
    PROVE  IInv'
<1>1. phase' \in Phases
  BY DEF CallNode, During, Ops
<1>2. name \in Devs
  BY DEF CallNode, IInv, PlainInv
<1>3. /\ call' = [call EXCEPT ![c] = call'[c]]
      /\ call'[c] \in Handler
      /\ call'[c].op = op /\ call'[c].held = FALSE /\ call[c].held = FALSE
      /\ call'[c].pc = First(op)
      /\ op = "stage" => call'[c].key = name
  BY <1>2 DEF IInv, CallInv, CallNode, First, Ops, Sound
<1>4. Sound(call'[c], dev, name, fs, growth, faults.kinds)
  BY <1>2, <1>3 DEF Sound, First, Ops, Block, WithDevice
<1>5. /\ UNCHANGED <<dev, name, fs, growth, lock, faults>>
      /\ GoesOn(fs, growth, fs', growth')
  BY DEF CallNode, GoesOn
<1>6. LockInv'
  BY <1>3, <1>5, LockKept DEF IInv
<1>7. CallInv'
  BY <1>3, <1>4, <1>5, OneMoves DEF IInv
<1> QED
  BY <1>1, <1>6, <1>7
  DEF IInv, PlainInv, MountInv, NeverReformatted, ExpandedIsGrown, Outrun, BareShown,
      Block, CallNode

LEMMA CallExpandStep ==
    ASSUME IInv, NEW c \in Calls, NEW op \in Expansions, CallExpand(c, op)
    PROVE  IInv'
<1>1. /\ call'[c] \in Handler
      /\ call'[c].held = FALSE /\ call[c].held = FALSE
      /\ call' = [call EXCEPT ![c] = call'[c]]
      /\ call'[c].op = op /\ call'[c].pc = IF Block THEN "OK" ELSE "check"
  BY DEF IInv, CallInv, CallExpand, Sound
<1>2. Sound(call'[c], dev, name, fs, growth, faults.kinds)
  BY <1>1 DEF CallExpand, Block, Sound
<1>3. UNCHANGED <<dev, name, fs, growth, lock, faults>> /\ GoesOn(fs, growth, fs', growth')
  BY DEF CallExpand, GoesOn
<1>4. LockInv' /\ CallInv'
  BY <1>1, <1>2, <1>3, OneMoves, LockKept DEF IInv
<1> QED
  BY <1>4
  DEF IInv, PlainInv, MountInv, NeverReformatted, ExpandedIsGrown, Outrun, BareShown,
      Block, CallExpand

\* An answer, whoever still waits for it.
LEMMA ReturnStep == ASSUME IInv, CallerInv, NEW c \in Calls, Return(c) PROVE IInv'
<1>1. call[c] \in Handler /\ Sound(call[c], dev, name, fs, growth, faults.kinds)
  BY DEF IInv, CallInv
<1>2. phase' \in Phases /\ growth' \in Growths /\ GoesOn(fs, growth, fs', growth')
  BY <1>1 DEF IInv, PlainInv, Return, Told, After, GoesOn
<1>3. CallInv'
  <2>1. call' = [call EXCEPT ![c] = call'[c]] /\ call'[c] = NoHandler
    BY DEF IInv, CallInv, Return
  <2>2. Sound(call'[c], dev', name', fs', growth', faults'.kinds)
    BY <2>1 DEF Sound
  <2>3. call'[c] \in Handler
    BY <2>1
  <2> QED BY <1>2, <2>1, <2>2, <2>3, OneMoves DEF IInv, Return
<1>4. LockInv'
  <2>1. \A d \in Calls : /\ call'[d].held = (d # c /\ call[d].held)
                         /\ d # c => call'[d] = call[d]
    BY DEF IInv, CallInv, Return
  <2>2. lock' = IF call[c].held THEN lock \ {call[c].key} ELSE lock
    BY DEF Return
  <2>3. {d \in Calls : call'[d].held} = {d \in Calls : call[d].held} \ {c}
    BY <2>1
  <2>4. {call'[e].key : e \in {d \in Calls : call'[d].held}}
          = {call[e].key : e \in {d \in Calls : call[d].held} \ {c}}
    BY <2>1, <2>3
  <2>5. lock' = {call[e].key : e \in {d \in Calls : call[d].held} \ {c}}
    BY <2>2 DEF IInv, LockInv
  <2> QED BY <2>1, <2>4, <2>5 DEF IInv, LockInv
<1>5. ExpandedIsGrown'
  <2>1. UNCHANGED <<fs, faults>>
    BY DEF Return
  <2>2. CASE growth' = growth
    BY <2>1, <2>2 DEF IInv, ExpandedIsGrown, Outrun, BareShown, Block
  <2>3. CASE growth' # growth
    <3>1. call[c].ctx /\ call[c].pc = "OK" /\ call[c].op \in Expansions
      BY <2>3 DEF Return, Told
    <3>2. dev # Nil
      BY <3>1 DEF CallerInv, Ops, During
    <3>3. Outrun \/ BareShown \/ fs \in {"raw", "grown"}
      BY <1>1, <3>1, <3>2 DEF Sound, Intact, Outrun, BareShown
    <3> QED BY <2>1, <3>3 DEF ExpandedIsGrown, Outrun, BareShown, Block
  <2> QED BY <2>2, <2>3
<1> QED
  BY <1>2, <1>3, <1>4, <1>5
  DEF IInv, PlainInv, MountInv, NeverReformatted, Outrun, BareShown, Return

\* A call that fails, or whose caller has gone.
LEMMA FaultStep ==
    ASSUME IInv, NEW c \in Calls, Fails(c) \/ Timeout(c)
    PROVE  IInv'
<1>1. call[c] \in Handler /\ Sound(call[c], dev, name, fs, growth, faults.kinds)
  BY DEF IInv, CallInv
<1>2. /\ call' = [call EXCEPT ![c] = call'[c]]
      /\ call'[c] \in Handler
      /\ call'[c].held = call[c].held /\ call'[c].key = call[c].key
      /\ Sound(call'[c], dev, name, fs, growth, faults.kinds)
  <2>1. CASE Fails(c)
    <3>1. Go(c, "Internal")
      BY <2>1 DEF Fails
    <3>2. call[c].op # "idle"
      BY <2>1 DEF Fails
    <3>3. /\ call' = [call EXCEPT ![c] = call'[c]]
          /\ call'[c] \in Handler
          /\ call'[c].pc = "Internal" /\ call'[c].op = call[c].op
          /\ call'[c].held = call[c].held /\ call'[c].key = call[c].key
      BY <3>1, OneGoes DEF IInv, CallInv
    <3> QED BY <1>1, <3>2, <3>3 DEF Sound, WithDevice
  <2>2. CASE Timeout(c)
    <3>1. call' = [call EXCEPT ![c].ctx = FALSE]
      BY <2>2 DEF Timeout
    <3>2. /\ call' = [call EXCEPT ![c] = call'[c]]
          /\ call'[c] \in Handler
          /\ call'[c].op = call[c].op /\ call'[c].pc = call[c].pc
          /\ call'[c].src = call[c].src /\ call'[c].held = call[c].held
          /\ call'[c].key = call[c].key /\ call'[c].ctx = FALSE
      BY <1>1, <3>1 DEF IInv, CallInv
    <3> QED BY <1>1, <3>2 DEF Sound
  <2> QED BY <2>1, <2>2
<1>3. /\ PlainInv' /\ faults.kinds \subseteq faults'.kinds
      /\ Outrun' = Outrun /\ BareShown' = BareShown
      /\ Intact(dev, faults'.kinds) <=> Intact(dev, faults.kinds)
  BY FaultTyped DEF IInv, PlainInv, Fails, Timeout
<1>4. Sound(call'[c], dev, name, fs, growth, faults'.kinds)
  BY <1>2, <1>3, SoundStays DEF GoesOn
<1>5. LockInv' /\ CallInv'
  BY <1>2, <1>3, <1>4, OneMoves, LockKept DEF IInv, Fails, Timeout, GoesOn
<1> QED
  BY <1>3, <1>5
  DEF IInv, MountInv, NeverReformatted, ExpandedIsGrown, Block, Fails, Timeout

-----------------------------------------------------------------------------
(* Steps of the handlers.                                                  *)

\* A step after which handler c sends request pc, while nothing but paths changes and
\* what is recorded.
LEMMA PlainStep ==
    ASSUME IInv, NEW c \in Calls, call[c].op # "idle", NEW pc, Go(c, pc),
           pc \in {"check", "blkid", "mkfs", "mount", "umount", "rmdir", "OK",
                   "Internal"},
           UNCHANGED <<dev, name, fs, lock, phase, growth>>, MountInv',
           faults' \in [n : 0 .. MaxFaults, kinds : SUBSET Lasting],
           faults.kinds \subseteq faults'.kinds,
           call[c].op = "stage" =>
              /\ pc \in {"check", "blkid", "mkfs", "mount"}
                    => call[c].pc \in WithDevice
              /\ Intact(dev, faults.kinds) =>
                    /\ pc = "mkfs" => fs = "blank"
                    /\ pc = "mount" => Formatted(fs)
              /\ pc \notin {"umount", "rmdir"},
           call[c].op = "publish" /\ pc \in WithDevice => call[c].pc \in WithDevice,
           call[c].op \notin Expansions \/ pc = "Internal"
    PROVE  IInv'
<1>1. call[c] \in Handler /\ Sound(call[c], dev, name, fs, growth, faults.kinds)
  BY DEF IInv, CallInv
<1>2. /\ call' = [call EXCEPT ![c] = call'[c]]
      /\ call'[c] \in Handler
      /\ call'[c].pc = pc
      /\ call'[c].op = call[c].op /\ call'[c].src = call[c].src
      /\ call'[c].ctx = call[c].ctx
      /\ call'[c].key = call[c].key /\ call'[c].held = call[c].held
  BY OneGoes DEF IInv, CallInv
<1>3. Sound(call'[c], dev, name, fs, growth, faults.kinds)
  BY <1>1, <1>2 DEF Sound, WithDevice
<1>4. GoesOn(fs, growth, fs', growth')
  BY DEF GoesOn
<1>5. Sound(call'[c], dev', name', fs', growth', faults'.kinds)
  BY <1>2, <1>3, <1>4, SoundStays
<1>6. LockInv' /\ CallInv'
  BY <1>2, <1>4, <1>5, OneMoves, LockKept DEF IInv
<1>7. (Outrun => Outrun') /\ (BareShown => BareShown')
  BY DEF Outrun, BareShown
<1> QED
  BY <1>6, <1>7 DEF IInv, PlainInv, NeverReformatted, ExpandedIsGrown, Block

LEMMA StageLockStep == ASSUME IInv, NEW c \in Calls, StageLock(c) PROVE IInv'
<1>1. call[c] \in Handler /\ Sound(call[c], dev, name, fs, growth, faults.kinds)
      /\ At(c, "stage", "lock")
      /\ UNCHANGED <<dev, name, fs, staging, target, phase, growth, faults>>
  BY DEF IInv, CallInv, StageLock
<1>2. MountInv'
  BY <1>1 DEF IInv, MountInv, BareShown
<1>3. CASE call[c].key \in lock
  <2>1. Go(c, "Internal") /\ UNCHANGED lock
    BY <1>3 DEF StageLock
  <2> QED BY <1>1, <1>2, <2>1, PlainStep DEF At, IInv, PlainInv
<1>4. CASE call[c].key \notin lock
  <2>1. call' = [call EXCEPT ![c].pc = "dev", ![c].held = TRUE]
        /\ lock' = lock \cup {call[c].key}
    BY <1>4 DEF StageLock
  <2>2. /\ call' = [call EXCEPT ![c] = call'[c]]
        /\ call'[c] \in Handler
        /\ call'[c].pc = "dev" /\ call'[c].held = TRUE
        /\ call'[c].op = call[c].op /\ call'[c].src = call[c].src
        /\ call'[c].key = call[c].key
    BY <1>1, <2>1 DEF IInv, CallInv
  <2>3. Sound(call'[c], dev, name, fs, growth, faults.kinds)
    BY <1>1, <2>2 DEF Sound, At, WithDevice
  <2>4. GoesOn(fs, growth, fs', growth')
    BY <1>1 DEF GoesOn
  <2>5. CallInv'
    BY <1>1, <2>2, <2>3, <2>4, OneMoves DEF IInv
  <2>6. \A d \in Calls : call[d].held => call[d].key # call[c].key
    BY <1>4 DEF IInv, LockInv
  <2>7. \A d \in Calls : d # c => call'[d] = call[d]
    BY <2>2 DEF IInv, CallInv
  <2>8. LockInv'
    <3>1. {d \in Calls : call'[d].held} = {d \in Calls : call[d].held} \cup {c}
      BY <2>2, <2>7
    <3>2. \A d \in Calls : call'[d].key = call[d].key
      BY <2>2, <2>7
    <3>3. {call'[e].key : e \in {d \in Calls : call'[d].held}}
            = {call[e].key : e \in {d \in Calls : call[d].held}} \cup {call[c].key}
      BY <3>1, <3>2
    <3>4. \A d, e \in Calls : call'[d].held /\ call'[e].held /\ call'[d].key = call'[e].key
                                => d = e
      BY <2>2, <2>6, <2>7 DEF IInv, LockInv
    <3> QED BY <2>1, <3>3, <3>4 DEF IInv, LockInv
  <2> QED
    BY <1>1, <1>2, <2>5, <2>8
    DEF IInv, PlainInv, NeverReformatted, ExpandedIsGrown, Outrun, BareShown, Block
<1> QED BY <1>3, <1>4

LEMMA FindDeviceStep == ASSUME IInv, NEW c \in Calls, FindDevice(c) PROVE IInv'
<1>1. /\ call[c] \in Handler /\ Sound(call[c], dev, name, fs, growth, faults.kinds)
      /\ call[c].pc = "dev" /\ call[c].op # "idle"
      /\ UNCHANGED <<dev, name, fs, staging, target, lock, phase, growth, faults>>
  BY DEF IInv, CallInv, FindDevice, Sound
<1>2. MountInv'
  BY <1>1 DEF IInv, MountInv, BareShown
<1>3. CASE dev = Nil \/ ~call[c].ctx
  <2>1. Go(c, "Internal")
    BY <1>3 DEF FindDevice
  <2> QED BY <1>1, <1>2, <2>1, PlainStep DEF IInv, PlainInv, WithDevice
<1>4. CASE ~(dev = Nil \/ ~call[c].ctx)
  <2>1. call' = [call EXCEPT ![c].pc = "path", ![c].src = dev] /\ dev \in Devs
    BY <1>4 DEF FindDevice, IInv, PlainInv
  <2>2. /\ call' = [call EXCEPT ![c] = call'[c]]
        /\ call'[c] \in Handler
        /\ call'[c].pc = "path" /\ call'[c].src = dev
        /\ call'[c].op = call[c].op
        /\ call'[c].key = call[c].key /\ call'[c].held = call[c].held
    BY <1>1, <2>1 DEF IInv, CallInv
  <2>3. Sound(call'[c], dev, name, fs, growth, faults.kinds)
    BY <1>1, <2>1, <2>2 DEF Sound, WithDevice
  <2>4. GoesOn(fs, growth, fs', growth')
    BY <1>1 DEF GoesOn
  <2>5. LockInv' /\ CallInv'
    BY <1>1, <2>2, <2>3, <2>4, OneMoves, LockKept DEF IInv
  <2> QED
    BY <1>1, <1>2, <2>5
    DEF IInv, PlainInv, NeverReformatted, ExpandedIsGrown, Outrun, BareShown, Block
<1> QED BY <1>3, <1>4

\* MkdirAll, and looking at paths, devices and mounts.
LEMMA LookStep ==
    ASSUME IInv, NEW c \in Calls,
           \/ StagePath(c) \/ StageCheck(c) \/ StageBlkid(c)
           \/ PublishPath(c) \/ PublishCheck(c)
    PROVE  IInv'
<1>1. Sound(call[c], dev, name, fs, growth, faults.kinds) /\ fs \in FileSystems
      /\ UNCHANGED <<dev, name, fs, lock, phase, growth, faults>>
  BY DEF IInv, CallInv, PlainInv, StagePath, StageCheck, StageBlkid, PublishPath,
         PublishCheck
<1>2. MountInv'
  <2>1. ASSUME NEW D, NEW p \in [there : BOOLEAN, stack : Seq(D)]
        PROVE  /\ [p EXCEPT !.there = TRUE] \in [there : BOOLEAN, stack : Seq(D)]
               /\ [p EXCEPT !.there = TRUE].stack = p.stack
    OBVIOUS
  <2>2. /\ staging' \in [there : BOOLEAN, stack : Seq(Devs)]
        /\ staging'.stack = staging.stack
        /\ target' \in Path /\ target'.stack = target.stack
    BY <2>1
    DEF IInv, MountInv, Path, StagePath, StageCheck, StageBlkid, PublishPath,
        PublishCheck
  <2> QED BY <1>1, <2>2 DEF IInv, MountInv, BareShown
<1>3. faults' \in [n : 0 .. MaxFaults, kinds : SUBSET Lasting]
  BY <1>1 DEF IInv, PlainInv
<1>4. CASE StagePath(c) \/ StageCheck(c)
  BY <1>1, <1>2, <1>3, <1>4, PlainStep DEF StagePath, StageCheck, At, WithDevice
<1>5. CASE StageBlkid(c)
  <2>1. PICK pc \in {"mkfs", "mount", "Internal"} :
           /\ Go(c, pc)
           /\ Found(call[c].src) = {"volume"} =>
                 pc = IF fs = "blank" THEN "mkfs" ELSE "mount"
    <3>1. PICK found \in Found(call[c].src) :
             \/ found = "none" /\ Go(c, "Internal")
             \/ found = "volume" /\ Go(c, IF fs = "blank" THEN "mkfs" ELSE "mount")
             \/ found = "another" /\ \E pc \in {"mkfs", "mount"} : Go(c, pc)
      BY <1>5 DEF StageBlkid
    <3> QED BY <3>1
  <2>2. At(c, "stage", "blkid")
    BY <1>5 DEF StageBlkid
  <2>3. Intact(dev, faults.kinds) =>
           /\ pc = IF fs = "blank" THEN "mkfs" ELSE "mount"
           /\ fs \in {"blank", "made", "grown"}
    BY <1>1, <2>1, <2>2, FoundIs
    DEF At, Sound, Intact, WithDevice, IInv, NeverReformatted, FileSystems, Outrun
  <2> QED BY <1>1, <1>2, <1>3, <2>1, <2>2, <2>3, PlainStep DEF At, WithDevice, Formatted
<1>6. CASE PublishPath(c) \/ PublishCheck(c)
  BY <1>1, <1>2, <1>3, <1>6, PlainStep DEF PublishPath, PublishCheck, At, WithDevice
<1> QED BY <1>4, <1>5, <1>6

\* A file system is made on the volume by a handler that found none; unless something
\* is left over it has the lock that all handlers of this attachment take, so that
\* nobody can have made one since.
LEMMA StageMkfsStep == ASSUME IInv, NEW c \in Calls, StageMkfs(c) PROVE IInv'
<1>1. /\ call[c] \in Handler /\ Sound(call[c], dev, name, fs, growth, faults.kinds)
      /\ call[c].op = "stage" /\ call[c].pc = "mkfs"
      /\ UNCHANGED <<dev, name, staging, target, lock, phase, growth, faults>>
  BY DEF IInv, CallInv, StageMkfs, At
<1>2. call[c].held /\ call[c].key \in Devs /\ call[c].src \in Devs /\ fs # "raw"
  BY <1>1 DEF Sound, WithDevice
<1>3. PICK found \in Found(call[c].src) :
         /\ Go(c, IF found = "none" THEN "Internal" ELSE "mount")
         /\ fs' = IF found # "volume" THEN fs ELSE IF fs = "blank" THEN Made ELSE "lost"
  BY DEF StageMkfs
<1>4. /\ fs' \in FileSystems /\ fs' # "raw"
      /\ (UNCHANGED <<Outrun, BareShown>>)
  BY <1>1, <1>2, <1>3 DEF IInv, PlainInv, FileSystems, Made, Outrun, BareShown
<1>5. /\ call' = [call EXCEPT ![c] = call'[c]]
      /\ call'[c] \in Handler
      /\ call'[c].pc \in {"Internal", "mount"}
      /\ call'[c].op = call[c].op /\ call'[c].src = call[c].src
      /\ call'[c].key = call[c].key /\ call'[c].held = call[c].held
  BY <1>3, OneGoes DEF IInv, CallInv
<1>6. LockInv'
  BY <1>1, <1>5, LockKept DEF IInv
<1>7. Intact(dev, faults.kinds) =>
         /\ found = "volume" /\ fs = "blank" /\ fs' = Made /\ Formatted(fs')
         /\ staging.stack = << >>
  <2> SUFFICES ASSUME Intact(dev, faults.kinds)
               PROVE  /\ found = "volume" /\ fs = "blank" /\ fs' = Made /\ Formatted(fs')
                      /\ staging.stack = << >>
    OBVIOUS
  <2>1. call[c].src = dev /\ dev # Nil /\ fs = "blank"
    BY <1>1 DEF Sound, Intact, WithDevice
  <2>2. found = "volume"
    BY <1>3, <2>1, FoundIs
  <2> QED BY <1>3, <2>1, <2>2 DEF Made, Formatted, IInv, MountInv
<1>8. found = "volume" => dev # Nil
  BY <1>3, FoundIs
<1>9. CallInv'
  <2> SUFFICES ASSUME NEW d \in Calls
               PROVE  /\ call'[d] \in Handler
                      /\ Sound(call'[d], dev, name, fs', growth, faults.kinds)
    BY <1>1, <1>5 DEF IInv, CallInv
  <2>1. CASE d = c
    BY <1>1, <1>2, <1>4, <1>5, <1>7, <2>1 DEF Sound, WithDevice
  <2>2. CASE d # c
    <3>1. call'[d] = call[d] /\ call[d] \in Handler
          /\ Sound(call[d], dev, name, fs, growth, faults.kinds)
      BY <1>5, <2>2 DEF IInv, CallInv
    <3>2. CASE ~Intact(dev, faults.kinds)
      BY <1>2, <1>4, <3>1, <3>2 DEF Sound
    <3>3. CASE Intact(dev, faults.kinds)
      <4>1. call[c].key = name
        BY <1>1, <3>3 DEF Sound
      <4>2. ~(call[d].op = "stage" /\ call[d].pc \in {"mkfs", "mount"})
        BY <1>2, <2>2, <3>1, <3>3, <4>1 DEF Sound, IInv, LockInv
      <4>3. ~Formatted(fs) /\ fs # "raw" /\ fs # "grown"
        BY <1>7, <3>3 DEF Formatted
      <4> QED BY <1>4, <3>1, <3>3, <4>2, <4>3 DEF Sound
    <3> QED BY <3>2, <3>3
  <2> QED BY <2>1, <2>2
<1>10. MountInv'
  BY <1>1, <1>4, <1>7 DEF IInv, MountInv, Formatted
<1>11. NeverReformatted' /\ ExpandedIsGrown'
  <2>1. CASE Outrun
    BY <1>4, <2>1 DEF NeverReformatted, ExpandedIsGrown
  <2>2. CASE found # "volume"
    BY <1>1, <1>3, <1>4, <2>2 DEF IInv, NeverReformatted, ExpandedIsGrown, Block
  <2>3. CASE ~Outrun /\ found = "volume"
    <3>1. Intact(dev, faults.kinds)
      BY <1>8, <2>3 DEF Intact, Outrun
    <3> QED
      BY <1>1, <1>4, <1>7, <3>1
      DEF IInv, NeverReformatted, ExpandedIsGrown, Block, Formatted
  <2> QED BY <2>1, <2>2, <2>3
<1> QED BY <1>1, <1>4, <1>6, <1>9, <1>10, <1>11 DEF IInv, PlainInv

LEMMA StageMountStep == ASSUME IInv, NEW c \in Calls, StageMount(c) PROVE IInv'
<1>1. /\ call[c] \in Handler /\ Sound(call[c], dev, name, fs, growth, faults.kinds)
      /\ call[c].op = "stage" /\ call[c].pc = "mount"
      /\ UNCHANGED <<dev, name, fs, target, lock, phase, growth, faults>>
  BY DEF IInv, CallInv, StageMount, At
<1>2. /\ call[c].src \in Devs
      /\ Intact(dev, faults.kinds) => Formatted(fs) /\ call[c].src = dev
  BY <1>1 DEF Sound, WithDevice
<1>3. PICK pc \in {"OK", "Internal"} :
         Go(c, pc) /\ (staging' = staging \/ staging' = Push(staging, call[c].src))
  BY DEF StageMount
<1>4. MountInv'
  <2> DEFINE x == call[c].src
  <2>a. staging \in [there : BOOLEAN, stack : Seq(Devs)] /\ x \in Devs
    BY <1>2 DEF IInv, MountInv
  <2> HIDE DEF x
  <2>1. Push(staging, x) \in [there : BOOLEAN, stack : Seq(Devs)]
    BY <2>a, PathSteps
  <2>2. \A i \in DOMAIN Push(staging, x).stack :
           \/ Push(staging, x).stack[i] = x
           \/ i \in DOMAIN staging.stack /\ Push(staging, x).stack[i] = staging.stack[i]
    BY <2>a, PathGrows
  <2>3. CASE staging' = staging
    BY <1>1, <2>3 DEF IInv, MountInv, BareShown
  <2>4. CASE staging' = Push(staging, x)
    BY <1>1, <1>2, <2>1, <2>2, <2>4 DEF IInv, MountInv, BareShown, x
  <2> QED BY <1>3, <2>3, <2>4 DEF x
<1>5. faults' \in [n : 0 .. MaxFaults, kinds : SUBSET Lasting]
  BY <1>1 DEF IInv, PlainInv
<1> QED BY <1>1, <1>3, <1>4, <1>5, PlainStep DEF WithDevice

LEMMA PublishMountStep == ASSUME IInv, NEW c \in Calls, PublishMount(c) PROVE IInv'
<1> DEFINE source == IF Block THEN call[c].src ELSE Top(staging)
           Whole == Devs \cup {Bare}
<1>1. /\ call[c] \in Handler /\ Sound(call[c], dev, name, fs, growth, faults.kinds)
      /\ call[c].op = "publish" /\ call[c].pc = "mount"
      /\ UNCHANGED <<dev, name, fs, staging, lock, phase, growth>>
  BY DEF IInv, CallInv, PublishMount, At
<1>2. /\ source \in Whole
      /\ Intact(dev, faults.kinds) => (source = dev /\ fs # "blank") \/ source = Bare
  <2>1. CASE Block
    BY <1>1, <2>1 DEF Block, Sound, WithDevice
  <2>2. CASE ~Block
    <3>1. CASE staging.stack = << >>
      BY <2>2, <3>1, PathLooks DEF IInv, MountInv
    <3>2. CASE staging.stack # << >>
      <4>1. Top(staging) \in Devs
            /\ \E i \in DOMAIN staging.stack : Top(staging) = staging.stack[i]
        BY <3>2, PathLooks DEF IInv, MountInv
      <4> QED BY <2>2, <3>2, <4>1 DEF IInv, MountInv, Formatted
    <3> QED BY <3>1, <3>2
  <2> QED BY <2>1, <2>2
<1>3. PICK pc \in {"OK", "Internal"} :
         /\ Go(c, pc)
         /\ \/ UNCHANGED <<target, faults>>
            \/ target' = Push(target, source) /\ Recorded("bare", source = Bare)
  BY DEF PublishMount
<1>4. target \in [there : BOOLEAN, stack : Seq(Whole)]
  BY DEF IInv, MountInv, Path
<1> HIDE DEF source, Whole
<1>5. /\ faults' \in [n : 0 .. MaxFaults, kinds : SUBSET Lasting]
      /\ faults.kinds \subseteq faults'.kinds
      /\ \A x : x # "bare" => (x \in faults'.kinds <=> x \in faults.kinds)
      /\ target' # target => (source = Bare => "bare" \in faults'.kinds)
  <2>1. (source = Bare) \in BOOLEAN
    OBVIOUS
  <2>2. CASE Recorded("bare", source = Bare)
    BY <2>1, <2>2, RecordedTyped DEF IInv
  <2>3. CASE UNCHANGED <<target, faults>>
    BY <2>3 DEF IInv, PlainInv
  <2> QED BY <1>3, <2>2, <2>3
<1>6. /\ Push(target, source) \in [there : BOOLEAN, stack : Seq(Whole)]
      /\ \A i \in DOMAIN Push(target, source).stack :
            \/ Push(target, source).stack[i] = source
            \/ /\ i \in DOMAIN target.stack
               /\ Push(target, source).stack[i] = target.stack[i]
  <2>1. source \in Whole
    BY <1>2
  <2>2. Push(target, source) \in [there : BOOLEAN, stack : Seq(Whole)]
    BY <1>4, <2>1, PathSteps
  <2> QED BY <1>4, <2>1, <2>2, PathGrows
<1>7. MountInv'
  <2>1. Intact(dev', faults'.kinds) <=> Intact(dev, faults.kinds)
    BY <1>1, <1>5 DEF Intact
  <2>2. BareShown => BareShown'
    BY <1>5 DEF BareShown
  <2>3. CASE target' = target
    BY <1>1, <2>1, <2>2, <2>3 DEF IInv, MountInv
  <2>4. CASE target' # target
    <3>1. target' = Push(target, source) /\ (source = Bare => BareShown')
      BY <1>3, <1>5, <2>4 DEF BareShown
    <3>2. target' \in Path
      BY <1>6, <3>1 DEF Path, Whole
    <3> QED BY <1>1, <1>2, <1>6, <2>1, <2>2, <3>1, <3>2 DEF IInv, MountInv
  <2> QED BY <2>3, <2>4
<1> QED BY <1>1, <1>3, <1>5, <1>7, PlainStep DEF WithDevice

\* Unmounting and removing the path, at the staging path and at the target path.
LEMMA UndoPaths ==
    ASSUME IInv, NEW c \in Calls, NEW D, NEW p \in [there : BOOLEAN, stack : Seq(D)],
           NEW q,
           \/ q = p
           \/ q = Pop(p) /\ p.stack # << >>
           \/ q = NoPath
    PROVE  /\ q \in [there : BOOLEAN, stack : Seq(D)]
           /\ DOMAIN q.stack \subseteq DOMAIN p.stack
           /\ \A i \in DOMAIN q.stack : q.stack[i] = p.stack[i]
<1>1. CASE q = NoPath
  <2>1. << >> \in Seq(D) /\ DOMAIN << >> = {}
    OBVIOUS
  <2> QED BY <1>1, <2>1 DEF NoPath
<1> QED BY <1>1, PathPop

LEMMA UnstageStep == ASSUME IInv, NEW c \in Calls, Unstage(c) PROVE IInv'
<1>1. /\ call[c].op = "unstage"
      /\ UNCHANGED <<dev, name, fs, target, lock, phase, growth, faults>>
  BY DEF Unstage
<1>2. PICK pc \in {"check", "umount", "rmdir", "OK", "Internal"} : Go(c, pc)
  BY DEF Unstage, Undo, UndoPath, UndoCheck, UndoUmount, UndoRmdir
<1>3. /\ staging' \in [there : BOOLEAN, stack : Seq(Devs)]
      /\ DOMAIN staging'.stack \subseteq DOMAIN staging.stack
      /\ \A i \in DOMAIN staging'.stack : staging'.stack[i] = staging.stack[i]
  <2>1. \/ staging' = staging
        \/ staging' = Pop(staging) /\ staging.stack # << >>
        \/ staging' = NoPath
    BY DEF Unstage, Undo, UndoPath, UndoCheck, UndoUmount, UndoRmdir
  <2> QED BY <2>1, UndoPaths DEF IInv, MountInv
<1>4. staging.stack = << >> => staging'.stack = << >>
  BY <1>3 DEF IInv, MountInv
<1>5. MountInv'
  BY <1>1, <1>3, <1>4 DEF IInv, MountInv, BareShown
<1>6. faults' \in [n : 0 .. MaxFaults, kinds : SUBSET Lasting]
  BY <1>1 DEF IInv, PlainInv
<1> QED BY <1>1, <1>2, <1>5, <1>6, PlainStep

LEMMA UnpublishStep == ASSUME IInv, NEW c \in Calls, Unpublish(c) PROVE IInv'
<1>1. /\ call[c].op = "unpublish"
      /\ UNCHANGED <<dev, name, fs, staging, lock, phase, growth, faults>>
  BY DEF Unpublish
<1>2. PICK pc \in {"check", "umount", "rmdir", "OK", "Internal"} : Go(c, pc)
  BY DEF Unpublish, Undo, UndoPath, UndoCheck, UndoUmount, UndoRmdir
<1>3. /\ target' \in Path
      /\ DOMAIN target'.stack \subseteq DOMAIN target.stack
      /\ \A i \in DOMAIN target'.stack : target'.stack[i] = target.stack[i]
  <2>1. \/ target' = target
        \/ target' = Pop(target) /\ target.stack # << >>
        \/ target' = NoPath
    BY DEF Unpublish, Undo, UndoPath, UndoCheck, UndoUmount, UndoRmdir
  <2> QED BY <2>1, UndoPaths DEF IInv, MountInv, Path
<1>4. MountInv'
  BY <1>1, <1>3 DEF IInv, MountInv, BareShown
<1>5. faults' \in [n : 0 .. MaxFaults, kinds : SUBSET Lasting]
  BY <1>1 DEF IInv, PlainInv
<1> QED BY <1>1, <1>2, <1>4, <1>5, PlainStep

\* What is mounted first at a path is the volume, with a file system, unless something
\* is left over or a bare directory was published.
LEMMA MountedIsFormatted ==
    ASSUME IInv, fs # "raw"
    PROVE  \A p \in {staging, target} :
              /\ Mounted(p) \in Devs \cup {Nil, Bare}
              /\ Intact(dev, faults.kinds) /\ ~BareShown =>
                    Mounted(p) = Nil \/ (Mounted(p) = dev /\ Formatted(fs))
<1>1. /\ Mounted(staging) \in Devs \cup {Nil}
      /\ Intact(dev, faults.kinds) =>
            Mounted(staging) = Nil \/ (Mounted(staging) = dev /\ Formatted(fs))
  <2>1. CASE staging.stack = << >>
    BY <2>1, PathLooks DEF IInv, MountInv
  <2>2. CASE staging.stack # << >>
    <3>1. /\ Mounted(staging) \in Devs
          /\ \E i \in DOMAIN staging.stack : Mounted(staging) = staging.stack[i]
      BY <2>2, PathLooks DEF IInv, MountInv
    <3> QED BY <2>2, <3>1 DEF IInv, MountInv
  <2> QED BY <2>1, <2>2
<1>2. /\ Mounted(target) \in Devs \cup {Nil, Bare}
      /\ Intact(dev, faults.kinds) /\ ~BareShown =>
            Mounted(target) = Nil \/ (Mounted(target) = dev /\ fs # "blank")
  <2>1. CASE target.stack = << >>
    BY <2>1, PathLooks DEF IInv, MountInv, Path
  <2>2. CASE target.stack # << >>
    <3>1. /\ Mounted(target) \in Devs \cup {Bare}
          /\ \E i \in DOMAIN target.stack : Mounted(target) = target.stack[i]
      BY <2>2, PathLooks DEF IInv, MountInv, Path
    <3> QED BY <3>1 DEF IInv, MountInv
  <2> QED BY <2>1, <2>2
<1>3. Intact(dev, faults.kinds) => fs # "lost"
  BY DEF Intact, IInv, NeverReformatted, Outrun
<1> QED BY <1>1, <1>2, <1>3 DEF IInv, PlainInv, FileSystems, Formatted

\* NodeExpandVolume: where a caller waits, it goes on with the volume, with a file system
\* and larger than before.
LEMMA ExpandStep == ASSUME IInv, NEW c \in Calls, Expand(c) PROVE IInv'
<1> DEFINE p == IF call[c].op = "expand_staged" THEN staging ELSE target
           Sure == call[c].ctx /\ Intact(dev, faults.kinds) /\ "bare" \notin faults.kinds
<1>1. /\ call[c] \in Handler /\ Sound(call[c], dev, name, fs, growth, faults.kinds)
      /\ call[c].op \in Expansions
      /\ dev \in Devs \cup {Nil} /\ fs \in FileSystems /\ growth \in Growths
  BY DEF IInv, CallInv, PlainInv, Expand
<1>2. UNCHANGED <<dev, name, staging, target, lock, phase, growth, faults>>
  BY DEF Expand
<1>3. /\ call' = [call EXCEPT ![c] = call'[c]]
      /\ call'[c] \in Handler
      /\ call'[c].op = call[c].op /\ call'[c].ctx = call[c].ctx
      /\ call'[c].held = call[c].held /\ call'[c].key = call[c].key
      /\ Sound(call'[c], dev, name, fs', growth, faults.kinds)
      /\ fs' = fs \/ (fs = "made" /\ fs' = "grown")
  <2>1. CASE ExpandCheck(c, p)
    <3>1. call' = [call EXCEPT ![c].pc = "size", ![c].src = Mounted(p)] /\ fs' = fs
          /\ call[c].pc = "check"
      BY <2>1 DEF ExpandCheck
    <3>2. fs # "raw"
      BY <1>1, <3>1 DEF Sound
    <3>3. /\ Mounted(p) \in Devs \cup {Nil, Bare}
          /\ Sure => Mounted(p) = Nil \/ (Mounted(p) = dev /\ Formatted(fs))
      BY <3>2, MountedIsFormatted DEF BareShown
    <3> HIDE DEF p
    <3>4. /\ call' = [call EXCEPT ![c] = call'[c]]
          /\ call'[c] \in Handler
          /\ call'[c].op = call[c].op /\ call'[c].ctx = call[c].ctx
          /\ call'[c].held = call[c].held /\ call'[c].key = call[c].key
          /\ call'[c].pc = "size" /\ call'[c].src = Mounted(p)
      BY <1>1, <3>1, <3>3 DEF IInv, CallInv
    <3> QED BY <1>1, <3>1, <3>2, <3>3, <3>4 DEF Sound
  <2>2. CASE ExpandSize(c)
    <3>1. PICK found \in Found(call[c].src) :
             Go(c, IF /\ call[c].ctx /\ found # "none"
                      /\ found = "volume" => growth # "asked"
                   THEN "resize" ELSE "Internal")
      BY <2>2 DEF ExpandSize
    <3>2. PICK pc \in {"resize", "Internal"} :
             /\ Go(c, pc)
             /\ pc = "resize" => /\ found # "none"
                                 /\ found = "volume" => growth # "asked"
      BY <3>1
    <3>3. fs' = fs /\ call[c].pc = "size"
      BY <2>2 DEF ExpandSize
    <3>4. /\ call' = [call EXCEPT ![c] = call'[c]]
          /\ call'[c] \in Handler
          /\ call'[c].op = call[c].op /\ call'[c].ctx = call[c].ctx
          /\ call'[c].held = call[c].held /\ call'[c].key = call[c].key
          /\ call'[c].pc = pc /\ call'[c].src = call[c].src
      BY <3>2, OneGoes DEF IInv, CallInv
    <3>5. Sure /\ pc = "resize" =>
             call[c].src = dev /\ Formatted(fs) /\ growth \in {"seen", "told"}
      <4> SUFFICES ASSUME Sure, pc = "resize"
                   PROVE  call[c].src = dev /\ Formatted(fs) /\ growth \in {"seen", "told"}
        OBVIOUS
      <4>1. call[c].src = Nil \/ (call[c].src = dev /\ Formatted(fs))
        BY <1>1, <3>3 DEF Sound
      <4>2. call[c].src # Nil /\ dev # Nil
        BY <3>1, <3>2, FoundIs DEF Intact
      <4>3. found = "volume"
        BY <3>1, <4>1, <4>2, FoundIs
      <4> QED BY <1>1, <3>2, <4>1, <4>2, <4>3 DEF Sound
    <3> QED BY <1>1, <3>3, <3>4, <3>5 DEF Sound
  <2>3. CASE ExpandResize(c)
    <3>1. PICK found \in Found(call[c].src) :
             /\ Go(c, IF found = "none" THEN "Internal" ELSE "OK")
             /\ fs' = IF found = "volume" /\ fs = "made" THEN Made ELSE fs
      BY <2>3 DEF ExpandResize
    <3>2. PICK pc \in {"OK", "Internal"} : Go(c, pc)
      BY <3>1
    <3>3. /\ call' = [call EXCEPT ![c] = call'[c]]
          /\ call'[c] \in Handler
          /\ call'[c].op = call[c].op /\ call'[c].ctx = call[c].ctx
          /\ call'[c].held = call[c].held /\ call'[c].key = call[c].key
          /\ call'[c].pc = pc
      BY <3>2, OneGoes DEF IInv, CallInv
    <3>4. fs # "raw" /\ call[c].pc = "resize" /\ growth # "none"
      BY <1>1, <2>3 DEF ExpandResize, Sound
    <3>5. fs' = fs \/ (fs = "made" /\ fs' = "grown")
      BY <3>1 DEF Made
    <3>6. Sure => fs' = "grown"
      <4> SUFFICES ASSUME Sure PROVE fs' = "grown"
        OBVIOUS
      <4>1. call[c].src = dev /\ Formatted(fs) /\ growth \in {"seen", "told"} /\ dev # Nil
        BY <1>1, <3>4 DEF Sound, Intact
      <4>2. found = "volume"
        BY <3>1, <4>1, FoundIs
      <4> QED BY <3>1, <4>1, <4>2 DEF Made, Formatted
    <3> QED BY <1>1, <3>3, <3>4, <3>5, <3>6 DEF Sound
  <2> QED BY <2>1, <2>2, <2>3 DEF Expand
<1>4. GoesOn(fs, growth, fs', growth')
  BY <1>2, <1>3 DEF GoesOn
<1>5. LockInv' /\ CallInv'
  BY <1>2, <1>3, <1>4, OneMoves, LockKept DEF IInv
<1>6. PlainInv' /\ ExpandedIsGrown' /\ NeverReformatted'
  BY <1>2, <1>3
  DEF IInv, PlainInv, NeverReformatted, ExpandedIsGrown, Outrun, BareShown, Block,
      FileSystems
<1>7. MountInv'
  BY <1>2, <1>3 DEF IInv, MountInv, Formatted, BareShown
<1> QED BY <1>5, <1>6, <1>7 DEF IInv

LEMMA StepIInv == IInv /\ CallerInv /\ [Next]_vars => IInv'
<1> SUFFICES ASSUME IInv, CallerInv, [Next]_vars PROVE IInv'
  OBVIOUS
<1>1. ASSUME NEW c \in Calls, HandlerStep(c)
      PROVE  IInv'
  BY <1>1, StageLockStep, FindDeviceStep, LookStep, StageMkfsStep, StageMountStep,
     PublishMountStep, UnstageStep, UnpublishStep, ExpandStep, ReturnStep
  DEF HandlerStep
<1>2. ASSUME NEW c \in Calls, Fails(c) \/ Timeout(c)
      PROVE  IInv'
  BY <1>2, FaultStep
<1>3. ASSUME NEW c \in Calls, NEW op \in Ops, CallNode(c, op)
      PROVE  IInv'
  BY <1>3, CallNodeStep
<1>4. ASSUME NEW c \in Calls, NEW op \in Expansions, CallExpand(c, op)
      PROVE  IInv'
  BY <1>4, CallExpandStep
<1>5. CASE UNCHANGED vars
  BY <1>5
  DEF vars, IInv, PlainInv, MountInv, LockInv, CallInv, NeverReformatted,
      ExpandedIsGrown, Outrun, BareShown, Block
<1> QED
  BY <1>1, <1>2, <1>3, <1>4, <1>5, AttachStep, OutsideStep, CrashStep, RebootStep DEF Next

-----------------------------------------------------------------------------
(* What the kubelet was told of the paths, while every handler has a caller *)
(* that waits for it: then there is one handler at most, and the paths      *)
(* change only as its call wants it.                                        *)

Empty(p) == p.stack = << >>

\* The volume, and nothing else, is mounted at the path.
Shown(p, d) == p.there /\ p.stack = <<d>>

\* The paths in each phase.
PlaceInv ==
    /\ Empty(staging) \/ Shown(staging, dev)
    /\ Empty(target) \/ Shown(target, dev)
    /\ phase = "idle" => Empty(staging) /\ ~staging.there
    /\ phase \in {"idle", "staging", "staged", "unstaging"} => Empty(target)
    /\ phase \in {"staged", "publishing", "published", "unpublishing"} /\ ~Block
          => Shown(staging, dev)
    /\ phase = "published" => Shown(target, dev)

\* What handler k has found out of the device d, of the volume's file system f and of
\* the paths s and t, or has made of them.
Placed(k, d, f, s, t) ==
    /\ k.op = "stage" =>
          /\ k.pc \in WithDevice => k.src = d
          /\ k.pc \in {"check", "blkid", "mkfs", "mount"} => s.there
          /\ k.pc \in {"blkid", "mkfs", "mount"} => Empty(s)
          /\ k.pc = "OK" /\ f # "raw" => Shown(s, d)
    /\ k.op = "publish" =>
          /\ k.pc \in WithDevice /\ f = "raw" => k.src = d
          /\ k.pc = "mount" => Empty(t)
          /\ k.pc = "OK" => Shown(t, d)
    /\ k.op = "unstage" =>
          /\ k.pc = "rmdir" => Empty(s)
          /\ k.pc = "OK" => Empty(s) /\ ~s.there
    /\ k.op = "unpublish" /\ k.pc \in {"rmdir", "OK"} => Empty(t)

QuietInv ==
    /\ PlaceInv
    /\ \A c \in Calls : /\ call[c].op # "idle" => call[c].ctx
                        /\ Placed(call[c], dev, fs, staging, target)

PathInv == CallerInv /\ (~Overlapped => QuietInv)

\* The paths that the handlers look at, mount on and undo.
LEMMA ShownPath ==
    ASSUME NEW D, NEW d \in D, NEW p \in [there : BOOLEAN, stack : Seq(D)]
    PROVE  /\ Empty(p) => Mounted(p) = Nil /\ Top(p) = Bare
           /\ Shown(p, d) => Mounted(p) = d /\ Top(p) = d /\ Empty(Pop(p))
           /\ Empty(p) /\ p.there => Shown(Push(p, d), d)
<1>1. Empty(p) => Mounted(p) = Nil /\ Top(p) = Bare
  BY DEF Empty, Mounted, Top
<1>2. Shown(p, d) => Mounted(p) = d /\ Top(p) = d
  BY DEF Shown, Mounted, Top
<1>3. Shown(p, d) => Empty(Pop(p))
  <2> SUFFICES ASSUME Shown(p, d) PROVE Empty(Pop(p))
    OBVIOUS
  <2>1. p.stack = <<d>> /\ Len(p.stack) = 1
    BY DEF Shown
  <2>2. SubSeq(p.stack, 1, Len(p.stack) - 1) = << >>
    BY <2>1, SubSeqEmpty, 0 \in Int, 1 \in Int
  <2>3. Pop(p).stack = SubSeq(p.stack, 1, Len(p.stack) - 1)
    BY DEF Pop
  <2> QED BY <2>2, <2>3 DEF Empty
<1>4. Empty(p) /\ p.there => Shown(Push(p, d), d)
  <2> SUFFICES ASSUME Empty(p), p.there
               PROVE  Push(p, d).there /\ Push(p, d).stack = <<d>>
    BY DEF Shown
  <2>1. Append(p.stack, d) = <<d>>
    BY DEF Empty
  <2>2. Push(p, d).there = p.there /\ Push(p, d).stack = Append(p.stack, d)
    BY DEF Push
  <2> QED BY <2>1, <2>2
<1> QED BY <1>1, <1>2, <1>3, <1>4

LEMMA PathsTyped ==
    ASSUME IInv
    PROVE  /\ staging \in [there : BOOLEAN, stack : Seq(Devs)]
           /\ target \in [there : BOOLEAN, stack : Seq(Devs \cup {Bare})]
BY DEF IInv, MountInv, Path

\* The only handler: its caller waits.
LEMMA Alone ==
    ASSUME IInv, CallerInv, QuietInv, NEW c \in Calls, call[c].op # "idle"
    PROVE  /\ call[c] \in Handler /\ call[c].ctx
           /\ Sound(call[c], dev, name, fs, growth, faults.kinds)
           /\ Placed(call[c], dev, fs, staging, target)
           /\ \A d \in Calls : d # c => call[d].op = "idle"
           /\ \/ call[c].op \in Ops /\ phase = During(call[c].op)
              \/ call[c].op = "expand_staged" /\ phase = "staged"
              \/ call[c].op = "expand_published" /\ phase = "published"
           /\ dev \in Devs
<1>1. phase # "idle"
  BY DEF CallerInv, QuietInv, Ops, During
<1> QED BY <1>1 DEF IInv, PlainInv, CallInv, CallerInv, QuietInv

\* What is recorded beside timeouts tells nothing of them.
LEMMA RecordedKeeps ==
    ASSUME PlainInv, NEW kind, NEW happens, Recorded(kind, happens), kind # "timeout"
    PROVE  Overlapped' = Overlapped
BY DEF PlainInv, Recorded, Overlapped

\* A handler takes a step within its call.
LEMMA WithinCall ==
    ASSUME IInv, CallerInv, NEW c \in Calls,
           call' = [call EXCEPT ![c] = call'[c]],
           call'[c].op = call[c].op, call'[c].ctx => call[c].ctx,
           UNCHANGED <<dev, phase>>
    PROVE  CallerInv'
<1>1. \A d \in Calls : call'[d].op = call[d].op /\ (call'[d].ctx => call[d].ctx)
  BY DEF IInv, CallInv
<1> QED BY <1>1 DEF CallerInv

\* It is the only one, and leaves the paths as its call wants them.
LEMMA QuietMove ==
    ASSUME IInv, CallerInv, QuietInv, NEW c \in Calls, call[c].op # "idle",
           call' = [call EXCEPT ![c] = call'[c]],
           call'[c].op = call[c].op, call'[c].ctx = call[c].ctx,
           PlaceInv', Placed(call'[c], dev', fs', staging', target')
    PROVE  QuietInv'
<1>1. ASSUME NEW d \in Calls, d # c
      PROVE  call'[d] = call[d] /\ call'[d].op = "idle"
  BY <1>1, Alone DEF IInv, CallInv
<1>2. ASSUME NEW d \in Calls
      PROVE  /\ call'[d].op # "idle" => call'[d].ctx
             /\ Placed(call'[d], dev', fs', staging', target')
  BY <1>1, Alone DEF Placed
<1> QED BY <1>2 DEF QuietInv

-----------------------------------------------------------------------------
(* Steps of the handlers that keep to one path: what each finds or makes.   *)

\* A step of handler c within its call, as far as all such steps are alike.
Within(c) ==
    /\ call[c].op # "idle"
    /\ call' = [call EXCEPT ![c] = call'[c]]
    /\ call'[c].op = call[c].op /\ call'[c].ctx = call[c].ctx
    /\ UNCHANGED <<dev, phase>>
    /\ Overlapped' = Overlapped

LEMMA WithinPath ==
    ASSUME IInv, CallerInv, NEW c \in Calls, Within(c), ~Overlapped => QuietInv,
           QuietInv => PlaceInv' /\ Placed(call'[c], dev', fs', staging', target')
    PROVE  PathInv'
<1>1. CallerInv'
  BY WithinCall DEF Within
<1> QED BY <1>1, QuietMove DEF Within, PathInv

\* A handler that goes on to pc.
LEMMA GoWithin ==
    ASSUME IInv, NEW c \in Calls, call[c].op # "idle", NEW pc, Go(c, pc),
           UNCHANGED <<dev, phase>>, Overlapped' = Overlapped
    PROVE  Within(c) /\ call'[c].pc = pc /\ call'[c].src = call[c].src
BY DEF IInv, CallInv, Go, Within

LEMMA StageLockPath ==
    ASSUME IInv, PathInv, NEW c \in Calls, StageLock(c)
    PROVE  PathInv'
<1>1. PICK pc \in {"dev", "Internal"} :
         call' = [call EXCEPT ![c] = call'[c]] /\ call'[c].pc = pc
         /\ call'[c].op = call[c].op /\ call'[c].ctx = call[c].ctx
  BY DEF StageLock, Go, IInv, CallInv
<1>2. Within(c) /\ call[c].op = "stage"
  BY <1>1 DEF Within, StageLock, At, Overlapped
<1>3. QuietInv => PlaceInv'
  BY DEF QuietInv, PlaceInv, StageLock, Block
<1>4. Placed(call'[c], dev', fs', staging', target')
  BY <1>1, <1>2 DEF Placed, WithDevice
<1> QED BY <1>2, <1>3, <1>4, WithinPath DEF PathInv

LEMMA FindDevicePath ==
    ASSUME IInv, PathInv, NEW c \in Calls, FindDevice(c), call[c].op # "idle"
    PROVE  PathInv'
<1>1. /\ call' = [call EXCEPT ![c] = call'[c]]
      /\ call'[c].op = call[c].op /\ call'[c].ctx = call[c].ctx
      /\ \/ call'[c].pc = "Internal"
         \/ call'[c].pc = "path" /\ call'[c].src = dev
  BY DEF FindDevice, Go, IInv, CallInv
<1>2. Within(c)
  BY <1>1 DEF Within, FindDevice, Overlapped
<1>3. QuietInv => PlaceInv'
  BY DEF QuietInv, PlaceInv, FindDevice, Block
<1>4. Placed(call'[c], dev', fs', staging', target')
  BY <1>1 DEF Placed, WithDevice, FindDevice
<1> QED BY <1>2, <1>3, <1>4, WithinPath DEF PathInv

LEMMA StagePathPath ==
    ASSUME IInv, PathInv, NEW c \in Calls, StagePath(c)
    PROVE  PathInv'
<1>1. /\ Within(c) /\ call'[c].pc = "check" /\ call'[c].src = call[c].src
      /\ call[c].op = "stage" /\ call'[c].op = "stage"
  BY GoWithin DEF StagePath, At, Within, Overlapped
<1>2. /\ staging'.there = TRUE /\ staging'.stack = staging.stack
      /\ UNCHANGED <<dev, fs, target, phase>>
  BY PathsTyped DEF StagePath
<1>3. QuietInv => PlaceInv' /\ Placed(call'[c], dev', fs', staging', target')
  <2> SUFFICES ASSUME QuietInv
               PROVE  PlaceInv' /\ Placed(call'[c], dev', fs', staging', target')
    OBVIOUS
  <2>1. phase = "staging" /\ call[c].src = dev
    BY <1>1, Alone DEF PathInv, StagePath, At, Placed, WithDevice, Ops, During
  <2> QED BY <1>1, <1>2, <2>1 DEF QuietInv, PlaceInv, Placed, Empty, Shown, Block
<1> QED BY <1>1, <1>3, WithinPath DEF PathInv

LEMMA StageCheckPath ==
    ASSUME IInv, PathInv, NEW c \in Calls, StageCheck(c)
    PROVE  PathInv'
<1>1. /\ Within(c) /\ call'[c].src = call[c].src
      /\ call'[c].pc = IF Mounted(staging) = call[c].src THEN "OK" ELSE "blkid"
      /\ call[c].op = "stage" /\ call'[c].op = "stage"
  BY GoWithin DEF StageCheck, At, Within, Overlapped
<1>2. UNCHANGED <<dev, fs, staging, target, phase>>
  BY DEF StageCheck
<1>3. QuietInv => PlaceInv' /\ Placed(call'[c], dev', fs', staging', target')
  <2> SUFFICES ASSUME QuietInv
               PROVE  PlaceInv' /\ Placed(call'[c], dev', fs', staging', target')
    OBVIOUS
  <2>1. /\ call[c].src = dev /\ staging.there /\ dev \in Devs
        /\ Empty(staging) \/ Shown(staging, dev)
    BY Alone DEF PathInv, StageCheck, At, Placed, WithDevice, QuietInv, PlaceInv
  <2>2. /\ Empty(staging) => Mounted(staging) = Nil
        /\ Shown(staging, dev) => Mounted(staging) = dev
    BY <2>1, ShownPath, PathsTyped
  <2>3. Placed(call'[c], dev, fs, staging, target)
    BY <1>1, <2>1, <2>2 DEF Placed
  <2> QED BY <1>2, <2>3 DEF QuietInv, PlaceInv, Block
<1> QED BY <1>1, <1>3, WithinPath DEF PathInv

LEMMA StageBlkidPath ==
    ASSUME IInv, PathInv, NEW c \in Calls, StageBlkid(c)
    PROVE  PathInv'
<1>1. /\ Within(c) /\ call'[c].src = call[c].src
      /\ call'[c].pc \in {"Internal", "mkfs", "mount"}
      /\ call[c].op = "stage" /\ call'[c].op = "stage" /\ call[c].pc = "blkid"
  BY GoWithin DEF StageBlkid, At, Within, Overlapped
<1>2. UNCHANGED <<dev, fs, staging, target, phase>>
  BY DEF StageBlkid
<1>3. QuietInv => PlaceInv' /\ Placed(call'[c], dev', fs', staging', target')
  <2> SUFFICES ASSUME QuietInv
               PROVE  PlaceInv' /\ Placed(call'[c], dev', fs', staging', target')
    OBVIOUS
  <2>1. Placed(call[c], dev, fs, staging, target)
    BY DEF QuietInv
  <2>2. Placed(call'[c], dev, fs, staging, target)
    BY <1>1, <2>1 DEF Placed, WithDevice
  <2> QED BY <1>2, <2>2 DEF QuietInv, PlaceInv, Block
<1> QED BY <1>1, <1>3, WithinPath DEF PathInv

LEMMA StageMkfsPath ==
    ASSUME IInv, PathInv, NEW c \in Calls, StageMkfs(c)
    PROVE  PathInv'
<1>1. /\ Within(c) /\ call'[c].src = call[c].src
      /\ call'[c].pc \in {"Internal", "mount"}
      /\ call[c].op = "stage" /\ call'[c].op = "stage" /\ call[c].pc = "mkfs"
  BY GoWithin DEF StageMkfs, At, Within, Overlapped
<1>2. UNCHANGED <<dev, staging, target, phase>> /\ fs # "raw" /\ fs' # "raw"
  BY <1>1 DEF StageMkfs, IInv, CallInv, Sound, Made
<1>3. QuietInv => PlaceInv' /\ Placed(call'[c], dev', fs', staging', target')
  <2> SUFFICES ASSUME QuietInv
               PROVE  PlaceInv' /\ Placed(call'[c], dev', fs', staging', target')
    OBVIOUS
  <2>1. Placed(call[c], dev, fs, staging, target)
    BY DEF QuietInv
  <2>2. Placed(call'[c], dev, fs', staging, target)
    BY <1>1, <2>1 DEF Placed, WithDevice
  <2> QED BY <1>2, <2>2 DEF QuietInv, PlaceInv, Block
<1> QED BY <1>1, <1>3, WithinPath DEF PathInv

LEMMA StageMountPath ==
    ASSUME IInv, PathInv, NEW c \in Calls, StageMount(c)
    PROVE  PathInv'
<1>1. /\ call[c].op = "stage" /\ call[c].pc = "mount"
      /\ UNCHANGED <<dev, fs, target, phase, faults>>
      /\ \/ Go(c, "Internal") /\ staging' = staging
         \/ Go(c, "OK") /\ staging' = Push(staging, call[c].src)
  BY DEF StageMount, At
<1>2. Within(c) /\ call'[c].op = "stage" /\ call'[c].src = call[c].src
      /\ call'[c].pc \in {"OK", "Internal"}
      /\ (call'[c].pc = "Internal" => staging' = staging)
      /\ (call'[c].pc = "OK" => staging' = Push(staging, call[c].src))
  BY <1>1, GoWithin DEF Within, Overlapped
<1>3. QuietInv => PlaceInv' /\ Placed(call'[c], dev', fs', staging', target')
  <2> SUFFICES ASSUME QuietInv
               PROVE  PlaceInv' /\ Placed(call'[c], dev', fs', staging', target')
    OBVIOUS
  <2>1. /\ call[c].src = dev /\ staging.there /\ Empty(staging)
        /\ dev \in Devs /\ phase = "staging"
    BY <1>1, Alone DEF PathInv, Placed, WithDevice, Ops, During
  <2>2. call'[c].pc = "OK" => Shown(staging', dev)
    BY <1>2, <2>1, ShownPath, PathsTyped
  <2>3. Placed(call'[c], dev, fs, staging', target)
    BY <1>2, <2>2 DEF Placed, WithDevice
  <2> QED BY <1>1, <1>2, <2>1, <2>2, <2>3 DEF QuietInv, PlaceInv, Block
<1> QED BY <1>2, <1>3, WithinPath DEF PathInv

LEMMA PublishPathPath ==
    ASSUME IInv, PathInv, NEW c \in Calls, PublishPath(c)
    PROVE  PathInv'
<1>1. /\ Within(c) /\ call'[c].pc = "check" /\ call'[c].src = call[c].src
      /\ call[c].op = "publish" /\ call'[c].op = "publish" /\ call[c].pc = "path"
  BY GoWithin DEF PublishPath, At, Within, Overlapped
<1>2. /\ target'.there = TRUE /\ target'.stack = target.stack
      /\ UNCHANGED <<dev, fs, staging, phase>>
  BY PathsTyped DEF PublishPath
<1>3. QuietInv => PlaceInv' /\ Placed(call'[c], dev', fs', staging', target')
  <2> SUFFICES ASSUME QuietInv
               PROVE  PlaceInv' /\ Placed(call'[c], dev', fs', staging', target')
    OBVIOUS
  <2>1. Placed(call[c], dev, fs, staging, target)
    BY DEF QuietInv
  <2> QED
    BY <1>1, <1>2, <2>1 DEF QuietInv, PlaceInv, Placed, Empty, Shown, Block, WithDevice
<1> QED BY <1>1, <1>3, WithinPath DEF PathInv

LEMMA PublishCheckPath ==
    ASSUME IInv, PathInv, NEW c \in Calls, PublishCheck(c)
    PROVE  PathInv'
<1>1. /\ Within(c) /\ call'[c].src = call[c].src
      /\ call'[c].pc = IF Mounted(target) # Nil THEN "OK" ELSE "mount"
      /\ call[c].op = "publish" /\ call'[c].op = "publish" /\ call[c].pc = "check"
  BY GoWithin DEF PublishCheck, At, Within, Overlapped
<1>2. UNCHANGED <<dev, fs, staging, target, phase>>
  BY DEF PublishCheck
<1>3. QuietInv => PlaceInv' /\ Placed(call'[c], dev', fs', staging', target')
  <2> SUFFICES ASSUME QuietInv
               PROVE  PlaceInv' /\ Placed(call'[c], dev', fs', staging', target')
    OBVIOUS
  <2>1. /\ Placed(call[c], dev, fs, staging, target) /\ dev \in Devs
        /\ Empty(target) \/ Shown(target, dev)
    BY <1>1, Alone DEF PathInv, QuietInv, PlaceInv
  <2>2. /\ Empty(target) => Mounted(target) = Nil
        /\ Shown(target, dev) => Mounted(target) = dev
    BY <2>1, ShownPath, PathsTyped
  <2>3. Placed(call'[c], dev, fs, staging, target)
    BY <1>1, <2>1, <2>2 DEF Placed, WithDevice
  <2> QED BY <1>2, <2>3 DEF QuietInv, PlaceInv, Block
<1> QED BY <1>1, <1>3, WithinPath DEF PathInv

LEMMA PublishMountPath ==
    ASSUME IInv, PathInv, NEW c \in Calls, PublishMount(c)
    PROVE  PathInv'
<1> DEFINE source == IF Block THEN call[c].src ELSE Top(staging)
<1>1. /\ call[c].op = "publish" /\ call[c].pc = "mount"
      /\ UNCHANGED <<dev, fs, staging, phase>> /\ Overlapped' = Overlapped
      /\ \/ Go(c, "Internal") /\ target' = target
         \/ Go(c, "OK") /\ target' = Push(target, source) /\ target.there
  <2>1. Overlapped' = Overlapped
    BY RecordedKeeps DEF PublishMount, IInv, Overlapped
  <2> QED BY <2>1 DEF PublishMount, At
<1> HIDE DEF source
<1>2. Within(c) /\ call'[c].op = "publish" /\ call'[c].src = call[c].src
      /\ call'[c].pc \in {"OK", "Internal"}
      /\ (call'[c].pc = "Internal" => target' = target)
      /\ (call'[c].pc = "OK" => target' = Push(target, source) /\ target.there)
  BY <1>1, GoWithin DEF Within, Overlapped
<1>3. QuietInv => PlaceInv' /\ Placed(call'[c], dev', fs', staging', target')
  <2> SUFFICES ASSUME QuietInv
               PROVE  PlaceInv' /\ Placed(call'[c], dev', fs', staging', target')
    OBVIOUS
  <2>1. /\ Empty(target) /\ dev \in Devs /\ phase = "publishing"
        /\ Block => call[c].src = dev
    BY <1>1, Alone DEF PathInv, Placed, WithDevice, Ops, During, Block
  <2>2. ~Block => Top(staging) = dev
    BY <2>1, ShownPath, PathsTyped DEF QuietInv, PlaceInv
  <2>3. source = dev
    BY <2>1, <2>2 DEF source
  <2>4. call'[c].pc = "OK" => Shown(target', dev)
    <3> DEFINE D == Devs \cup {Bare}
    <3>1. target \in [there : BOOLEAN, stack : Seq(D)] /\ dev \in D
      BY <2>1, PathsTyped
    <3> HIDE DEF D
    <3>2. target.there => Shown(Push(target, dev), dev)
      BY <2>1, <3>1, ShownPath
    <3> QED BY <1>2, <2>3, <3>2
  <2>5. Placed(call'[c], dev, fs, staging, target')
    BY <1>2, <2>4 DEF Placed, WithDevice
  <2> QED BY <1>1, <1>2, <2>1, <2>4, <2>5 DEF QuietInv, PlaceInv, Block
<1> QED BY <1>2, <1>3, WithinPath DEF PathInv

\* Undoing a path p, where nothing or only the device d is mounted: q is what is left.
LEMMA UndoLeaves ==
    ASSUME IInv, NEW c \in Calls, call[c].op # "idle", UNCHANGED <<dev, phase, faults>>,
           NEW D, Nil \notin D, NEW d \in D, NEW p \in [there : BOOLEAN, stack : Seq(D)],
           Empty(p) \/ Shown(p, d),
           call[c].pc = "rmdir" => Empty(p),
           NEW q,
           \/ /\ call[c].pc = "path" /\ q = p
              /\ Go(c, IF p.there THEN "check" ELSE "OK")
           \/ /\ call[c].pc = "check" /\ q = p
              /\ Go(c, IF Mounted(p) = Nil THEN "rmdir" ELSE "umount")
           \/ /\ call[c].pc = "umount"
              /\ \/ Go(c, "Internal") /\ q = p
                 \/ p.stack # << >> /\ Go(c, "rmdir") /\ q = Pop(p)
           \/ /\ call[c].pc = "rmdir"
              /\ \/ Go(c, "Internal") /\ q = p
                 \/ Go(c, "OK") /\ q = NoPath
    PROVE  /\ Within(c)
           /\ call'[c].pc \in {"check", "umount", "rmdir", "OK", "Internal"}
           /\ Empty(q) \/ Shown(q, d)
           /\ Empty(p) => Empty(q)
           /\ call'[c].pc = "rmdir" => Empty(q)
           /\ call'[c].pc = "OK" => Empty(q) /\ ~q.there
<1>1. /\ Empty(p) => Mounted(p) = Nil
      /\ Shown(p, d) => Mounted(p) = d /\ Empty(Pop(p))
  BY ShownPath
<1>2. Empty(NoPath) /\ ~NoPath.there
  BY DEF Empty, NoPath
<1>3. Overlapped' = Overlapped
  BY DEF Overlapped
<1>4. p.stack = << >> <=> Empty(p)
  BY DEF Empty
<1>5. Shown(p, d) => p.there
  BY DEF Shown
<1> QED BY <1>1, <1>2, <1>3, <1>4, <1>5, GoWithin

LEMMA UnstagePath ==
    ASSUME IInv, PathInv, NEW c \in Calls, Unstage(c)
    PROVE  PathInv'
<1>1. /\ call[c].op = "unstage" /\ UNCHANGED <<dev, fs, target, phase, faults>>
      /\ \E pc : Go(c, pc)
  BY DEF Unstage, Undo, UndoPath, UndoCheck, UndoUmount, UndoRmdir
<1>2. Within(c) /\ call'[c].op = "unstage"
  BY <1>1, GoWithin DEF Within, Overlapped
<1>3. QuietInv => PlaceInv' /\ Placed(call'[c], dev', fs', staging', target')
  <2> SUFFICES ASSUME QuietInv
               PROVE  PlaceInv' /\ Placed(call'[c], dev', fs', staging', target')
    OBVIOUS
  <2>1. /\ phase = "unstaging" /\ dev \in Devs
        /\ Empty(staging) \/ Shown(staging, dev)
        /\ call[c].pc = "rmdir" => Empty(staging)
    BY <1>1, Alone DEF PathInv, QuietInv, PlaceInv, Placed, Ops, During
  <2>2. /\ Empty(staging') \/ Shown(staging', dev)
        /\ call'[c].pc = "rmdir" => Empty(staging')
        /\ call'[c].pc = "OK" => Empty(staging') /\ ~staging'.there
    BY <1>1, <2>1, UndoLeaves, PathsTyped
    DEF Unstage, Undo, UndoPath, UndoCheck, UndoUmount, UndoRmdir
  <2> QED BY <1>1, <1>2, <2>1, <2>2 DEF QuietInv, PlaceInv, Placed, Block
<1> QED BY <1>2, <1>3, WithinPath DEF PathInv

LEMMA UnpublishPath ==
    ASSUME IInv, PathInv, NEW c \in Calls, Unpublish(c)
    PROVE  PathInv'
<1> DEFINE D == Devs \cup {Bare}
<1>1. /\ call[c].op = "unpublish" /\ UNCHANGED <<dev, fs, staging, phase, faults>>
      /\ \E pc : Go(c, pc)
  BY DEF Unpublish, Undo, UndoPath, UndoCheck, UndoUmount, UndoRmdir
<1>2. Within(c) /\ call'[c].op = "unpublish"
  BY <1>1, GoWithin DEF Within, Overlapped
<1>3. QuietInv => PlaceInv' /\ Placed(call'[c], dev', fs', staging', target')
  <2> SUFFICES ASSUME QuietInv
               PROVE  PlaceInv' /\ Placed(call'[c], dev', fs', staging', target')
    OBVIOUS
  <2>1. /\ phase = "unpublishing" /\ dev \in Devs
        /\ Empty(target) \/ Shown(target, dev)
        /\ call[c].pc = "rmdir" => Empty(target)
    BY <1>1, Alone DEF PathInv, QuietInv, PlaceInv, Placed, Ops, During
  <2>2. dev \in D /\ Nil \notin D /\ target \in [there : BOOLEAN, stack : Seq(D)]
    BY <2>1, PathsTyped
  <2> HIDE DEF D
  <2>3. /\ Empty(target') \/ Shown(target', dev)
        /\ call'[c].pc = "rmdir" => Empty(target')
        /\ call'[c].pc = "OK" => Empty(target')
    BY <1>1, <2>1, <2>2, UndoLeaves
    DEF Unpublish, Undo, UndoPath, UndoCheck, UndoUmount, UndoRmdir
  <2> QED BY <1>1, <1>2, <2>1, <2>3 DEF QuietInv, PlaceInv, Placed, Block
<1> QED BY <1>2, <1>3, WithinPath DEF PathInv

\* Steps that look at paths at most, of NodeExpandVolume and of a call that fails.
LEMMA NoPathStep ==
    ASSUME IInv, PathInv, NEW c \in Calls, Within(c),
           UNCHANGED <<staging, target>>, (fs' = "raw") = (fs = "raw"),
           call[c].op \in Expansions \/ call'[c].pc = "Internal"
    PROVE  PathInv'
<1>1. QuietInv => PlaceInv'
  BY DEF QuietInv, PlaceInv, Within, Block
<1>2. Placed(call'[c], dev', fs', staging', target')
  BY DEF Placed, Within, WithDevice
<1> QED BY <1>1, <1>2, WithinPath DEF PathInv

LEMMA ExpandPath ==
    ASSUME IInv, PathInv, NEW c \in Calls, Expand(c)
    PROVE  PathInv'
<1> DEFINE p == IF call[c].op = "expand_staged" THEN staging ELSE target
<1>1. call[c].op \in Expansions /\ UNCHANGED <<dev, staging, target, phase, faults>>
  BY DEF Expand
<1>2. Within(c)
  <2>1. CASE ExpandCheck(c, p)
    <3> HIDE DEF p
    <3>1. call' = [call EXCEPT ![c].pc = "size", ![c].src = Mounted(p)]
      BY <2>1 DEF ExpandCheck
    <3> QED BY <1>1, <3>1 DEF Within, IInv, CallInv, Overlapped
  <2>2. CASE ExpandSize(c)
    <3>1. \E pc : Go(c, pc)
      BY <2>2 DEF ExpandSize
    <3> QED BY <1>1, <3>1, GoWithin DEF Overlapped
  <2>3. CASE ExpandResize(c)
    <3>1. \E pc : Go(c, pc)
      BY <2>3 DEF ExpandResize
    <3> QED BY <1>1, <3>1, GoWithin DEF Overlapped
  <2> QED BY <2>1, <2>2, <2>3 DEF Expand
<1>3. (fs' = "raw") = (fs = "raw")
  BY DEF Expand, ExpandCheck, ExpandSize, ExpandResize, Made
<1> QED BY <1>1, <1>2, <1>3, NoPathStep

LEMMA FailsPath ==
    ASSUME IInv, PathInv, NEW c \in Calls, Fails(c)
    PROVE  PathInv'
<1>1. Overlapped' = Overlapped
  BY DEF Fails, Fault, Overlapped
<1>2. Within(c) /\ call'[c].pc = "Internal"
  BY <1>1, GoWithin DEF Fails
<1> QED BY <1>2, NoPathStep DEF Fails

-----------------------------------------------------------------------------
(* Calls and answers, and what happens around the driver.                  *)

\* From a call that outlives its caller on nothing is claimed of the paths.
LEMMA TimeoutPath ==
    ASSUME IInv, PathInv, NEW c \in Calls, Timeout(c)
    PROVE  PathInv'
<1>1. Overlapped'
  BY DEF Timeout, Fault, Overlapped
<1>2. /\ call' = [call EXCEPT ![c] = call'[c]]
      /\ call'[c].op = call[c].op /\ call'[c].ctx = FALSE
  BY DEF Timeout, IInv, CallInv
<1>3. CallerInv'
  BY <1>2, WithinCall DEF PathInv, Timeout
<1> QED BY <1>1, <1>3 DEF PathInv

\* The kubelet is told OK: the handler has made of the paths what the answer says.
LEMMA ReturnPath ==
    ASSUME IInv, PathInv, NEW c \in Calls, Return(c)
    PROVE  PathInv'
<1>1. /\ call[c].op # "idle"
      /\ call[c] \in Handler
      /\ UNCHANGED <<dev, fs, staging, target, faults>>
      /\ phase' = IF call[c].ctx /\ call[c].pc = "OK" THEN After(call[c].op) ELSE phase
      /\ Overlapped' = Overlapped
  BY DEF Return, Told, Overlapped, IInv, CallInv
<1>2. \A d \in Calls : call'[d] = IF d = c THEN NoHandler ELSE call[d]
  BY DEF Return, IInv, CallInv
<1>3. call[c].ctx =>
         /\ phase # "idle"
         /\ \A d \in Calls : d # c => ~call[d].ctx
         /\ \/ call[c].op \in Ops /\ phase = During(call[c].op)
            \/ call[c].op \in Expansions
  BY DEF PathInv, CallerInv, Ops, During
<1>4. CallerInv'
  BY <1>1, <1>2, <1>3 DEF PathInv, CallerInv, Ops, After, During
<1>5. ASSUME ~Overlapped'
      PROVE  QuietInv'
  <2>1. QuietInv /\ call[c].ctx /\ Placed(call[c], dev, fs, staging, target)
    BY <1>1, <1>5 DEF PathInv, QuietInv
  <2>2. /\ PlaceInv
        /\ \/ call[c].op \in Ops /\ phase = During(call[c].op)
           \/ call[c].op \in Expansions
    BY <1>3, <2>1 DEF QuietInv
  <2>3. CASE call[c].pc = "OK" /\ call[c].op \in Ops
    <3>1. phase' = After(call[c].op) /\ phase = During(call[c].op)
      BY <1>1, <2>1, <2>2, <2>3 DEF Ops
    <3>2. PlaceInv'
      <4>1. CASE call[c].op = "stage"
        BY <1>1, <2>1, <2>2, <2>3, <3>1, <4>1
        DEF PlaceInv, Placed, After, During, Block
      <4>2. CASE call[c].op = "publish"
        BY <1>1, <2>1, <2>2, <2>3, <3>1, <4>2
        DEF PlaceInv, Placed, After, During, Block
      <4>3. CASE call[c].op = "unstage"
        BY <1>1, <2>1, <2>2, <2>3, <3>1, <4>3
        DEF PlaceInv, Placed, After, During, Block
      <4>4. CASE call[c].op = "unpublish"
        BY <1>1, <2>1, <2>2, <2>3, <3>1, <4>4
        DEF PlaceInv, Placed, After, During, Block
      <4> QED BY <2>3, <4>1, <4>2, <4>3, <4>4 DEF Ops
    <3> QED BY <1>1, <1>2, <2>1, <3>2 DEF QuietInv, Placed
  <2>4. CASE ~(call[c].pc = "OK" /\ call[c].op \in Ops)
    <3>1. phase' = phase
      BY <1>1, <2>2, <2>4 DEF After
    <3> QED BY <1>1, <1>2, <2>1, <2>2, <3>1 DEF QuietInv, PlaceInv, Placed, Block
  <2> QED BY <2>3, <2>4
<1> QED BY <1>4, <1>5 DEF PathInv

\* The kubelet calls: nobody else is there.
LEMMA CallPath ==
    ASSUME IInv, PathInv, NEW c \in Calls,
           \/ \E op \in Ops : CallNode(c, op)
           \/ \E op \in Expansions : CallExpand(c, op)
    PROVE  PathInv'
<1>1. /\ call[c].op = "idle" /\ \A d \in Calls : ~call[d].ctx
      /\ dev # Nil
      /\ UNCHANGED <<dev, fs, staging, target, faults>>
  BY DEF CallNode, CallExpand, PathInv, CallerInv
<1>2. \A d \in Calls : d # c => call'[d] = call[d]
  BY DEF IInv, CallInv, CallNode, CallExpand
<1>3. /\ call'[c].ctx = TRUE /\ call'[c].src = Nil
      /\ \/ /\ call'[c].op \in Ops /\ phase \in Before(call'[c].op)
            /\ phase' = During(call'[c].op) /\ call'[c].pc = First(call'[c].op)
         \/ call'[c].op = "expand_staged" /\ phase = "staged" /\ phase' = phase
         \/ call'[c].op = "expand_published" /\ phase = "published" /\ phase' = phase
  <2>1. ASSUME NEW op \in Ops, CallNode(c, op)
        PROVE  /\ call'[c].ctx = TRUE /\ call'[c].src = Nil
               /\ call'[c].op \in Ops /\ phase \in Before(call'[c].op)
               /\ phase' = During(call'[c].op) /\ call'[c].pc = First(call'[c].op)
    BY <2>1 DEF IInv, CallInv, CallNode
  <2>2. ASSUME NEW op \in Expansions, CallExpand(c, op)
        PROVE  /\ call'[c].ctx = TRUE /\ call'[c].src = Nil
               /\ \/ /\ call'[c].op = "expand_staged" /\ phase = "staged"
                  \/ /\ call'[c].op = "expand_published" /\ phase = "published"
               /\ phase' = phase
    BY <2>2 DEF IInv, CallInv, CallExpand
  <2> QED BY <2>1, <2>2
<1>4. CallerInv'
  BY <1>1, <1>2, <1>3 DEF CallerInv, Ops
<1>5. ASSUME ~Overlapped'
      PROVE  QuietInv'
  <2>1. QuietInv
    BY <1>1, <1>5 DEF PathInv, Overlapped
  <2>2. PlaceInv'
    BY <1>1, <1>3, <2>1 DEF QuietInv, PlaceInv, Ops, Before, During, Block
  <2>3. Placed(call'[c], dev', fs', staging', target')
    BY <1>1, <1>3 DEF Placed, First, Ops, Block, WithDevice
  <2> QED BY <1>1, <1>2, <1>3, <2>1, <2>2, <2>3 DEF QuietInv
<1> QED BY <1>4, <1>5 DEF PathInv

LEMMA OutsidePath ==
    ASSUME IInv, PathInv, Attach \/ Detach \/ Grow \/ Appear
    PROVE  PathInv'
<1>1. UNCHANGED <<fs, staging, target, call, phase>>
      /\ (dev' = dev \/ phase = "idle")
  BY DEF Attach, Detach, Grow, Appear
<1>2. CallerInv'
  BY <1>1 DEF PathInv, CallerInv
<1>3. ASSUME QuietInv
      PROVE  QuietInv'
  <2>1. CASE dev' = dev
    BY <1>1, <1>3, <2>1 DEF QuietInv, PlaceInv, Block
  <2>2. CASE phase = "idle"
    <3>1. \A c \in Calls : call[c].op = "idle"
      BY <1>3, <2>2, Alone DEF PathInv, Ops, During
    <3> QED BY <1>1, <1>3, <2>2, <3>1 DEF QuietInv, PlaceInv, Placed, Block
  <2> QED BY <1>1, <2>1, <2>2
<1>4. Overlapped' = Overlapped
  BY RecordedKeeps DEF Attach, Detach, Grow, Appear, IInv, Overlapped
<1> QED BY <1>2, <1>3, <1>4 DEF PathInv

\* The handlers are gone; after a restart of the node so are the mounts.
LEMMA RestartPath ==
    ASSUME IInv, PathInv, Crash \/ Reboot
    PROVE  PathInv'
<1>1. /\ call' = [c \in Calls |-> NoHandler] /\ UNCHANGED fs
      /\ Overlapped' = Overlapped
  BY DEF Crash, Reboot, Fault, Overlapped
<1>2. \/ UNCHANGED <<dev, staging, target, phase>>
      \/ /\ Empty(staging') /\ staging'.there = staging.there /\ Empty(target')
         /\ phase' = IF phase = "idle" THEN "idle" ELSE "staging"
         /\ dev # Nil => dev' # Nil
  BY PathsTyped DEF Crash, Reboot, Empty
<1>3. CallerInv'
  BY <1>1, <1>2 DEF PathInv, CallerInv
<1>4. ASSUME QuietInv
      PROVE  QuietInv'
  BY <1>1, <1>2, <1>4 DEF QuietInv, PlaceInv, Placed, Block
<1> QED BY <1>1, <1>3, <1>4 DEF PathInv

LEMMA StepPathInv == IInv /\ PathInv /\ [Next]_vars => PathInv'
<1> SUFFICES ASSUME IInv, PathInv, [Next]_vars PROVE PathInv'
  OBVIOUS
<1>1. ASSUME NEW c \in Calls, HandlerStep(c)
      PROVE  PathInv'
  <2>1. CASE FindDevice(c)
    <3>1. call[c].op # "idle"
      BY <2>1 DEF FindDevice, IInv, CallInv, Sound
    <3> QED BY <2>1, <3>1, FindDevicePath
  <2> QED
    BY <1>1, <2>1, StageLockPath, StagePathPath, StageCheckPath, StageBlkidPath,
       StageMkfsPath, StageMountPath, PublishPathPath, PublishCheckPath,
       PublishMountPath, UnstagePath, UnpublishPath, ExpandPath, ReturnPath
    DEF HandlerStep
<1>2. CASE UNCHANGED vars
  BY <1>2 DEF vars, PathInv, CallerInv, QuietInv, PlaceInv, Overlapped, Block
<1> QED
  BY <1>1, <1>2, FailsPath, TimeoutPath, CallPath, OutsidePath, RestartPath DEF Next

LEMMA InitPathInv == Init => PathInv
BY DEF Init, PathInv, CallerInv, QuietInv, PlaceInv, Placed, Empty, NoPath

LEMMA PathInvariance == Spec => [](IInv /\ PathInv)
<1>1. IInv /\ PathInv /\ [Next]_vars => IInv' /\ PathInv'
  BY StepIInv, StepPathInv DEF PathInv
<1> QED BY <1>1, InitIInv, InitPathInv, PTL DEF Spec

-----------------------------------------------------------------------------
(* Theorems.                                                               *)

\* Every variable keeps its type, the mounts that pile up at a path included, and a lock
\* of NodeStageVolume is held by exactly the handler that took it.
THEOREM TypeCorrect == Spec => []TypeOK
<1>1. IInv => TypeOK
  <2> SUFFICES ASSUME IInv PROVE TypeOK
    OBVIOUS
  <2>1. staging.there \in BOOLEAN
        /\ \A i \in DOMAIN staging.stack : staging.stack[i] \in Devs
    BY DEF IInv, MountInv
  <2>2. target.there \in BOOLEAN
        /\ \A i \in DOMAIN target.stack : target.stack[i] \in Devs \cup {Bare}
    BY DEF IInv, MountInv, Path
  <2> QED BY <2>1, <2>2 DEF IInv, PlainInv, LockInv, CallInv, TypeOK, FileSystems
<1> QED BY <1>1, PathInvariance, PTL

\* NodeStageVolume makes a file system on the volume at most once, however many handlers
\* outlive their calls and however often driver and node are restarted, unless the volume
\* was attached again while a handler or a mount of an earlier attachment was left.
THEOREM FormattedOnce == Spec => []NeverReformatted
<1>1. IInv => NeverReformatted
  BY DEF IInv
<1> QED BY <1>1, PathInvariance, PTL

\* An OK of NodeExpandVolume means that the volume's file system has the new size, for
\* good: though the device is only known by what is mounted at the path and never compared
\* with the volume, it is the volume's, unless something of an earlier attachment was left
\* or a bare directory was published.
THEOREM ExpansionsReach == Spec => []ExpandedIsGrown
<1>1. IInv => ExpandedIsGrown
  BY DEF IInv
<1> QED BY <1>1, PathInvariance, PTL

\* While no handler outlives its call, the staging path of a staged volume shows the
\* volume that is attached: through crashes of the driver, restarts of the node that
\* rename the device, failing commands, and every retry.
THEOREM StagedStaysMounted == Spec => []StagedIsMounted
<1>1. IInv /\ PathInv => StagedIsMounted
  <2> SUFFICES ASSUME IInv, PathInv, ~Block, ~Overlapped,
                      phase \in {"staged", "publishing", "published", "unpublishing"}
               PROVE  Top(staging) = dev
    BY DEF StagedIsMounted
  <2>1. Shown(staging, dev) /\ dev \in Devs
    BY DEF PathInv, CallerInv, QuietInv, PlaceInv, IInv, PlainInv
  <2> QED BY <2>1, ShownPath, PathsTyped
<1> QED BY <1>1, PathInvariance, PTL

\* ... and so does the target path of a published volume, never a directory of the node.
THEOREM PublishedStaysVolume == Spec => []PublishedIsVolume
<1>1. IInv /\ PathInv => PublishedIsVolume
  <2> SUFFICES ASSUME IInv, PathInv, ~Overlapped, phase = "published"
               PROVE  target.there /\ Top(target) = dev
    BY DEF PublishedIsVolume
  <2>1. Shown(target, dev) /\ dev \in Devs
    BY DEF PathInv, CallerInv, QuietInv, PlaceInv, IInv, PlainInv
  <2>2. Top(target) = dev
    BY <2>1 DEF Shown, Top
  <2> QED BY <2>1, <2>2 DEF Shown
<1> QED BY <1>1, PathInvariance, PTL

\* ... and an unstaged volume, which may be detached at any moment, is mounted nowhere,
\* nor will a handler mount it.
THEOREM UnstagedStaysClean == Spec => []UnstagedIsClean
<1>1. IInv /\ PathInv => UnstagedIsClean
  <2> SUFFICES ASSUME IInv, PathInv, ~Overlapped, phase = "idle"
               PROVE  /\ staging = NoPath /\ target.stack = << >>
                      /\ \A c \in Calls : call[c].op \notin {"stage", "publish"}
    BY DEF UnstagedIsClean
  <2>1. QuietInv /\ Empty(staging) /\ ~staging.there /\ Empty(target)
    BY DEF PathInv, QuietInv, PlaceInv
  <2>2. staging = NoPath
    BY <2>1, PathsTyped DEF Empty, NoPath
  <2>3. \A c \in Calls : call[c].op = "idle"
    BY <2>1, Alone DEF PathInv, Ops, During
  <2> QED BY <2>1, <2>2, <2>3 DEF Empty
<1> QED BY <1>1, PathInvariance, PTL
=============================================================================
