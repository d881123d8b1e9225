----------------------------- MODULE BootProofs -----------------------------
(***************************************************************************)
(* For any machine: interrupts come up in an order that loses none; the    *)
(* memory map is true once it is carved, from the records of a PVH loader  *)
(* or from the memory nodes of a device tree, whose blocks stay mapped;    *)
(* and what boot finds, and tells the shell and the lab of, is what the    *)
(* loader described.                                                       *)
(***************************************************************************)
EXTENDS Boot, FiniteSetTheorems, SequenceTheorems, WellFoundedInduction, TLAPS

-----------------------------------------------------------------------------
(* Interrupts. *)

\* Boot is over and interrupts are armed.
InShell == pc \in {"shell", "script", "loop"}

\* The console's line, as it was routed.
Line == IF Arm THEN found.uart_irq[1] ELSE UartIrq

\* No interrupt is taken without vectors, every one taken is acknowledged, and
\* COM1's edge is never missed: from the moment its line is routed, a byte that
\* waits has raised it.  In the shell, unless the kernel polls, the timer runs
\* and both lines reach the core.
NoneLost ==
  /\ pc # "lost" /\ active = {}
  /\ ~Arm /\ rx /\ fifo > 0 => UartIrq \in raised
  /\ InShell /\ cpu.published =>
       timer /\ cpu.unmasked /\ ctl.delivering /\ {TimerIrq, Line} \subseteq ctl.enabled

ArmSteps == {"probe", "walk", "open", "mmu", "install", "route", "arm", "shell", "script", "loop", "halted"}
X86Steps == {"install", "discover", "carve", "arm", "ioapic", "timer", "shell", "script", "loop"}

\* aarch64: all at once in route, then unmask.
ArmUp ==
  /\ pc \in ArmSteps
  /\ cpu.unmasked <=> InShell
  /\ pc \in {"route", "arm"} \/ InShell => cpu.vectors
  /\ pc = "arm" \/ InShell =>
       cpu.published /\ ctl.delivering /\ {TimerIrq, Line} \subseteq ctl.enabled
  /\ InShell => timer

\* x86_64: the LAPIC, COM1, the timer, then unmask.
X86Up ==
  /\ pc \in X86Steps
  /\ pc # "install" => cpu.vectors
  /\ cpu.unmasked <=> InShell /\ cpu.published
  /\ pc \in {"install", "discover", "carve", "arm"} => ~cpu.published
  /\ pc \in {"ioapic", "timer"} => cpu.published
  /\ cpu.published => ctl.delivering
  /\ rx => cpu.published /\ UartIrq \in ctl.enabled
  /\ pc = "timer" \/ (InShell /\ cpu.published) => rx
  /\ InShell /\ cpu.published => timer /\ TimerIrq \in ctl.enabled
  /\ rx /\ fifo > 0 => UartIrq \in raised

Flags ==
  /\ cpu = [vectors |-> cpu.vectors, unmasked |-> cpu.unmasked, published |-> cpu.published]
  /\ ctl = [routing |-> ctl.routing, awake |-> ctl.awake, delivering |-> ctl.delivering,
            enabled |-> ctl.enabled]

UpInv ==
  /\ Flags /\ fifo \in Nat /\ typed \in Nat /\ active = {}
  /\ IF Arm THEN ArmUp ELSE X86Up

LEMMA UpInit == Init => UpInv
  <1> SUFFICES ASSUME Init PROVE UpInv
    OBVIOUS
  <1>1. Flags /\ fifo \in Nat /\ typed \in Nat /\ active = {}
    BY DEF Init, Flags
  <1>2. CASE Arm
    BY <1>1, <1>2 DEF Init, UpInv, ArmUp, ArmSteps, InShell
  <1>3. CASE ~Arm
    BY <1>1, <1>3 DEF Init, UpInv, X86Up, X86Steps, InShell
  <1> QED
    BY <1>2, <1>3

\* The distributor, the redistributor and the CPU interface come up in turn.
LEMMA GicUp ==
  ASSUME Flags, NEW timer_irq, NEW irq
  PROVE  /\ GicNew(ctl) = [routing |-> TRUE, awake |-> TRUE, delivering |-> TRUE, enabled |-> ctl.enabled]
         /\ GicEnable(GicEnable(GicNew(ctl), timer_irq), irq)
              = [routing |-> TRUE, awake |-> TRUE, delivering |-> TRUE,
                 enabled |-> ctl.enabled \cup {timer_irq} \cup {irq}]
  <1>1. GicNew(ctl) = [routing |-> TRUE, awake |-> TRUE, delivering |-> TRUE, enabled |-> ctl.enabled]
    <2>1. PICK c : c = Distributor(ctl)
      OBVIOUS
    <2>2. c = [routing |-> TRUE, awake |-> ctl.awake, delivering |-> ctl.delivering, enabled |-> ctl.enabled]
      BY <2>1 DEF Flags, Distributor
    <2>3. PICK d : d = Redistributor(c)
      OBVIOUS
    <2>4. d = [routing |-> TRUE, awake |-> TRUE, delivering |-> ctl.delivering, enabled |-> ctl.enabled]
      <3>1. c.routing = TRUE
        BY <2>2
      <3>2. d = [c EXCEPT !.awake = TRUE]
        BY <2>3, <3>1 DEF Redistributor
      <3> QED
        BY <2>2, <3>2
    <2>5. CpuInterface(d) = [routing |-> TRUE, awake |-> TRUE, delivering |-> TRUE, enabled |-> ctl.enabled]
      <3>1. d.awake = TRUE
        BY <2>4
      <3>2. CpuInterface(d) = [d EXCEPT !.delivering = TRUE]
        BY <3>1 DEF CpuInterface
      <3> QED
        BY <2>4, <3>2
    <2> QED
      BY <2>1, <2>3, <2>5 DEF GicNew
  <1>2. ASSUME NEW lines, NEW one
        PROVE  GicEnable([routing |-> TRUE, awake |-> TRUE, delivering |-> TRUE, enabled |-> lines], one)
                 = [routing |-> TRUE, awake |-> TRUE, delivering |-> TRUE, enabled |-> lines \cup {one}]
    BY DEF GicEnable, EnablePpi, EnableSpi
  <1> QED
    BY <1>1, <1>2

\* A step of boot that has nothing to do with interrupts.
Quiet == UNCHANGED <<input, hardware, signals>>

LEMMA ArmBoots ==
  ASSUME UpInv, Arm, BootStep
  PROVE  UpInv'
  <1>1. Flags /\ ArmUp /\ fifo \in Nat /\ typed \in Nat /\ active = {}
    BY DEF UpInv
  <1>2. CASE Probe \/ Walk \/ Open \/ EnableIdentityMap \/ StartShell \/ RunScript
    <2>1. UNCHANGED <<input, cpu, ctl, timer, typed, fifo, active>>
      BY <1>2 DEF Probe, Walk, Open, EnableIdentityMap, StartShell, RunScript, hardware, signals
    <2>2. /\ pc' \in ArmSteps /\ pc' # "arm" /\ pc' # "route"
          /\ InShell' => InShell /\ found' = found
          /\ InShell => InShell'
      BY <1>1, <1>2 DEF Probe, Walk, Open, EnableIdentityMap, StartShell, RunScript, Halt, ArmSteps,
                        InShell
    <2> QED
      BY <1>1, <2>1, <2>2 DEF UpInv, ArmUp, Flags, Arm, Line, TimerIrq
  <1>3. CASE Install
    <2>1. /\ cpu' = [cpu EXCEPT !.vectors = TRUE] /\ pc' = "route" /\ pc = "install"
          /\ UNCHANGED <<input, ctl, timer, typed, fifo, active>>
      BY <1>3 DEF Install, signals
    <2> QED
      BY <1>1, <2>1 DEF UpInv, ArmUp, Flags, Arm, ArmSteps, InShell
  <1>4. CASE Route
    <2>1. pc = "route" /\ UNCHANGED <<input, found, timer, typed, fifo, active>>
      BY <1>4 DEF Route, signals
    <2>2. CASE pc' = "halted" /\ cpu' = cpu /\ ctl' \in {ctl, GicNew(ctl)}
      <3>1. Flags'
        BY <1>1, <2>2, GicUp DEF Flags
      <3> QED
        BY <1>1, <2>1, <2>2, <3>1 DEF UpInv, ArmUp, Arm, ArmSteps, InShell
    <2>3. CASE /\ ctl' = GicEnable(GicEnable(GicNew(ctl), TimerIrq), found.uart_irq[1])
               /\ cpu' = Publish(cpu) /\ pc' = "arm"
      <3>1. ctl' = [routing |-> TRUE, awake |-> TRUE, delivering |-> TRUE,
                    enabled |-> ctl.enabled \cup {TimerIrq} \cup {found.uart_irq[1]}]
        BY <1>1, <2>3, GicUp
      <3>2. /\ cpu' = [vectors |-> cpu.vectors, unmasked |-> cpu.unmasked, published |-> TRUE]
        BY <1>1, <2>3 DEF Flags, Publish
      <3>3. Flags'
        BY <3>1, <3>2 DEF Flags
      <3>4. ctl'.delivering /\ {TimerIrq, Line}' \subseteq ctl'.enabled
        BY <2>1, <3>1 DEF Line, TimerIrq, Arm
      <3> QED
        BY <1>1, <2>1, <2>3, <3>2, <3>3, <3>4 DEF UpInv, ArmUp, Arm, ArmSteps, InShell
    <2> QED
      BY <1>4, <2>2, <2>3 DEF Route, Halt
  <1>5. CASE ArmTimer
    <2>1. /\ pc = "arm" /\ pc' = "shell" /\ timer' = TRUE
          /\ cpu' = [vectors |-> cpu.vectors, unmasked |-> TRUE, published |-> cpu.published]
          /\ UNCHANGED <<input, found, ctl, typed, fifo, active>>
      BY <1>1, <1>5 DEF ArmTimer, Unmask, Flags, signals
    <2>2. ctl.delivering /\ {TimerIrq, Line} \subseteq ctl.enabled /\ cpu.published /\ cpu.vectors
      BY <1>1, <2>1 DEF ArmUp
    <2>3. Flags' /\ {TimerIrq, Line}' = {TimerIrq, Line}
      BY <1>1, <2>1 DEF Flags, TimerIrq, Line, Arm
    <2> QED
      BY <1>1, <2>1, <2>2, <2>3 DEF UpInv, ArmUp, Arm, ArmSteps, InShell
  <1>6. ~(Discover \/ CarveNext \/ EnableLapic \/ RouteCom \/ StartTimer \/ Poll)
    BY <1>1 DEF Discover, CarveNext, EnableLapic, RouteCom, StartTimer, Poll, ArmUp, ArmSteps
  <1> QED
    BY <1>2, <1>3, <1>4, <1>5, <1>6 DEF BootStep

LEMMA X86Boots ==
  ASSUME UpInv, ~Arm, BootStep
  PROVE  UpInv'
  <1>1. Flags /\ X86Up /\ fifo \in Nat /\ typed \in Nat /\ active = {}
    BY DEF UpInv
  <1>2. CASE StartShell \/ RunScript \/ Discover \/ CarveNext
    <2>1. UNCHANGED <<input, cpu, ctl, timer, rx, typed, fifo, active, raised>>
      BY <1>2 DEF StartShell, RunScript, Discover, CarveNext, hardware, signals
    <2>2. \/ InShell /\ pc' \in {"script", "loop"}
          \/ pc = "discover" /\ pc' \in {"carve", "arm"}
          \/ pc = "carve" /\ pc' \in {"carve", "arm"}
          \/ pc = "script" /\ pc' = "script"
      BY <1>2 DEF StartShell, RunScript, Discover, CarveNext, InShell
    <2> QED
      BY <1>1, <2>1, <2>2 DEF UpInv, X86Up, X86Steps, Flags, Arm, TimerIrq, UartIrq, InShell
  <1>3. CASE Install
    <2>1. /\ cpu' = [vectors |-> TRUE, unmasked |-> cpu.unmasked, published |-> cpu.published]
          /\ pc' = "discover" /\ pc = "install"
          /\ UNCHANGED <<input, ctl, timer, rx, typed, fifo, active, raised>>
      BY <1>1, <1>3 DEF Install, signals, Flags
    <2> QED
      BY <1>1, <2>1 DEF UpInv, X86Up, X86Steps, Flags, Arm, TimerIrq, UartIrq, InShell
  <1>4. CASE EnableLapic
    <2>1. pc = "arm" /\ UNCHANGED <<input, timer, rx, typed, fifo, active, raised>>
      BY <1>4 DEF EnableLapic, signals
    <2>2. CASE /\ ctl' = [ctl EXCEPT !.delivering = TRUE] /\ cpu' = Publish(cpu) /\ pc' = "ioapic"
      <3>1. ctl' = [routing |-> ctl.routing, awake |-> ctl.awake, delivering |-> TRUE, enabled |-> ctl.enabled]
        BY <1>1, <2>2 DEF Flags
      <3>2. cpu' = [vectors |-> cpu.vectors, unmasked |-> cpu.unmasked, published |-> TRUE]
        BY <1>1, <2>2 DEF Flags, Publish
      <3>3. Flags'
        BY <3>1, <3>2 DEF Flags
      <3>4. ~cpu.published /\ cpu.vectors /\ ~rx /\ ~cpu.unmasked
        BY <1>1, <2>1 DEF X86Up
      <3>5. cpu'.vectors /\ ~cpu'.unmasked /\ cpu'.published /\ ctl'.delivering
        BY <3>1, <3>2, <3>4
      <3> QED
        BY <1>1, <2>1, <2>2, <3>3, <3>4, <3>5 DEF UpInv, X86Up, X86Steps, Arm, InShell
    <2>3. CASE pc' = "shell" /\ UNCHANGED <<ctl, cpu>>
      BY <1>1, <2>1, <2>3 DEF UpInv, X86Up, X86Steps, Flags, Arm, TimerIrq, UartIrq, InShell
    <2> QED
      BY <1>4, <2>2, <2>3 DEF EnableLapic
  <1>5. CASE RouteCom
    <2>1. /\ pc = "ioapic" /\ pc' = "timer" /\ rx' = TRUE
          /\ raised' = IF fifo > 0 THEN raised \cup {UartIrq} ELSE raised
          /\ UNCHANGED <<input, cpu, timer, typed, fifo, active>>
      BY <1>5 DEF RouteCom
    <2>2. ctl' = [routing |-> ctl.routing, awake |-> ctl.awake, delivering |-> ctl.delivering,
                  enabled |-> ctl.enabled \cup {UartIrq}]
      BY <1>1, <1>5 DEF RouteCom, RouteLine, Flags
    <2> QED
      BY <1>1, <2>1, <2>2 DEF UpInv, X86Up, X86Steps, Flags, Arm, TimerIrq, UartIrq, InShell
  <1>6. CASE StartTimer
    <2>1. pc = "timer" /\ pc' = "shell" /\ timer' = TRUE /\ UNCHANGED <<input, rx, typed, fifo, active, raised>>
      BY <1>6 DEF StartTimer, signals
    <2>2. ctl' = [routing |-> ctl.routing, awake |-> ctl.awake, delivering |-> ctl.delivering,
                  enabled |-> ctl.enabled \cup {TimerIrq}]
      BY <1>1, <1>6 DEF StartTimer, Flags
    <2>3. cpu' = [vectors |-> cpu.vectors, unmasked |-> TRUE, published |-> cpu.published]
      BY <1>1, <1>6 DEF StartTimer, Unmask, Flags
    <2> QED
      BY <1>1, <2>1, <2>2, <2>3 DEF UpInv, X86Up, X86Steps, Flags, Arm, TimerIrq, UartIrq, InShell
  <1>7. CASE Poll
    <2>1. UNCHANGED <<input, pc, cpu, ctl, timer, rx, typed, active, raised>> /\ fifo' = 0
      BY <1>7 DEF Poll, hardware
    <2> QED
      BY <1>1, <2>1 DEF UpInv, X86Up, X86Steps, Flags, Arm, TimerIrq, UartIrq, InShell
  <1>8. ~(Probe \/ Walk \/ Open \/ EnableIdentityMap \/ Route \/ ArmTimer)
    BY <1>1 DEF Probe, Walk, Open, EnableIdentityMap, Route, ArmTimer, X86Up, X86Steps
  <1> QED
    BY <1>2, <1>3, <1>4, <1>5, <1>6, <1>7, <1>8 DEF BootStep

LEMMA KeysAndTicks ==
  ASSUME UpInv, Type \/ Expire \/ Take(TimerIrq) \/ Take(UartIrq)
  PROVE  UpInv'
  <1>1. /\ Flags /\ fifo \in Nat /\ typed \in Nat /\ active = {}
        /\ IF Arm THEN ArmUp ELSE X86Up
    BY DEF UpInv
  <1>2. UNCHANGED <<input, cpu, ctl, timer, rx, found>> /\ (Arm' <=> Arm)
        /\ Line' = Line /\ TimerIrq' = TimerIrq /\ UartIrq' = UartIrq
    BY DEF Type, Expire, Take, hardware, Arm, Line, TimerIrq, UartIrq
  <1>3. /\ fifo' \in Nat /\ typed' \in Nat /\ pc' = pc /\ active' = {}
        /\ ~Arm => (rx /\ fifo' > 0 => UartIrq \in raised')
    <2>1. CASE Type
      BY <1>1, <2>1 DEF Type, X86Up
    <2>2. CASE Expire
      BY <1>1, <2>2 DEF Expire, X86Up
    <2>3. ASSUME NEW irq \in {TimerIrq, UartIrq}, Take(irq)
          PROVE  /\ fifo' \in Nat /\ typed' \in Nat /\ pc' = pc /\ active' = {}
                 /\ ~Arm => (rx /\ fifo' > 0 => UartIrq \in raised')
      <3>1. cpu.vectors
        BY <1>1, <2>3 DEF Take, ArmUp, X86Up, InShell
      <3>2. pc' = pc /\ typed' = typed
        BY <2>3, <3>1 DEF Take
      <3>3. CASE Arm
        <4>1. OnIrqArm(irq)
          BY <2>3, <3>3 DEF Take
        <4> QED
          BY <1>1, <3>2, <3>3, <4>1 DEF OnIrqArm
      <3>4. CASE ~Arm
        <4>1. OnIrqX86(irq) /\ cpu.published /\ UartIrq = 52 /\ TimerIrq = 48
          BY <1>1, <2>3, <3>4 DEF Take, X86Up, UartIrq, TimerIrq
        <4>2. active' = {} /\ raised' = raised \ {irq} /\ fifo' = IF irq = UartIrq THEN 0 ELSE fifo
          BY <4>1 DEF OnIrqX86
        <4>3. rx /\ fifo > 0 => UartIrq \in raised
          BY <1>1, <3>4 DEF X86Up
        <4> QED
          BY <1>1, <2>3, <3>2, <4>1, <4>2, <4>3
      <3> QED
        BY <3>3, <3>4
    <2> QED
      BY <2>1, <2>2, <2>3
  <1>4. Flags' /\ (InShell' <=> InShell)
    BY <1>1, <1>2, <1>3 DEF Flags, InShell
  <1>5. CASE Arm
    BY <1>1, <1>2, <1>3, <1>4, <1>5 DEF UpInv, ArmUp, ArmSteps
  <1>6. CASE ~Arm
    BY <1>1, <1>2, <1>3, <1>4, <1>6 DEF UpInv, X86Up, X86Steps
  <1> QED
    BY <1>5, <1>6

LEMMA UpStep ==
  ASSUME UpInv, [Next]_vars
  PROVE  UpInv'
  <1>1. CASE BootStep
    BY <1>1, ArmBoots, X86Boots
  <1>2. CASE Type \/ Expire \/ Take(TimerIrq) \/ Take(UartIrq)
    BY <1>2, KeysAndTicks
  <1>3. CASE UNCHANGED vars
    <2>1. UNCHANGED <<input, pc, cpu, ctl, timer, rx, found, typed, fifo, raised, active>>
      BY <1>3 DEF vars, hardware, signals
    <2> QED
      BY <2>1 DEF UpInv, Flags, ArmUp, X86Up, Arm, InShell, Line, TimerIrq, UartIrq
  <1> QED
    BY <1>1, <1>2, <1>3 DEF Next

\* bring_up, arm, on_irq: each stage of either kernel has set up what the next
\* relies on, and nothing later undoes it.
THEOREM UpInductive == Spec => []UpInv
  <1>1. UpInv /\ [Next]_vars => UpInv'
    BY UpStep
  <1> QED
    BY <1>1, UpInit, PTL DEF Spec

\* arm_interrupts and arm, on_irq: from reset to the shell and for ever after,
\* on both kernels and whatever the loader left, no interrupt is lost, taken
\* without vectors, or left unacknowledged.
THEOREM InterruptsComeUp == Spec => []NoneLost
  <1>1. UpInv => NoneLost
    <2> SUFFICES ASSUME UpInv PROVE NoneLost
      OBVIOUS
    <2>1. CASE Arm
      BY <2>1 DEF UpInv, ArmUp, ArmSteps, NoneLost, InShell
    <2>2. CASE ~Arm
      BY <2>2 DEF UpInv, X86Up, X86Steps, NoneLost, InShell, Line, UartIrq, TimerIrq
    <2> QED
      BY <2>1, <2>2
  <1> QED
    BY <1>1, UpInductive, PTL

-----------------------------------------------------------------------------
(* Flattening: an element of a flattened sequence is an element of one of its *)
(* parts, in order, and every element of a part is found.                    *)

LEMMA LeastMember ==
  ASSUME NEW S \in SUBSET Nat, S # {}
  PROVE  Min(S) \in S /\ \A y \in S : Min(S) <= y
  <1>1. PICK x \in S : \A y \in S : ~(<<y, x>> \in OpToRel(<, Nat))
    BY NatLessThanWellFounded, WFMin
  <1>2. ASSUME NEW y \in S, y < x
        PROVE  <<y, x>> \in OpToRel(<, Nat)
    BY <1>2 DEF OpToRel
  <1>3. \A y \in S : ~(y < x)
    BY <1>1, <1>2, Zenon
  <1>4. \A y \in S : x <= y
    BY <1>3
  <1> QED
    BY <1>4 DEF Min

LEMMA MinOfTwo ==
  ASSUME NEW a \in Int, NEW b \in Int
  PROVE  Min({a, b}) = IF a <= b THEN a ELSE b
  <1> DEFINE lo(x) == x \in {a, b} /\ \A y \in {a, b} : x <= y
  <1>1. lo(IF a <= b THEN a ELSE b)
    OBVIOUS
  <1>2. Min({a, b}) = CHOOSE x : lo(x)
    BY Zenon DEF Min
  <1>3. lo(CHOOSE x : lo(x))
    BY <1>1, Zenon
  <1>4. lo(Min({a, b}))
    BY <1>2, <1>3, Zenon
  <1> QED
    BY <1>4

LEMMA MaxOfTwo ==
  ASSUME NEW a \in Int, NEW b \in Int
  PROVE  Max({a, b}) = IF a >= b THEN a ELSE b
  <1> DEFINE hi(x) == x \in {a, b} /\ \A y \in {a, b} : x >= y
  <1>1. hi(IF a >= b THEN a ELSE b)
    OBVIOUS
  <1>2. Max({a, b}) = CHOOSE x : hi(x)
    BY Zenon DEF Max
  <1>3. hi(CHOOSE x : hi(x))
    BY <1>1, Zenon
  <1>4. hi(Max({a, b}))
    BY <1>2, <1>3, Zenon
  <1> QED
    BY <1>4

\* FlattenSeq, unfolded.
Unfolds(f, ss) == f = [i \in 1 .. Len(ss) |-> IF i = 1 THEN ss[i] ELSE f[i - 1] \o ss[i]]
UpTo(ss, k) ==
  \E f : f = [i \in 1 .. k |-> IF i = 1 THEN ss[i] ELSE f[i - 1] \o ss[i]]

LEMMA UpToNext ==
  ASSUME NEW ss, NEW k \in Nat, UpTo(ss, k)
  PROVE  UpTo(ss, k + 1)
  <1>1. PICK f : f = [i \in 1 .. k |-> IF i = 1 THEN ss[i] ELSE f[i - 1] \o ss[i]]
    BY DEF UpTo
  <1> DEFINE last == IF k + 1 = 1 THEN ss[k + 1] ELSE f[k] \o ss[k + 1]
             g == [i \in 1 .. k + 1 |-> IF i <= k THEN f[i] ELSE last]
  <1>2. \A i \in 1 .. k + 1 : g[i] = IF i = 1 THEN ss[i] ELSE g[i - 1] \o ss[i]
    <2> TAKE i \in 1 .. k + 1
    <2>1. CASE i <= k
      <3>1. g[i] = f[i] /\ i \in 1 .. k
        BY <2>1
      <3>2. f[i] = IF i = 1 THEN ss[i] ELSE f[i - 1] \o ss[i]
        BY <1>1, <3>1
      <3>3. i # 1 => g[i - 1] = f[i - 1]
        BY <2>1
      <3> HIDE DEF g
      <3> QED
        BY <3>1, <3>2, <3>3
    <2>2. CASE i = k + 1
      <3>1. g[i] = last
        BY <2>2
      <3>2. i # 1 => g[i - 1] = f[k]
        BY <2>2
      <3> HIDE DEF g
      <3> QED
        BY <2>2, <3>1, <3>2
    <2> QED
      BY <2>1, <2>2
  <1>3. g = [i \in 1 .. k + 1 |-> g[i]]
    OBVIOUS
  <1> HIDE DEF g
  <1>4. g = [i \in 1 .. k + 1 |-> IF i = 1 THEN ss[i] ELSE g[i - 1] \o ss[i]]
    BY <1>2, <1>3
  <1> QED
    BY <1>4 DEF UpTo

LEMMA UpToAll ==
  ASSUME NEW ss, NEW n \in Nat
  PROVE  UpTo(ss, n)
  <1> DEFINE bad == {k \in Nat : ~UpTo(ss, k)}
  <1>1. UpTo(ss, 0)
    <2>1. <<>> = [i \in 1 .. 0 |-> IF i = 1 THEN ss[i] ELSE <<>>[i - 1] \o ss[i]]
      OBVIOUS
    <2> QED
      BY <2>1, Zenon DEF UpTo
  <1>2. CASE bad # {}
    <2>1. PICK k \in bad : \A j \in bad : k <= j
      <3>1. bad \in SUBSET Nat
        OBVIOUS
      <3> QED
        BY <1>2, <3>1, LeastMember
    <2>2. k # 0 /\ k - 1 \in Nat /\ k - 1 \notin bad
      BY <1>1, <2>1
    <2>3. UpTo(ss, k - 1)
      BY <2>2
    <2>4. UpTo(ss, k - 1 + 1)
      BY <2>2, <2>3, UpToNext
    <2> QED
      BY <2>1, <2>2, <2>4
  <1> QED
    BY <1>2

LEMMA FlattenUnfolds ==
  ASSUME NEW ss, Len(ss) \in Nat \ {0}
  PROVE  \E f : Unfolds(f, ss) /\ FlattenSeq(ss) = f[Len(ss)]
  <1> DEFINE f == CHOOSE f : Unfolds(f, ss)
  <1>1. FlattenSeq(ss) = f[Len(ss)]
    BY Zenon DEF FlattenSeq, Unfolds
  <1>2. \E g : Unfolds(g, ss)
    BY UpToAll, Zenon DEF UpTo, Unfolds
  <1>3. Unfolds(f, ss)
    BY <1>2, Zenon
  <1> QED
    BY <1>1, <1>3, Zenon

\* Where each element of a flattened sequence comes from: w takes its places
\* one-to-one onto the places in the parts.
Pairs(ss, k) == {p \in (1 .. k) \X Nat : p[2] \in 1 .. Len(ss[p[1]])}
PlacesOf(w, f, ss, k) ==
  /\ w \in [1 .. Len(f) -> Pairs(ss, k)]
  /\ \A a \in 1 .. Len(f) : f[a] = ss[w[a][1]][w[a][2]]
  /\ \A a, b \in 1 .. Len(f) : w[a] = w[b] => a = b
  /\ \A p \in Pairs(ss, k) : \E a \in 1 .. Len(f) : w[a] = p
Filled(f, ss, k, any) ==
  /\ f \in Seq(any) /\ \E w : PlacesOf(w, f, ss, k)
  /\ (\A i \in 1 .. k : Len(ss[i]) # 0) => Len(f) >= k

LEMMA FilledNext ==
  ASSUME NEW any, NEW ss \in Seq(Seq(any)), NEW k \in Nat, k + 1 <= Len(ss), NEW f, Filled(f, ss, k, any)
  PROVE  Filled(f \o ss[k + 1], ss, k + 1, any)
  <1>1. PICK w : PlacesOf(w, f, ss, k)
    BY DEF Filled
  <1>2. PICK n \in Nat, m \in Nat : n = Len(f) /\ m = Len(ss[k + 1])
    BY DEF Filled
  <1>3. PICK part : part = ss[k + 1] /\ part \in Seq(any)
    OBVIOUS
  <1>4. PICK g : g = f \o part
    OBVIOUS
  <1>5. /\ g \in Seq(any) /\ Len(g) = n + m
        /\ \A a \in 1 .. n : g[a] = f[a]
        /\ \A a \in 1 .. n + m : a > n => g[a] = part[a - n]
    <2>1. f \in Seq(any)
      BY DEF Filled
    <2> QED
      BY <1>2, <1>3, <1>4, <2>1
  <1> DEFINE v == [a \in 1 .. n + m |-> IF a <= n THEN w[a] ELSE <<k + 1, a - n>>]
  <1>6. \A a \in 1 .. n : /\ v[a] = w[a] /\ w[a] \in Pairs(ss, k) /\ f[a] = ss[w[a][1]][w[a][2]]
    <2>1. \A a \in 1 .. n : v[a] = w[a]
      BY <1>2
    <2> HIDE DEF v
    <2> QED
      BY <1>1, <1>2, <2>1 DEF PlacesOf
  <1>7. \A a \in 1 .. n + m : a > n => v[a] = <<k + 1, a - n>>
    BY <1>2
  <1>8. \A a \in 1 .. n : v[a] \in Pairs(ss, k + 1) /\ v[a][1] <= k
    <2> TAKE a \in 1 .. n
    <2>1. w[a] \in Pairs(ss, k) /\ v[a] = w[a]
      BY <1>6
    <2> HIDE DEF v
    <2> QED
      BY <2>1 DEF Pairs
  <1>9. \A a \in 1 .. n + m : a > n => v[a] \in Pairs(ss, k + 1) /\ v[a][1] = k + 1 /\ v[a][2] = a - n
    <2> TAKE a \in 1 .. n + m
    <2> HAVE a > n
    <2>1. v[a] = <<k + 1, a - n>> /\ a - n \in 1 .. m /\ k + 1 \in 1 .. k + 1
      BY <1>2, <1>7
    <2> HIDE DEF v
    <2>2. <<k + 1, a - n>> \in Pairs(ss, k + 1)
      BY <1>2, <2>1 DEF Pairs
    <2> QED
      BY <2>1, <2>2
  <1>10. v \in [1 .. n + m -> Pairs(ss, k + 1)]
    <2>1. \A a \in 1 .. n + m : v[a] \in Pairs(ss, k + 1)
      <3> TAKE a \in 1 .. n + m
      <3>1. a \in 1 .. n \/ a > n
        BY <1>2
      <3> HIDE DEF v
      <3> QED
        BY <1>8, <1>9, <3>1
    <2> QED
      BY <2>1
  <1>11. \A a \in 1 .. n + m : g[a] = ss[v[a][1]][v[a][2]]
    <2> TAKE a \in 1 .. n + m
    <2>1. CASE a \in 1 .. n
      BY <1>5, <1>6, <2>1
    <2>2. CASE a > n
      <3>1. v[a][1] = k + 1 /\ v[a][2] = a - n /\ g[a] = part[a - n]
        BY <1>5, <1>9, <2>2
      <3> HIDE DEF v
      <3> QED
        BY <1>3, <3>1
    <2> QED
      BY <1>2, <2>1, <2>2
  <1>12. \A a, b \in 1 .. n + m : v[a] = v[b] => a = b
    <2> TAKE a, b \in 1 .. n + m
    <2> HAVE v[a] = v[b]
    <2>1. CASE a \in 1 .. n /\ b \in 1 .. n
      <3>1. v[a] = w[a] /\ v[b] = w[b]
        BY <1>6, <2>1
      <3> HIDE DEF v
      <3> QED
        BY <1>1, <1>2, <2>1, <3>1 DEF PlacesOf
    <2>2. CASE a > n /\ b > n
      <3>1. v[a][2] = a - n /\ v[b][2] = b - n
        BY <1>9, <2>2
      <3> HIDE DEF v
      <3> QED
        BY <1>2, <3>1
    <2>3. CASE a \in 1 .. n /\ b > n
      <3>1. v[a][1] <= k /\ v[b][1] = k + 1
        BY <1>8, <1>9, <2>3
      <3> HIDE DEF v
      <3> QED
        BY <3>1
    <2>4. CASE a > n /\ b \in 1 .. n
      <3>1. v[b][1] <= k /\ v[a][1] = k + 1
        BY <1>8, <1>9, <2>4
      <3> HIDE DEF v
      <3> QED
        BY <3>1
    <2> QED
      BY <1>2, <2>1, <2>2, <2>3, <2>4
  <1>13. \A p \in Pairs(ss, k + 1) : \E a \in 1 .. n + m : v[a] = p
    <2> TAKE p \in Pairs(ss, k + 1)
    <2>1. /\ p = <<p[1], p[2]>> /\ p[1] \in 1 .. k + 1 /\ p[2] \in 1 .. Len(ss[p[1]])
      BY DEF Pairs
    <2>2. CASE p[1] = k + 1
      <3>1. p[2] \in 1 .. m /\ n + p[2] \in 1 .. n + m /\ n + p[2] > n
        BY <1>2, <2>1, <2>2
      <3>2. v[n + p[2]] = <<k + 1, p[2]>>
        BY <1>7, <3>1
      <3> QED
        BY <2>1, <2>2, <3>1, <3>2
    <2>3. CASE p[1] # k + 1
      <3>1. p \in Pairs(ss, k)
        BY <2>1, <2>3 DEF Pairs
      <3>2. PICK a \in 1 .. n : w[a] = p
        BY <1>1, <1>2, <3>1 DEF PlacesOf
      <3>3. v[a] = p /\ a \in 1 .. n + m
        BY <1>2, <1>6, <3>2
      <3> QED
        BY <3>3
    <2> QED
      BY <2>2, <2>3
  <1> HIDE DEF v
  <1>14. PlacesOf(v, g, ss, k + 1)
    BY <1>5, <1>10, <1>11, <1>12, <1>13 DEF PlacesOf
  <1>15. (\A i \in 1 .. k + 1 : Len(ss[i]) # 0) => n + m >= k + 1
    <2> HAVE \A i \in 1 .. k + 1 : Len(ss[i]) # 0
    <2>1. n >= k
      BY <1>2 DEF Filled
    <2>2. m # 0
      BY <1>2
    <2> QED
      BY <2>1, <2>2
  <1> QED
    BY <1>3, <1>4, <1>5, <1>14, <1>15 DEF Filled

LEMMA FilledFirst ==
  ASSUME NEW any, NEW ss \in Seq(Seq(any)), Len(ss) # 0
  PROVE  Filled(ss[1], ss, 1, any)
  <1>1. PICK f : f = ss[1] /\ f \in Seq(any)
    OBVIOUS
  <1>2. PICK n \in Nat : n = Len(f)
    BY <1>1
  <1> DEFINE w == [a \in 1 .. n |-> <<1, a>>]
  <1>3. \A a \in 1 .. n : w[a] \in Pairs(ss, 1) /\ w[a][1] = 1 /\ w[a][2] = a
    BY <1>1, <1>2 DEF Pairs
  <1>4. \A p \in Pairs(ss, 1) : p[2] \in 1 .. n /\ w[p[2]] = p
    <2> TAKE p \in Pairs(ss, 1)
    <2>1. p = <<p[1], p[2]>> /\ p[1] = 1 /\ p[2] \in 1 .. n
      BY <1>1, <1>2 DEF Pairs
    <2> QED
      BY <1>3, <2>1
  <1>5. w \in [1 .. n -> Pairs(ss, 1)]
    BY <1>3
  <1> HIDE DEF w
  <1>6. PlacesOf(w, f, ss, 1)
    <2>1. \A a \in 1 .. n : f[a] = ss[w[a][1]][w[a][2]]
      BY <1>1, <1>3
    <2>2. \A a, b \in 1 .. n : w[a] = w[b] => a = b
      <3> TAKE a, b \in 1 .. n
      <3>1. w[a][2] = a /\ w[b][2] = b
        BY <1>3
      <3> QED
        BY <3>1
    <2>3. \A p \in Pairs(ss, 1) : \E a \in 1 .. n : w[a] = p
      BY <1>4
    <2> QED
      BY <1>2, <1>5, <2>1, <2>2, <2>3 DEF PlacesOf
  <1>7. (\A i \in 1 .. 1 : Len(ss[i]) # 0) => n >= 1
    BY <1>1, <1>2
  <1> QED
    BY <1>1, <1>2, <1>6, <1>7 DEF Filled

LEMMA Flattened ==
  ASSUME NEW any, NEW ss \in Seq(Seq(any))
  PROVE  Filled(FlattenSeq(ss), ss, Len(ss), any)
  <1>1. CASE Len(ss) = 0
    <2>1. FlattenSeq(ss) = ss /\ ss = <<>>
      BY <1>1 DEF FlattenSeq
    <2>2. <<>> \in [1 .. 0 -> Pairs(ss, 0)] /\ Pairs(ss, 0) = {} /\ 1 .. 0 = {}
      BY DEF Pairs
    <2>3. PlacesOf(<<>>, <<>>, ss, 0)
      BY <2>2 DEF PlacesOf
    <2> QED
      BY <1>1, <2>1, <2>3 DEF Filled
  <1>2. CASE Len(ss) # 0
    <2>1. Len(ss) \in Nat \ {0}
      BY <1>2
    <2>2. PICK f : Unfolds(f, ss) /\ FlattenSeq(ss) = f[Len(ss)]
      BY <2>1, FlattenUnfolds
    <2> DEFINE bad == {k \in 1 .. Len(ss) : ~Filled(f[k], ss, k, any)}
    <2>3. CASE bad # {}
      <3>1. PICK k \in bad : \A j \in bad : k <= j
        <4>1. bad \in SUBSET Nat
          BY <2>1
        <4> QED
          BY <2>3, <4>1, LeastMember
      <3>2. k # 1
        <4>1. f[1] = ss[1]
          BY <2>1, <2>2 DEF Unfolds
        <4> QED
          BY <1>2, <3>1, <4>1, FilledFirst
      <3>3. k \in 1 .. Len(ss) /\ k - 1 \in Nat /\ k - 1 + 1 = k
        BY <2>1, <3>1
      <3>4. Filled(f[k - 1], ss, k - 1, any)
        <4>1. k - 1 \in 1 .. Len(ss) /\ k - 1 \notin bad
          BY <2>1, <3>1, <3>2
        <4> QED
          BY <4>1
      <3>5. f[k] = f[k - 1] \o ss[k]
        BY <2>2, <3>2, <3>3 DEF Unfolds
      <3>6. PICK j \in Nat : j = k - 1
        BY <3>3
      <3>7. Filled(f[j] \o ss[j + 1], ss, j + 1, any)
        BY <2>1, <3>3, <3>4, <3>6, FilledNext
      <3> QED
        BY <3>1, <3>3, <3>5, <3>6, <3>7
    <2>4. CASE bad = {}
      BY <2>1, <2>2, <2>4
    <2> QED
      BY <2>3, <2>4
  <1> QED
    BY <1>1, <1>2

-----------------------------------------------------------------------------
(* One region split.  A part that is still as it was is bounded by the ends *)
(* of the region or of the range.                                           *)

Region == [base : Nat, len : Nat, kind : {"Usable", "Reclaimable", "Reserved", "Kernel"}]
End(r) == r.base + r.len

PartOf(p, r, base, end, kind) ==
  /\ p \in Region /\ Bytes(p) \subseteq Bytes(r)
  /\ r.len # 0 => p.len # 0
  /\ \A b \in Bytes(p) : p.kind = IF b \in base .. end - 1 THEN kind ELSE r.kind
  /\ p.kind = "Usable" =>
       /\ r.kind = "Usable"
       /\ p.base = r.base \/ p.base = end
       /\ End(p) = End(r) \/ End(p) = base

PartsOf(parts, r, base, end, kind) ==
  /\ parts \in Seq(Region) /\ Len(parts) # 0
  /\ \A i \in 1 .. Len(parts) : PartOf(parts[i], r, base, end, kind)
  /\ \A i, j \in 1 .. Len(parts) : i # j => Bytes(parts[i]) \cap Bytes(parts[j]) = {}
  /\ \A b \in Bytes(r) : \E i \in 1 .. Len(parts) : b \in Bytes(parts[i])

LEMMA SplitParts ==
  ASSUME NEW r \in Region, NEW base \in Nat, NEW end \in Nat, base < end,
         NEW kind \in {"Reclaimable", "Kernel"}
  PROVE  PartsOf(Split(r, base, end, kind), r, base, end, kind)
  <1> DEFINE finish == End(r)
             parts == Split(r, base, end, kind)
  <1>1. r.base \in Nat /\ r.len \in Nat /\ finish \in Nat /\ finish = r.base + r.len
    BY DEF Region, End
  <1>2. CASE finish <= base \/ r.base >= end
    <2>1. parts = <<r>>
      BY <1>1, <1>2 DEF Split
    <2>2. PartOf(r, r, base, end, kind)
      <3>1. \A b \in Bytes(r) : b \notin base .. end - 1
        BY <1>1, <1>2 DEF Bytes, Extent
      <3> QED
        BY <3>1 DEF PartOf
    <2> QED
      BY <2>1, <2>2 DEF PartsOf
  <1>3. CASE ~(finish <= base \/ r.base >= end)
    <2> DEFINE from == IF r.base >= base THEN r.base ELSE base
               to == IF finish <= end THEN finish ELSE end
               low == MemoryRegion(r.base, base - r.base, r.kind)
               mid == MemoryRegion(from, to - from, kind)
               high == MemoryRegion(end, finish - end, r.kind)
    <2>1. Max({r.base, base}) = from /\ Min({finish, end}) = to
      <3>1. PICK a \in Nat, c \in Nat : a = r.base /\ c = finish
        BY <1>1
      <3>2. Max({a, base}) = IF a >= base THEN a ELSE base
        BY MaxOfTwo
      <3>3. Min({c, end}) = IF c <= end THEN c ELSE end
        BY MinOfTwo
      <3> QED
        BY <3>1, <3>2, <3>3, Zenon
    <2>2. parts = (IF r.base < base THEN <<low>> ELSE <<>>) \o <<mid>>
                     \o (IF end < finish THEN <<high>> ELSE <<>>)
      BY <1>1, <1>3, <2>1, Zenon DEF Split, Part, End
    <2>3. /\ mid \in Region /\ Bytes(mid) = from .. to - 1 /\ Bytes(r) = r.base .. finish - 1
          /\ PartOf(mid, r, base, end, kind)
      <3>1. from \in Nat /\ to - from \in Nat
        BY <1>1, <1>3
      <3>2. mid \in Region
        BY <3>1 DEF MemoryRegion, Region
      <3>3. Bytes(mid) = from .. to - 1 /\ Bytes(r) = r.base .. finish - 1
        BY <1>1, <3>1 DEF MemoryRegion, Bytes, Extent
      <3>4. mid.kind = kind /\ (r.len # 0 => mid.len # 0)
        BY <1>1, <1>3 DEF MemoryRegion
      <3> HIDE DEF mid
      <3> QED
        BY <1>1, <1>3, <3>1, <3>2, <3>3, <3>4 DEF PartOf
    <2>4. r.base < base =>
            /\ low \in Region /\ Bytes(low) = r.base .. base - 1 /\ PartOf(low, r, base, end, kind)
      <3> HAVE r.base < base
      <3>1. base - r.base \in Nat
        BY <1>1
      <3>2. low \in Region
        BY <1>1, <3>1 DEF MemoryRegion, Region
      <3>3. Bytes(low) = r.base .. base - 1
        BY <1>1, <3>1 DEF MemoryRegion, Bytes, Extent
      <3>4. low.kind = r.kind /\ low.base = r.base /\ End(low) = base /\ low.len # 0
        BY <1>1 DEF MemoryRegion, End
      <3> HIDE DEF low
      <3> QED
        BY <1>1, <1>3, <2>3, <3>2, <3>3, <3>4 DEF PartOf
    <2>5. end < finish =>
            /\ high \in Region /\ Bytes(high) = end .. finish - 1 /\ PartOf(high, r, base, end, kind)
      <3> HAVE end < finish
      <3>1. finish - end \in Nat
        BY <1>1
      <3>2. high \in Region
        BY <1>1, <3>1 DEF MemoryRegion, Region
      <3>3. Bytes(high) = end .. finish - 1
        BY <1>1, <3>1 DEF MemoryRegion, Bytes, Extent
      <3>4. high.kind = r.kind /\ high.base = end /\ End(high) = finish /\ high.len # 0
        BY <1>1 DEF MemoryRegion, End
      <3> HIDE DEF high
      <3> QED
        BY <1>1, <1>3, <2>3, <3>2, <3>3, <3>4 DEF PartOf
    <2> HIDE DEF low, mid, high
    <2>6. CASE r.base < base /\ end < finish
      <3>1. parts = <<low>> \o <<mid>> \o <<high>>
        BY <2>2, <2>6, Zenon
      <3>2. /\ parts \in Seq(Region) /\ Len(parts) = 3
            /\ parts[1] = low /\ parts[2] = mid /\ parts[3] = high
        <4>1. PICK s : s = <<low>> \o <<mid>>
          OBVIOUS
        <4>2. s \in Seq(Region) /\ Len(s) = 2 /\ s[1] = low /\ s[2] = mid
          BY <2>3, <2>4, <2>6, <4>1
        <4>3. high \in Region /\ parts = s \o <<high>>
          BY <2>5, <2>6, <3>1, <4>1
        <4> QED
          BY <4>2, <4>3
      <3> QED
        BY <1>1, <1>3, <2>3, <2>4, <2>5, <2>6, <3>2 DEF PartsOf
    <2>7. CASE r.base < base /\ ~(end < finish)
      <3>1. parts = <<low>> \o <<mid>> \o <<>>
        BY <2>2, <2>7, Zenon
      <3>2. parts \in Seq(Region) /\ Len(parts) = 2 /\ parts[1] = low /\ parts[2] = mid
        BY <2>3, <2>4, <2>7, <3>1
      <3> QED
        BY <1>1, <1>3, <2>3, <2>4, <2>7, <3>2 DEF PartsOf
    <2>8. CASE ~(r.base < base) /\ end < finish
      <3>1. parts = <<>> \o <<mid>> \o <<high>>
        BY <2>2, <2>8, Zenon
      <3>2. parts \in Seq(Region) /\ Len(parts) = 2 /\ parts[1] = mid /\ parts[2] = high
        BY <2>3, <2>5, <2>8, <3>1
      <3> QED
        BY <1>1, <1>3, <2>3, <2>5, <2>8, <3>2 DEF PartsOf
    <2>9. CASE ~(r.base < base) /\ ~(end < finish)
      <3>1. parts = <<>> \o <<mid>> \o <<>>
        BY <2>2, <2>9, Zenon
      <3>2. parts = <<mid>>
        BY <3>1
      <3> QED
        BY <1>1, <1>3, <2>3, <2>9, <3>2 DEF PartsOf
    <2> QED
      BY <2>6, <2>7, <2>8, <2>9
  <1> QED
    BY <1>2, <1>3

-----------------------------------------------------------------------------
(* Reserve over a whole map. *)

LEMMA PushedIs ==
  ASSUME NEW any, NEW f \in Seq(any)
  PROVE  /\ Pushed(f) \in Seq(any)
         /\ Len(Pushed(f)) = IF Len(f) <= MaxRegions THEN Len(f) ELSE MaxRegions
         /\ \A i \in 1 .. Len(Pushed(f)) : Pushed(f)[i] = f[i]
  <1>1. PICK n \in Nat, N \in Nat : n = Len(f) /\ N = MaxRegions
    BY MapAssumption
  <1>2. PICK m : m = IF n <= N THEN n ELSE N
    OBVIOUS
  <1>3. Min({n, N}) = m
    BY <1>2, MinOfTwo
  <1>4. Pushed(f) = SubSeq(f, 1, m)
    BY <1>1, <1>3 DEF Pushed
  <1>5. m \in Nat /\ m <= Len(f)
    BY <1>1, <1>2
  <1>6. SubSeq(f, 1, m) \in Seq(any) /\ Len(SubSeq(f, 1, m)) = m
        /\ \A i \in 1 .. m : SubSeq(f, 1, m)[i] = f[i]
    BY <1>5
  <1> QED
    BY <1>1, <1>2, <1>4, <1>6

LEMMA Members ==
  ASSUME NEW any, NEW f \in Seq(any)
  PROVE  /\ \A i \in 1 .. Len(f) : f[i] \in ToSet(f) /\ f[i] \in any
         /\ \A r \in ToSet(f) : \E i \in 1 .. Len(f) : f[i] = r
  BY DEF ToSet

\* A map with a range of it under a new kind.
CarvedFrom(out, map, base, end, kind) ==
  /\ out \in Seq(Region) /\ Len(out) <= MaxRegions
  /\ Len(map) <= Len(out) \/ Len(out) = MaxRegions
  /\ \A p \in ToSet(out) : \E r \in ToSet(map) : PartOf(p, r, base, end, kind)
  /\ Disjoint(map) => Disjoint(out)
  /\ Len(out) < MaxRegions => Described(map) \subseteq Described(out)

LEMMA Reserved ==
  ASSUME NEW map \in Seq(Region), NEW base \in Nat, NEW end \in Nat, base < end,
         NEW kind \in {"Reclaimable", "Kernel"}, NEW out, out = Reserve(map, base, end - base, kind)
  PROVE  CarvedFrom(out, map, base, end, kind)
  <1> DEFINE ss == [i \in DOMAIN map |-> Split(map[i], base, end, kind)]
  <1>2. PICK n \in Nat : n = Len(map) /\ DOMAIN map = 1 .. n /\ \A i \in 1 .. n : map[i] \in Region
    OBVIOUS
  <1>3. \A i \in 1 .. n : PartsOf(ss[i], map[i], base, end, kind)
    <2> TAKE i \in 1 .. n
    <2>1. ss[i] = Split(map[i], base, end, kind) /\ map[i] \in Region
      BY <1>2
    <2>2. PartsOf(Split(map[i], base, end, kind), map[i], base, end, kind)
      BY <2>1, SplitParts
    <2> QED
      BY <2>1, <2>2
  <1>4. ss \in Seq(Seq(Region)) /\ Len(ss) = n
    <2>1. ss = [i \in 1 .. n |-> ss[i]]
      BY <1>2
    <2>2. \A i \in 1 .. n : ss[i] \in Seq(Region)
      BY <1>3 DEF PartsOf
    <2> HIDE DEF ss
    <2>3. ss \in [1 .. n -> Seq(Region)]
      BY <2>1, <2>2
    <2> QED
      BY <1>2, <2>3
  <1>5. out = Pushed(FlattenSeq(ss))
    <2>1. base + (end - base) = end
      OBVIOUS
    <2> QED
      BY <2>1 DEF Reserve
  <1> HIDE DEF ss
  <1>6. PICK f : f = FlattenSeq(ss)
    OBVIOUS
  <1>7. Filled(f, ss, n, Region)
    BY <1>4, <1>6, Flattened
  <1>17. PICK w : PlacesOf(w, f, ss, n)
    BY <1>7 DEF Filled
  <1>8. PICK N \in Nat : N = Len(f) /\ f \in Seq(Region) /\ N >= n
    <2>1. f \in Seq(Region) /\ Len(f) \in Nat
      BY <1>7 DEF Filled
    <2>2. Len(f) >= n
      BY <1>3, <1>7 DEF Filled, PartsOf
    <2> QED
      BY <2>1, <2>2
  <1>9. /\ out \in Seq(Region) /\ Len(out) = (IF N <= MaxRegions THEN N ELSE MaxRegions)
        /\ \A i \in 1 .. Len(out) : out[i] = f[i]
    BY <1>5, <1>6, <1>8, PushedIs
  <1>10. PICK L \in Nat : L = Len(out) /\ L <= N /\ L <= MaxRegions /\ (L = N \/ L = MaxRegions)
    <2>1. PICK m \in Nat : m = MaxRegions
      BY MapAssumption
    <2> QED
      BY <1>8, <1>9, <2>1
  <1>11. \A a \in 1 .. N : w[a] \in Pairs(ss, n) /\ f[a] = ss[w[a][1]][w[a][2]]
    BY <1>8, <1>17 DEF PlacesOf
  <1>12. \A a \in 1 .. L : /\ w[a][1] \in 1 .. n /\ w[a][2] \in 1 .. Len(ss[w[a][1]])
                           /\ out[a] = ss[w[a][1]][w[a][2]]
                           /\ w[a] = <<w[a][1], w[a][2]>>
    <2> TAKE a \in 1 .. L
    <2>1. a \in 1 .. N /\ out[a] = f[a]
      BY <1>9, <1>10
    <2>2. w[a] \in Pairs(ss, n) /\ f[a] = ss[w[a][1]][w[a][2]]
      BY <1>11, <2>1
    <2> QED
      BY <2>1, <2>2 DEF Pairs
  <1>13. \A p \in ToSet(out) : \E r \in ToSet(map) : PartOf(p, r, base, end, kind)
    <2> TAKE p \in ToSet(out)
    <2>1. PICK a \in 1 .. L : out[a] = p
      BY <1>9, <1>10, Members
    <2>2. PICK i \in 1 .. n : i = w[a][1]
      BY <1>12
    <2>5. PICK j \in 1 .. Len(ss[i]) : p = ss[i][j]
      BY <1>12, <2>1, <2>2
    <2>3. map[i] \in ToSet(map)
      BY <1>2, Members
    <2>4. PartOf(p, map[i], base, end, kind)
      BY <1>3, <2>5 DEF PartsOf
    <2> QED
      BY <2>3, <2>4
  <1>14. Disjoint(map) => Disjoint(out)
    <2> SUFFICES ASSUME Disjoint(map), NEW a \in 1 .. L, NEW b \in 1 .. L, a # b
                 PROVE  Bytes(out[a]) \cap Bytes(out[b]) = {}
      <3>1. DOMAIN out = 1 .. L
        BY <1>9, <1>10
      <3> QED
        BY <3>1 DEF Disjoint
    <2>1. PICK i \in 1 .. n, k \in 1 .. n : i = w[a][1] /\ k = w[b][1]
      BY <1>12
    <2>2. PICK j \in 1 .. Len(ss[i]), l \in 1 .. Len(ss[k]) : j = w[a][2] /\ l = w[b][2]
      BY <1>12, <2>1
    <2>3. out[a] = ss[i][j] /\ out[b] = ss[k][l]
      BY <1>12, <2>1, <2>2
    <2>4. i # k \/ j # l
      <3>1. a \in 1 .. N /\ b \in 1 .. N
        BY <1>10
      <3>2. w[a] # w[b]
        <4>1. N = Len(f)
          BY <1>8
        <4> QED
          BY <1>17, <3>1, <4>1 DEF PlacesOf
      <3> QED
        BY <1>12, <2>1, <2>2, <3>2
    <2>5. CASE i # k
      <3>1. Bytes(map[i]) \cap Bytes(map[k]) = {}
        BY <1>2, <2>5 DEF Disjoint
      <3>2. PartOf(ss[i][j], map[i], base, end, kind) /\ PartOf(ss[k][l], map[k], base, end, kind)
        BY <1>3 DEF PartsOf
      <3>3. Bytes(out[a]) \subseteq Bytes(map[i]) /\ Bytes(out[b]) \subseteq Bytes(map[k])
        BY <2>3, <3>2 DEF PartOf
      <3> QED
        BY <3>1, <3>3
    <2>6. CASE i = k
      <3>1. j # l /\ PartsOf(ss[i], map[i], base, end, kind)
        BY <1>3, <2>4, <2>6
      <3>2. l \in 1 .. Len(ss[i]) /\ out[b] = ss[i][l]
        BY <2>3, <2>6
      <3>3. Bytes(ss[i][j]) \cap Bytes(ss[i][l]) = {}
        BY <3>1, <3>2 DEF PartsOf
      <3> QED
        BY <2>3, <3>2, <3>3
    <2> QED
      BY <2>5, <2>6
  <1>15. L < MaxRegions => Described(map) \subseteq Described(out)
    <2> SUFFICES ASSUME L < MaxRegions, NEW r \in ToSet(map), NEW b \in Bytes(r)
                 PROVE  b \in Described(out)
      BY DEF Described
    <2>1. PICK i \in 1 .. n : map[i] = r
      BY <1>2, Members
    <2>2. PICK j \in 1 .. Len(ss[i]) : b \in Bytes(ss[i][j])
      <3>1. PartsOf(ss[i], map[i], base, end, kind)
        BY <1>3
      <3> QED
        BY <2>1, <3>1 DEF PartsOf
    <2>3. Len(ss[i]) \in Nat
      BY <1>4
    <2>4. <<i, j>> \in Pairs(ss, n)
      BY <2>3 DEF Pairs
    <2>5. PICK a \in 1 .. N : w[a] = <<i, j>>
      BY <1>8, <1>17, <2>4 DEF PlacesOf
    <2>6. L # MaxRegions
      <3>1. PICK m \in Nat : m = MaxRegions
        BY MapAssumption
      <3> QED
        BY <3>1
    <2>7. N = L /\ a \in 1 .. L
      BY <1>10, <2>6
    <2>8. out[a] = ss[i][j]
      BY <1>12, <2>5, <2>7
    <2>9. out[a] \in ToSet(out)
      BY <1>9, <1>10, <2>7, Members
    <2> QED
      BY <2>2, <2>8, <2>9 DEF Described
  <1>16. Len(map) <= Len(out) \/ Len(out) = MaxRegions
    BY <1>2, <1>8, <1>10
  <1> QED
    BY <1>9, <1>10, <1>13, <1>14, <1>15, <1>16 DEF CarvedFrom

-----------------------------------------------------------------------------
(* x86-64: the map carved, one occupant after another. *)

Ext(k) == Extent(Carve[k][1], Carve[k][2])
After(k) == Carve[k][1] + Carve[k][2]

\* The records of the map describe no byte twice, and neither the kernel nor what
\* the loader left in memory lies on another.
LoaderApart ==
  /\ ~Arm
  /\ Disjoint(PvhRegions(input.records))
  /\ \A i, j \in 1 .. 4 : i # j => Ext(i) \cap Ext(j) = {}

\* What the k-th occupant asks for lies in this record, and it is usable.
Takes(k, r) == r.kind = "Usable" /\ Ext(k) \subseteq Bytes(r)

\* A region p lies in the record r and has, byte for byte, the kind of the one of
\* the first c occupants that takes it, or else the record's.  While it is usable
\* it ends where the record does or where an occupant begins.
WithinRecord(p, r, c) ==
  /\ Bytes(p) \subseteq Bytes(r)
  /\ \A b \in Bytes(p) :
       /\ \A k \in 1 .. c : Takes(k, r) /\ b \in Ext(k) => p.kind = Carve[k][3]
       /\ (\A k \in 1 .. c : ~(Takes(k, r) /\ b \in Ext(k))) => p.kind = r.kind
  /\ p.kind = "Usable" =>
       /\ r.kind = "Usable"
       /\ p.base = r.base \/ \E k \in 1 .. c : p.base = After(k)
       /\ End(p) = End(r) \/ \E k \in 1 .. c : End(p) = Carve[k][1]

CarvedTo(map, c) ==
  /\ map \in Seq(Region) /\ Len(map) <= MaxRegions /\ Disjoint(map)
  /\ \A p \in ToSet(map) : \E r \in ToSet(PvhRegions(input.records)) : WithinRecord(p, r, c)

Complete(map) ==
  Len(map) < MaxRegions =>
    \A r \in ToSet(PvhRegions(input.records)) : Bytes(r) \subseteq Described(map)

LEMMA PartIs ==
  ASSUME NEW base \in Nat, NEW len \in Nat, NEW kind
  PROVE  Part(base, base + len, kind) = IF len = 0 THEN <<>> ELSE <<MemoryRegion(base, len, kind)>>
  <1>1. base + len - base = len
    OBVIOUS
  <1>2. base < base + len <=> len # 0
    OBVIOUS
  <1> QED
    BY <1>1, <1>2 DEF Part

LEMMA RecordsAre ==
  ASSUME input \in Inputs, ~Arm
  PROVE  /\ input.records \in Seq(Nat \X Nat \X Nat)
         /\ PvhRegions(input.records) \in Seq(Region)
         /\ input.records = <<>> => PvhRegions(input.records) = <<>>
  <1>1. input.records \in Seq(Nat \X Nat \X Nat)
    BY InputsAssumption DEF Arm
  <1>2. PICK records : records = input.records /\ records \in Seq(Nat \X Nat \X Nat)
    BY <1>1
  <1> DEFINE kind(type) == CASE type = 1 -> "Usable" [] type = 3 -> "Reclaimable" [] OTHER -> "Reserved"
             ss == [i \in DOMAIN records |->
                      Part(records[i][1], records[i][1] + records[i][2], kind(records[i][3]))]
  <1>3. PvhRegions(records) = FlattenSeq(ss)
    BY Zenon DEF PvhRegions
  <1>4. ss \in Seq(Seq(Region)) /\ Len(ss) = Len(records)
    <2>1. \A i \in DOMAIN records : ss[i] \in Seq(Region)
      <3> TAKE i \in DOMAIN records
      <3>1. records[i] \in Nat \X Nat \X Nat
        BY <1>2
      <3>2. PICK b \in Nat, l \in Nat : b = records[i][1] /\ l = records[i][2]
        BY <3>1
      <3>3. PICK t : t = kind(records[i][3])
        OBVIOUS
      <3>4. t \in {"Usable", "Reclaimable", "Reserved"}
        BY <3>3
      <3>5. ss[i] = Part(b, b + l, t)
        BY <3>2, <3>3
      <3>6. MemoryRegion(b, l, t) \in Region
        BY <3>4 DEF MemoryRegion, Region
      <3>7. Part(b, b + l, t) = IF l = 0 THEN <<>> ELSE <<MemoryRegion(b, l, t)>>
        BY PartIs
      <3>8. Part(b, b + l, t) \in Seq(Region)
        <4>1. PICK m : m = MemoryRegion(b, l, t)
          OBVIOUS
        <4>2. m \in Region /\ <<>> \in Seq(Region) /\ <<m>> \in Seq(Region)
          BY <3>6, <4>1
        <4>3. Part(b, b + l, t) = <<>> \/ Part(b, b + l, t) = <<m>>
          BY <3>7, <4>1, Zenon
        <4> QED
          BY <4>2, <4>3, Zenon
      <3> QED
        BY <3>5, <3>8, Zenon
    <2>2. ss = [i \in 1 .. Len(records) |-> ss[i]] /\ Len(records) \in Nat /\ DOMAIN records = 1 .. Len(records)
      BY <1>2
    <2> HIDE DEF ss
    <2>3. ss \in [1 .. Len(records) -> Seq(Region)]
      BY <2>1, <2>2
    <2> QED
      BY <2>2, <2>3
  <1> HIDE DEF ss
  <1>5. Filled(FlattenSeq(ss), ss, Len(ss), Region)
    BY <1>4, Flattened
  <1>6. PvhRegions(records) \in Seq(Region)
    BY <1>3, <1>5 DEF Filled
  <1>7. records = <<>> => FlattenSeq(ss) = <<>>
    <2> HAVE records = <<>>
    <2>1. Len(ss) = 0 /\ ss = <<>>
      BY <1>4
    <2> QED
      BY <2>1 DEF FlattenSeq
  <1> QED
    BY <1>2, <1>3, <1>6, <1>7

LEMMA Occupants ==
  ASSUME input \in Inputs, ~Arm
  PROVE  \A k \in 1 .. 4 :
           /\ Carve[k][1] \in Nat /\ Carve[k][2] \in Nat
           /\ Carve[k][3] \in {"Reclaimable", "Kernel"}
           /\ input.records # <<>> => Carve[k][2] # 0
  <1>1. /\ Image[1] \in Nat /\ Image[2] \in Nat /\ Image[2] # 0
        /\ input.start \in Nat /\ input.memmap \in Nat /\ input.cmdline \in Nat
    BY InputsAssumption DEF Arm
  <1>2. PICK h \in Nat, m \in Nat : h = HeaderLen /\ h # 0 /\ m = EntryLen /\ m # 0
    BY BootAssumption
  <1>3. PICK n \in Nat : n = Len(input.records) /\ (input.records # <<>> => n # 0)
    BY RecordsAre
  <1>4. PICK len \in Nat : len = Len(CommandLine)
    <2>1. input.user \in Seq(ToSet(input.user)) /\ input.appended \in Seq(ToSet(input.appended))
      BY InputsAssumption DEF Arm
    <2>2. input.user \in Seq(ToSet(input.user) \cup ToSet(input.appended))
          /\ input.appended \in Seq(ToSet(input.user) \cup ToSet(input.appended))
      BY <2>1
    <2>3. PICK u, a, any : u = input.user /\ a = input.appended /\ u \in Seq(any) /\ a \in Seq(any)
      BY <2>2
    <2>4. CommandLine = u \o a \/ CommandLine = <<>>
      BY <2>3 DEF CommandLine
    <2>5. u \o a \in Seq(any)
      BY <2>3
    <2>6. Len(u \o a) \in Nat /\ Len(<<>>) = 0
      BY <2>5
    <2> QED
      BY <2>4, <2>6
  <1>5. n * m \in Nat /\ (n # 0 => n * m # 0) /\ len + 1 \in Nat /\ len + 1 # 0
    BY <1>2
  <1>6. Carve = << <<Image[1], Image[2], "Kernel">>, <<input.start, h, "Reclaimable">>,
                   <<input.memmap, n * m, "Reclaimable">>, <<input.cmdline, len + 1, "Reclaimable">> >>
    BY <1>2, <1>3, <1>4 DEF Carve
  <1> QED
    <2> TAKE k \in 1 .. 4
    <2>1. k = 1 \/ k = 2 \/ k = 3 \/ k = 4
      OBVIOUS
    <2>2. CASE k = 1
      BY <1>1, <1>6, <2>2
    <2>3. CASE k = 2
      BY <1>1, <1>2, <1>6, <2>3
    <2>4. CASE k = 3
      <3>1. Carve[k] = <<input.memmap, n * m, "Reclaimable">>
        BY <1>6, <2>4
      <3> QED
        BY <1>1, <1>3, <1>5, <3>1
    <2>5. CASE k = 4
      BY <1>1, <1>5, <1>6, <2>5
    <2> QED
      BY <2>1, <2>2, <2>3, <2>4, <2>5

\* A usable region that meets what a usable record has for an occupant holds all
\* of it: it ends where the record does, or where another occupant begins.
LEMMA UsableSpans ==
  ASSUME input \in Inputs, LoaderApart, NEW c \in 0 .. 3, NEW p \in Region, NEW r \in Region,
         WithinRecord(p, r, c), p.kind = "Usable", Takes(c + 1, r), input.records # <<>>,
         NEW b \in Bytes(p), b \in Ext(c + 1)
  PROVE  p.base <= Carve[c + 1][1] /\ After(c + 1) <= End(p)
  <1>1. PICK base \in Nat, len \in Nat : base = Carve[c + 1][1] /\ len = Carve[c + 1][2] /\ len # 0
    <2>1. c + 1 \in 1 .. 4
      OBVIOUS
    <2> QED
      BY <2>1, Occupants DEF LoaderApart
  <1>2. Ext(c + 1) = base .. base + len - 1 /\ After(c + 1) = base + len
    BY <1>1 DEF Ext, Extent, After
  <1>3. p.base \in Nat /\ p.len \in Nat /\ r.base \in Nat /\ r.len \in Nat
    BY DEF Region
  <1>4. Bytes(p) = p.base .. End(p) - 1 /\ End(p) = p.base + p.len
        /\ Bytes(r) = r.base .. End(r) - 1 /\ End(r) = r.base + r.len
        /\ End(p) \in Nat /\ End(r) \in Nat
    <2>1. ASSUME NEW q, q.base \in Nat, q.len \in Nat
          PROVE  Bytes(q) = q.base .. End(q) - 1 /\ End(q) = q.base + q.len /\ End(q) \in Nat
      <3>1. Bytes(q) = q.base .. q.base + q.len - 1
        BY Zenon DEF Bytes, Extent
      <3> QED
        BY <2>1, <3>1 DEF End
    <2> QED
      BY <1>3, <2>1
  <1>5. base \in Bytes(r) /\ base + len - 1 \in Bytes(r)
    <2>1. Ext(c + 1) \subseteq Bytes(r)
      BY DEF Takes
    <2>2. base \in base .. base + len - 1 /\ base + len - 1 \in base .. base + len - 1
      BY <1>1
    <2> QED
      BY <1>2, <2>1, <2>2
  <1>6. ASSUME NEW k \in 1 .. c
        PROVE  \E s \in Nat, l \in Nat : /\ s = Carve[k][1] /\ l # 0 /\ After(k) = s + l
                                         /\ \A x \in s .. s + l - 1 : ~(base <= x /\ x < base + len)
    <2>1. k \in 1 .. 4 /\ c + 1 \in 1 .. 4 /\ k # c + 1
      OBVIOUS
    <2>2. PICK s \in Nat, l \in Nat : s = Carve[k][1] /\ l = Carve[k][2] /\ l # 0
      BY <2>1, Occupants DEF LoaderApart
    <2>3. Ext(k) = s .. s + l - 1 /\ After(k) = s + l
      BY <2>2 DEF Ext, Extent, After
    <2>4. Ext(k) \cap Ext(c + 1) = {}
      BY <2>1 DEF LoaderApart
    <2>5. \A x \in s .. s + l - 1 : ~(base <= x /\ x < base + len)
      <3> SUFFICES ASSUME NEW x \in s .. s + l - 1, base <= x, x < base + len PROVE FALSE
        OBVIOUS
      <3>1. x \in Int
        BY <2>2
      <3>2. x \in base .. base + len - 1
        BY <1>1, <3>1
      <3> QED
        BY <1>2, <2>3, <2>4, <3>2
    <2> QED
      BY <2>2, <2>3, <2>5
  <1>7. p.base <= base
    <2>1. CASE p.base = r.base
      BY <1>3, <1>4, <1>5, <2>1
    <2>2. CASE \E k \in 1 .. c : p.base = After(k)
      <3>1. PICK k \in 1 .. c : p.base = After(k)
        BY <2>2
      <3>2. PICK s \in Nat, l \in Nat : /\ l # 0 /\ After(k) = s + l
                                        /\ \A x \in s .. s + l - 1 : ~(base <= x /\ x < base + len)
        BY <1>6
      <3>3. p.base - 1 \in s .. s + l - 1
        BY <1>3, <3>1, <3>2
      <3>4. ~(base <= p.base - 1 /\ p.base - 1 < base + len)
        BY <3>2, <3>3
      <3>5. b \in Int /\ p.base <= b /\ b < base + len
        BY <1>2, <1>3, <1>4
      <3> QED
        BY <1>1, <1>3, <3>4, <3>5
    <2> QED
      BY <2>1, <2>2 DEF WithinRecord
  <1>8. base + len <= End(p)
    <2>1. CASE End(p) = End(r)
      <3>1. base + len - 1 <= End(r) - 1
        BY <1>1, <1>3, <1>4, <1>5
      <3> QED
        BY <1>1, <1>4, <2>1, <3>1
    <2>2. CASE \E k \in 1 .. c : End(p) = Carve[k][1]
      <3>1. PICK k \in 1 .. c : End(p) = Carve[k][1]
        BY <2>2
      <3>2. PICK s \in Nat, l \in Nat : /\ s = Carve[k][1] /\ l # 0
                                        /\ \A x \in s .. s + l - 1 : ~(base <= x /\ x < base + len)
        BY <1>6
      <3>3. End(p) = s /\ s \in s .. s + l - 1
        BY <3>1, <3>2
      <3>4. ~(base <= s /\ s < base + len)
        BY <3>2, <3>3
      <3>5. b \in Int /\ base <= b /\ b < End(p)
        BY <1>2, <1>3, <1>4
      <3> QED
        BY <1>1, <3>3, <3>4, <3>5
    <2> QED
      BY <2>1, <2>2 DEF WithinRecord
  <1> QED
    BY <1>1, <1>2, <1>7, <1>8

\* Two records that share a byte are one.
LEMMA OneRecord ==
  ASSUME input \in Inputs, LoaderApart, NEW r \in ToSet(PvhRegions(input.records)),
         NEW q \in ToSet(PvhRegions(input.records)), NEW b \in Bytes(r), b \in Bytes(q)
  PROVE  r = q
  <1>1. PICK rs : rs = PvhRegions(input.records) /\ rs \in Seq(Region)
    BY RecordsAre DEF LoaderApart
  <1>2. PICK i \in 1 .. Len(rs) : rs[i] = r
    BY <1>1, Members
  <1>3. PICK j \in 1 .. Len(rs) : rs[j] = q
    BY <1>1, Members
  <1>4. i \in DOMAIN rs /\ j \in DOMAIN rs /\ Disjoint(rs)
    BY <1>1 DEF LoaderApart
  <1> QED
    BY <1>2, <1>3, <1>4 DEF Disjoint

\* An occupant that fits a usable region is carved out of it.
LEMMA CarvedOut ==
  ASSUME input \in Inputs, LoaderApart, NEW c \in 0 .. 3, NEW map, CarvedTo(map, c),
         NEW out, out = CarveOne(map, Carve[c + 1]), Free(map, Carve[c + 1][1], Carve[c + 1][2])
  PROVE  /\ CarvedTo(out, c + 1)
         /\ Complete(map) => Complete(out)
  <1> DEFINE rs == PvhRegions(input.records)
  <1>1. map \in Seq(Region) /\ Disjoint(map) /\ rs \in Seq(Region)
    BY RecordsAre DEF CarvedTo, LoaderApart
  <1>2. PICK q0 \in ToSet(map) : /\ q0.kind = "Usable" /\ Carve[c + 1][1] >= q0.base
                                 /\ Carve[c + 1][1] + Carve[c + 1][2] <= q0.base + q0.len
    BY DEF Free
  <1>3. PICK r0 \in ToSet(rs) : WithinRecord(q0, r0, c)
    BY DEF CarvedTo
  <1>4. input.records # <<>>
    <2>1. rs # <<>>
      BY <1>3 DEF ToSet
    <2> QED
      BY <2>1, RecordsAre DEF LoaderApart
  <1>5. PICK base \in Nat, len \in Nat, kind \in {"Reclaimable", "Kernel"} :
          base = Carve[c + 1][1] /\ len = Carve[c + 1][2] /\ kind = Carve[c + 1][3] /\ len # 0
    <2>1. c + 1 \in 1 .. 4
      OBVIOUS
    <2> QED
      BY <1>4, <2>1, Occupants DEF LoaderApart
  <1>6. PICK end \in Nat : end = base + len /\ base < end /\ end - base = len
    BY <1>5
  <1>7. Ext(c + 1) = base .. end - 1 /\ After(c + 1) = end
    <2>1. Ext(c + 1) = base .. base + len - 1 /\ After(c + 1) = base + len
      BY <1>5, Zenon DEF Ext, Extent, After
    <2> QED
      BY <1>6, <2>1
  <1>8. out = Reserve(map, base, end - base, kind)
    BY <1>5, <1>6 DEF CarveOne
  <1>9. /\ out \in Seq(Region) /\ Len(out) <= MaxRegions
        /\ Len(map) <= Len(out) \/ Len(out) = MaxRegions
        /\ \A p \in ToSet(out) : \E q \in ToSet(map) : PartOf(p, q, base, end, kind)
        /\ Disjoint(map) => Disjoint(out)
        /\ Len(out) < MaxRegions => Described(map) \subseteq Described(out)
    <2>1. CarvedFrom(out, map, base, end, kind)
      BY <1>1, <1>6, <1>8, Reserved
    <2> QED
      BY <2>1 DEF CarvedFrom
  <1>10. base .. end - 1 \subseteq Bytes(q0)
    <2>1. q0 \in Region
      BY <1>1, Members
    <2>2. q0.base \in Nat /\ q0.len \in Nat
      BY <2>1 DEF Region
    <2> QED
      BY <1>2, <1>5, <1>6, <2>2 DEF Bytes, Extent
  <1>11. ASSUME NEW p \in ToSet(out)
         PROVE  \E r \in ToSet(rs) : WithinRecord(p, r, c + 1)
    <2>1. PICK q \in ToSet(map) : PartOf(p, q, base, end, kind)
      BY <1>9
    <2>2. PICK r \in ToSet(rs) : WithinRecord(q, r, c)
      BY DEF CarvedTo
    <2>3. Bytes(p) \subseteq Bytes(q) /\ Bytes(q) \subseteq Bytes(r)
      BY <2>1, <2>2 DEF PartOf, WithinRecord
    <2>4. ASSUME NEW b \in Bytes(p)
          PROVE  /\ \A k \in 1 .. c + 1 : Takes(k, r) /\ b \in Ext(k) => p.kind = Carve[k][3]
                 /\ (\A k \in 1 .. c + 1 : ~(Takes(k, r) /\ b \in Ext(k))) => p.kind = r.kind
      <3>1. p.kind = IF b \in base .. end - 1 THEN kind ELSE q.kind
        BY <2>1 DEF PartOf
      <3>2. ASSUME NEW k \in 1 .. c + 1, b \in Ext(k), b \in Ext(c + 1)
            PROVE  k = c + 1
        BY <3>2 DEF LoaderApart
      <3>3. CASE b \in base .. end - 1
        <4>1. b \in Bytes(r0) /\ b \in Bytes(r)
          BY <1>3, <1>10, <2>3, <3>3 DEF WithinRecord
        <4>2. r = r0
          BY <1>3, <2>2, <4>1, OneRecord
        <4>3. Takes(c + 1, r)
          BY <1>2, <1>3, <1>7, <1>10, <4>2 DEF Takes, WithinRecord
        <4>4. c + 1 \in 1 .. c + 1 /\ b \in Ext(c + 1) /\ p.kind = Carve[c + 1][3]
          BY <1>5, <1>7, <3>1, <3>3
        <4> QED
          BY <3>2, <4>3, <4>4
      <3>4. CASE b \notin base .. end - 1
        <4>1. p.kind = q.kind /\ b \in Bytes(q) /\ b \notin Ext(c + 1)
          BY <1>7, <2>3, <3>1, <3>4
        <4>2. /\ \A k \in 1 .. c : Takes(k, r) /\ b \in Ext(k) => q.kind = Carve[k][3]
              /\ (\A k \in 1 .. c : ~(Takes(k, r) /\ b \in Ext(k))) => q.kind = r.kind
          BY <2>2, <4>1 DEF WithinRecord
        <4>3. \A k \in 1 .. c + 1 : k = c + 1 \/ k \in 1 .. c
          OBVIOUS
        <4>4. \A k \in 1 .. c : k \in 1 .. c + 1
          OBVIOUS
        <4> QED
          BY <4>1, <4>2, <4>3, <4>4
      <3> QED
        BY <3>3, <3>4
    <2>5. p.kind = "Usable" =>
            /\ r.kind = "Usable"
            /\ p.base = r.base \/ \E k \in 1 .. c + 1 : p.base = After(k)
            /\ End(p) = End(r) \/ \E k \in 1 .. c + 1 : End(p) = Carve[k][1]
      <3> HAVE p.kind = "Usable"
      <3>1. q.kind = "Usable" /\ (p.base = q.base \/ p.base = end) /\ (End(p) = End(q) \/ End(p) = base)
        BY <2>1 DEF PartOf
      <3>2. /\ r.kind = "Usable"
            /\ q.base = r.base \/ \E k \in 1 .. c : q.base = After(k)
            /\ End(q) = End(r) \/ \E k \in 1 .. c : End(q) = Carve[k][1]
        BY <2>2, <3>1 DEF WithinRecord
      <3>3. c + 1 \in 1 .. c + 1 /\ \A k \in 1 .. c : k \in 1 .. c + 1
        OBVIOUS
      <3> QED
        BY <1>5, <1>7, <3>1, <3>2, <3>3
    <2> QED
      BY <2>2, <2>3, <2>4, <2>5 DEF WithinRecord
  <1>12. CarvedTo(out, c + 1)
    BY <1>1, <1>9, <1>11 DEF CarvedTo
  <1>13. Complete(map) => Complete(out)
    <2> SUFFICES ASSUME Complete(map), Len(out) < MaxRegions
                 PROVE  \A r \in ToSet(rs) : Bytes(r) \subseteq Described(out)
      BY DEF Complete
    <2>1. PICK m \in Nat, n \in Nat, o \in Nat : m = MaxRegions /\ n = Len(map) /\ o = Len(out)
      BY <1>1, <1>9, MapAssumption
    <2>2. n < m
      BY <1>9, <2>1
    <2>3. Described(map) \subseteq Described(out)
      BY <1>9
    <2> QED
      BY <2>1, <2>2, <2>3 DEF Complete
  <1> QED
    BY <1>12, <1>13

\* One that does not is not in the map: neither whole nor in part.
LEMMA NotCarved ==
  ASSUME input \in Inputs, LoaderApart, NEW c \in 0 .. 3, NEW map, CarvedTo(map, c),
         ~Free(map, Carve[c + 1][1], Carve[c + 1][2])
  PROVE  CarvedTo(map, c + 1)
  <1> DEFINE rs == PvhRegions(input.records)
  <1>1. map \in Seq(Region) /\ rs \in Seq(Region)
    BY RecordsAre DEF CarvedTo, LoaderApart
  <1>2. ASSUME NEW p \in ToSet(map)
        PROVE  \E r \in ToSet(rs) : WithinRecord(p, r, c + 1)
    <2>1. PICK r \in ToSet(rs) : WithinRecord(p, r, c)
      BY DEF CarvedTo
    <2>2. p \in Region /\ r \in Region
      BY <1>1, Members
    <2>3. input.records # <<>>
      <3>1. rs # <<>>
        BY <2>1 DEF ToSet
      <3> QED
        BY <3>1, RecordsAre DEF LoaderApart
    <2>4. ASSUME NEW b \in Bytes(p), Takes(c + 1, r), b \in Ext(c + 1)
          PROVE  FALSE
      <3>1. \A k \in 1 .. c : b \notin Ext(k)
        <4> TAKE k \in 1 .. c
        <4>1. k \in 1 .. 4 /\ c + 1 \in 1 .. 4 /\ k # c + 1
          OBVIOUS
        <4> QED
          BY <2>4, <4>1 DEF LoaderApart
      <3>2. p.kind = r.kind /\ r.kind = "Usable"
        BY <2>1, <2>4, <3>1 DEF WithinRecord, Takes
      <3>3. p.base <= Carve[c + 1][1] /\ After(c + 1) <= End(p)
        BY <2>1, <2>2, <2>3, <2>4, <3>2, UsableSpans
      <3>4. Carve[c + 1][1] \in Nat /\ p.base \in Nat
        <4>1. c + 1 \in 1 .. 4
          OBVIOUS
        <4> QED
          BY <2>2, <4>1, Occupants DEF LoaderApart, Region
      <3> QED
        BY <3>2, <3>3, <3>4 DEF Free, After, End
    <2>5. \A k \in 1 .. c + 1 : k = c + 1 \/ k \in 1 .. c
      OBVIOUS
    <2>6. \A k \in 1 .. c : k \in 1 .. c + 1
      OBVIOUS
    <2>7. ASSUME NEW b \in Bytes(p)
          PROVE  /\ \A k \in 1 .. c + 1 : Takes(k, r) /\ b \in Ext(k) => p.kind = Carve[k][3]
                 /\ (\A k \in 1 .. c + 1 : ~(Takes(k, r) /\ b \in Ext(k))) => p.kind = r.kind
      <3>1. /\ \A k \in 1 .. c : Takes(k, r) /\ b \in Ext(k) => p.kind = Carve[k][3]
            /\ (\A k \in 1 .. c : ~(Takes(k, r) /\ b \in Ext(k))) => p.kind = r.kind
        BY <2>1 DEF WithinRecord
      <3> QED
        BY <2>4, <2>5, <2>6, <3>1
    <2> QED
      BY <2>1, <2>6, <2>7 DEF WithinRecord
  <1> QED
    BY <1>2 DEF CarvedTo

\* Before anything is carved: the records that fit.
LEMMA NothingCarved ==
  ASSUME input \in Inputs, LoaderApart, NEW map
  PROVE  /\ map = Pushed(PvhRegions(input.records)) => CarvedTo(map, 0) /\ Complete(map)
         /\ map = Pushed(<<>>) => CarvedTo(map, 0)
  <1>1. PICK rs : rs = PvhRegions(input.records) /\ rs \in Seq(Region) /\ Disjoint(rs)
    BY RecordsAre DEF LoaderApart
  <1>2. PICK N \in Nat : N = MaxRegions
    BY MapAssumption
  <1>3. CASE map = Pushed(<<>>)
    <2>1. <<>> \in Seq(Region) /\ Len(<<>>) = 0
      OBVIOUS
    <2>2. /\ Pushed(<<>>) \in Seq(Region)
          /\ Len(Pushed(<<>>)) = IF Len(<<>>) <= MaxRegions THEN Len(<<>>) ELSE MaxRegions
      BY <2>1, PushedIs
    <2>3. map \in Seq(Region) /\ Len(map) = 0
      BY <1>2, <1>3, <2>1, <2>2
    <2>4. ToSet(map) = {} /\ Disjoint(map)
      BY <2>3 DEF ToSet, Disjoint
    <2>5. Len(map) <= MaxRegions
      BY <1>2, <2>3
    <2>6. CarvedTo(map, 0)
      BY <2>3, <2>4, <2>5 DEF CarvedTo
    <2>7. CASE map = Pushed(rs)
      <3>1. Len(map) = IF Len(rs) <= MaxRegions THEN Len(rs) ELSE MaxRegions
        BY <1>1, <2>7, PushedIs
      <3>2. Len(rs) = 0
        <4>1. PICK n \in Nat : n = Len(rs)
          BY <1>1
        <4>2. N # 0
          BY <1>2, MapAssumption
        <4> QED
          BY <1>2, <2>3, <3>1, <4>1, <4>2
      <3>3. ToSet(rs) = {}
        BY <1>1, <3>2 DEF ToSet
      <3> QED
        BY <1>1, <2>6, <3>3 DEF Complete
    <2> QED
      BY <1>1, <2>6, <2>7
  <1>4. CASE map = Pushed(rs)
    <2>1. PICK n \in Nat : n = Len(rs)
      BY <1>1
    <2>2. PICK m \in Nat : m = Len(map) /\ m = (IF n <= N THEN n ELSE N) /\ map \in Seq(Region)
                           /\ \A i \in 1 .. m : map[i] = rs[i]
      <3>1. /\ map \in Seq(Region)
            /\ Len(map) = IF Len(rs) <= MaxRegions THEN Len(rs) ELSE MaxRegions
            /\ \A i \in 1 .. Len(map) : map[i] = rs[i]
        BY <1>1, <1>4, PushedIs
      <3> QED
        BY <1>2, <2>1, <3>1
    <2>3. DOMAIN map = 1 .. m /\ DOMAIN rs = 1 .. n /\ m <= n /\ m <= MaxRegions
      <3>1. m <= n /\ m <= N
        <4>1. m = IF n <= N THEN n ELSE N
          BY <2>2
        <4> QED
          BY <4>1
      <3>4. m <= MaxRegions
        BY <1>2, <3>1
      <3>5. map \in Seq(Region) /\ m = Len(map)
        BY <2>2
      <3>2. DOMAIN map = 1 .. m
        BY <3>5
      <3>3. DOMAIN rs = 1 .. n
        BY <1>1, <2>1
      <3> QED
        BY <3>1, <3>2, <3>3, <3>4
    <2>4. Disjoint(map)
      <3> SUFFICES ASSUME NEW i \in 1 .. m, NEW j \in 1 .. m, i # j
                   PROVE  Bytes(map[i]) \cap Bytes(map[j]) = {}
        BY <2>3 DEF Disjoint
      <3>1. i \in DOMAIN rs /\ j \in DOMAIN rs /\ map[i] = rs[i] /\ map[j] = rs[j]
        BY <2>2, <2>3
      <3> QED
        BY <1>1, <3>1 DEF Disjoint
    <2>5. ASSUME NEW p \in ToSet(map)
          PROVE  \E r \in ToSet(rs) : WithinRecord(p, r, 0)
      <3>1. PICK i \in 1 .. m : map[i] = p
        BY <2>2, Members
      <3>2. i \in 1 .. n /\ rs[i] = p
        BY <2>2, <2>3, <3>1
      <3>3. p \in ToSet(rs)
        BY <1>1, <2>1, <3>2, Members
      <3> QED
        BY <3>3 DEF WithinRecord
    <2>6. CarvedTo(map, 0)
      BY <1>1, <1>2, <2>2, <2>3, <2>4, <2>5 DEF CarvedTo
    <2>7. Complete(map)
      <3> SUFFICES ASSUME m < N, NEW r \in ToSet(rs)
                   PROVE  Bytes(r) \subseteq Described(map)
        BY <1>1, <1>2, <2>2 DEF Complete
      <3>1. n = m
        BY <2>2
      <3>2. PICK i \in 1 .. n : rs[i] = r
        BY <1>1, <2>1, Members
      <3>3. map[i] = r /\ map[i] \in ToSet(map)
        BY <2>2, <3>1, <3>2, Members
      <3> QED
        BY <3>3 DEF Described
    <2> QED
      BY <1>1, <2>6, <2>7
  <1> QED
    BY <1>1, <1>3, <1>4

\* With all four occupants carved, the map is what MapTrue asks for.
LEMMA AllCarved ==
  ASSUME input \in Inputs, LoaderApart, CarvedTo(found.regions, 4),
         Seen(input.memmap, Len(input.records) * EntryLen) => Complete(found.regions)
  PROVE  MapTrue
  <1> DEFINE map == found.regions
             memory == UNION {Bytes(r) : r \in Original}
  <1>1. ~Arm /\ Original = ToSet(PvhRegions(input.records))
    BY DEF Original, LoaderApart
  <1>2. map \in Seq(Region) /\ Disjoint(map) /\ Len(map) <= MaxRegions
    BY DEF CarvedTo
  <1>3. \A p \in ToSet(map) : \E r \in Original : WithinRecord(p, r, 4)
    BY <1>1 DEF CarvedTo
  <1>4. Described(map) \subseteq memory
    BY <1>3 DEF Described, WithinRecord
  <1>5. ASSUME NEW b \in Described(map)
        PROVE  KindsOf(map, b) = {Label(b)}
    <2>1. PICK p \in ToSet(map) : b \in Bytes(p)
      BY DEF Described
    <2>2. PICK r \in Original : WithinRecord(p, r, 4) /\ b \in Bytes(r)
      BY <1>3, <2>1 DEF WithinRecord
    <2>3. KindsOf(map, b) = {p.kind}
      <3>1. ASSUME NEW q \in ToSet(map), b \in Bytes(q)
            PROVE  q = p
        <4>1. PICK i \in 1 .. Len(map) : map[i] = p
          BY <1>2, Members
        <4>2. PICK j \in 1 .. Len(map) : map[j] = q
          BY <1>2, Members
        <4>3. i \in DOMAIN map /\ j \in DOMAIN map
          BY <1>2
        <4> QED
          BY <1>2, <2>1, <3>1, <4>1, <4>2, <4>3 DEF Disjoint
      <3> QED
        BY <2>1, <3>1 DEF KindsOf
    <2>4. \A q \in Original : b \in Bytes(q) => q = r
      BY <1>1, <2>2, OneRecord
    <2>5. (CHOOSE q \in Original : b \in Bytes(q)) = r
      <3> DEFINE q0 == CHOOSE q \in Original : b \in Bytes(q)
      <3>1. q0 \in Original /\ b \in Bytes(q0)
        BY <2>2, Zenon
      <3> HIDE DEF q0
      <3>2. q0 = r
        BY <2>4, <3>1
      <3> QED
        BY <3>2 DEF q0
    <2>6. \A k \in 1 .. 4 : b \in Inside(Ext(k)) <=> Takes(k, r) /\ b \in Ext(k)
      BY <1>1, <2>2, <2>4 DEF Inside, Takes
    <2>7. /\ Ext(1) = Extent(Image[1], Image[2])
          /\ Ext(2) = Extent(input.start, HeaderLen)
          /\ Ext(3) = Extent(input.memmap, Len(input.records) * EntryLen)
          /\ Ext(4) = Extent(input.cmdline, Len(CommandLine) + 1)
          /\ Carve[1][3] = "Kernel" /\ \A k \in 2 .. 4 : Carve[k][3] = "Reclaimable"
      <3>1. ASSUME NEW k \in 2 .. 4
            PROVE  k = 2 \/ k = 3 \/ k = 4
        OBVIOUS
      <3>2. Carve[1][3] = "Kernel" /\ Carve[2][3] = "Reclaimable" /\ Carve[3][3] = "Reclaimable"
            /\ Carve[4][3] = "Reclaimable"
        BY DEF Carve
      <3> QED
        BY <3>1, <3>2 DEF Ext, Carve
    <2>8. Occupied = Inside(Ext(2)) \cup Inside(Ext(3)) \cup Inside(Ext(4))
      BY <1>1, <2>7 DEF Occupied
    <2>9. /\ \A k \in 1 .. 4 : Takes(k, r) /\ b \in Ext(k) => p.kind = Carve[k][3]
          /\ (\A k \in 1 .. 4 : ~(Takes(k, r) /\ b \in Ext(k))) => p.kind = r.kind
      BY <2>1, <2>2 DEF WithinRecord
    <2>10. /\ r.kind # "Usable" => Label(b) = r.kind
           /\ r.kind = "Usable" /\ b \in Inside(Ext(1)) => Label(b) = "Kernel"
           /\ r.kind = "Usable" /\ b \notin Inside(Ext(1)) /\ b \in Occupied => Label(b) = "Reclaimable"
           /\ r.kind = "Usable" /\ b \notin Inside(Ext(1)) /\ b \notin Occupied => Label(b) = "Usable"
      <3>1. PICK kind : kind = r.kind /\ kind = (CHOOSE q \in Original : b \in Bytes(q)).kind
        BY <2>5
      <3>2. PICK image, rest : image = Inside(Ext(1)) /\ rest = Occupied
                               /\ image = Inside(Extent(Image[1], Image[2]))
        BY <2>7
      <3>3. Label(b) = IF kind # "Usable" THEN kind
                       ELSE IF b \in image THEN "Kernel"
                       ELSE IF b \in rest THEN "Reclaimable" ELSE "Usable"
        BY <3>1, <3>2, Zenon DEF Label
      <3>4. kind = r.kind
        BY <3>1
      <3>5. image = Inside(Ext(1)) /\ rest = Occupied
        BY <3>2
      <3> QED
        BY <3>3, <3>4, <3>5
    <2>11. /\ 1 \in 1 .. 4 /\ 2 \in 1 .. 4 /\ 3 \in 1 .. 4 /\ 4 \in 1 .. 4
           /\ \A k \in 1 .. 4 : k = 1 \/ k \in 2 .. 4
           /\ 2 \in 2 .. 4 /\ 3 \in 2 .. 4 /\ 4 \in 2 .. 4
           /\ \A k \in 2 .. 4 : k = 2 \/ k = 3 \/ k = 4
      OBVIOUS
    <2>12. p.kind = Label(b)
      <3>1. CASE r.kind # "Usable"
        <4>1. \A k \in 1 .. 4 : ~(Takes(k, r) /\ b \in Ext(k))
          BY <3>1 DEF Takes
        <4>2. Label(b) = r.kind
          BY <2>10, <3>1
        <4> QED
          BY <2>9, <4>1, <4>2
      <3>2. CASE r.kind = "Usable" /\ b \in Inside(Ext(1))
        <4>1. Label(b) = "Kernel"
          BY <2>10, <3>2
        <4> QED
          BY <2>6, <2>7, <2>9, <2>11, <3>2, <4>1
      <3>3. CASE r.kind = "Usable" /\ b \notin Inside(Ext(1)) /\ b \in Occupied
        <4>1. Label(b) = "Reclaimable"
          BY <2>10, <3>3
        <4>2. PICK k \in 2 .. 4 : b \in Inside(Ext(k))
          BY <2>8, <2>11, <3>3
        <4>3. k \in 1 .. 4
          OBVIOUS
        <4> QED
          BY <2>6, <2>7, <2>9, <4>1, <4>2, <4>3
      <3>4. CASE r.kind = "Usable" /\ b \notin Inside(Ext(1)) /\ b \notin Occupied
        <4>1. Label(b) = "Usable"
          BY <2>10, <3>4
        <4>2. \A k \in 1 .. 4 : b \notin Inside(Ext(k))
          BY <2>8, <2>11, <3>4
        <4> QED
          BY <2>6, <2>9, <3>4, <4>1, <4>2
      <3> QED
        BY <3>1, <3>2, <3>3, <3>4
    <2> QED
      BY <2>3, <2>12
  <1>6. Full \/ ~(Arm \/ Seen(input.memmap, Len(input.records) * EntryLen)) \/ Described(map) = memory
    <2> SUFFICES ASSUME ~Full, Seen(input.memmap, Len(input.records) * EntryLen)
                 PROVE  Described(map) = memory
      BY <1>1
    <2>1. PICK N \in Nat, n \in Nat : N = MaxRegions /\ n = Len(map)
      BY <1>2, MapAssumption
    <2>2. n < N
      BY <1>2, <2>1 DEF Full
    <2>3. \A r \in Original : Bytes(r) \subseteq Described(map)
      BY <1>1, <2>1, <2>2 DEF Complete
    <2> QED
      BY <1>4, <2>3
  <1> QED
    BY <1>2, <1>4, <1>5, <1>6 DEF MapTrue

\* Where x86-64 is with the map, and what it has of it.
CarvedSo(c) ==
  /\ LoaderApart => CarvedTo(found.regions, c)
  /\ LoaderApart /\ Seen(input.memmap, Len(input.records) * EntryLen) => Complete(found.regions)

CarveInv ==
  /\ input \in Inputs
  /\ ~Arm =>
       /\ pc \in {"install", "discover"} => at = 1 /\ found = NoMachine
       /\ pc = "carve" => at \in 1 .. 4 /\ "regions" \in DOMAIN found /\ CarvedSo(at - 1)
       /\ pc = "arm" => found = NoMachine \/ CarvedSo(4)

LEMMA CarvedSoLater ==
  ASSUME UNCHANGED input, NEW c,
         LoaderApart => CarvedTo(found'.regions, c),
         LoaderApart /\ Seen(input.memmap, Len(input.records) * EntryLen) => Complete(found'.regions)
  PROVE  CarvedSo(c)'
  <1>1. LoaderApart' <=> LoaderApart
    BY DEF Arm, LoaderApart, Ext, Carve, CommandLine
  <1>2. CarvedTo(found.regions, c)' <=> CarvedTo(found'.regions, c)
    BY DEF CarvedTo, WithinRecord, Takes, Ext, After, Carve, CommandLine
  <1>3. Complete(found.regions)' <=> Complete(found'.regions)
    BY DEF Complete
  <1> QED
    BY <1>1, <1>2, <1>3 DEF CarvedSo, Seen

LEMMA SameCarved ==
  ASSUME CarveInv, UpInv, UNCHANGED <<input, at, found>>,
         pc' = pc \/ pc' \notin {"install", "discover", "carve", "arm"}
  PROVE  CarveInv'
  <1>1. (Arm' <=> Arm) /\ (LoaderApart' <=> LoaderApart)
    BY DEF Arm, LoaderApart, Ext, Carve, CommandLine
  <1>2. ASSUME NEW c
        PROVE  CarvedSo(c)' <=> CarvedSo(c)
    BY DEF CarvedSo, LoaderApart, CarvedTo, WithinRecord, Takes, Ext, After, Carve, CommandLine, Complete,
           Seen, Arm
  <1> QED
    BY <1>1, <1>2 DEF CarveInv

LEMMA CarveStep ==
  ASSUME CarveInv, UpInv, [Next]_vars
  PROVE  CarveInv'
  <1>1. input \in Inputs
    BY DEF CarveInv
  <1>2. UNCHANGED input
    BY DEF Next, BootStep, Type, Expire, Take, Probe, Walk, Open, EnableIdentityMap, Discover, CarveNext,
           Install, Route, ArmTimer, EnableLapic, RouteCom, StartTimer, StartShell, RunScript, Poll, vars
  <1>3. CASE Arm
    BY <1>1, <1>2, <1>3 DEF CarveInv, Arm
  <1>4. CASE ~Arm
    <2>1. pc \in X86Steps
      BY <1>4 DEF UpInv, X86Up
    <2>2. CASE Install
      <3>1. pc = "install" /\ pc' = "discover" /\ UNCHANGED <<at, found>>
        BY <1>4, <2>2 DEF Install
      <3> QED
        BY <1>1, <1>2, <1>4, <3>1 DEF CarveInv, Arm
    <2>3. CASE Discover
      <3>1. at = 1 /\ found = NoMachine /\ at' = at /\ ~Arm'
        BY <1>2, <1>4, <2>3 DEF CarveInv, Discover, Arm
      <3>2. CASE pc' = "arm" /\ UNCHANGED found
        BY <1>1, <1>2, <3>1, <3>2 DEF CarveInv
      <3>3. CASE StartInfo
        <4> DEFINE records == IF Seen(input.memmap, Len(input.records) * EntryLen)
                              THEN PvhRegions(input.records) ELSE <<>>
        <4>1. PICK m : m = NoMachine /\ "regions" \in DOMAIN m
          <5>1. "regions" \in DOMAIN NoMachine
            BY DEF NoMachine
          <5> QED
            BY <5>1
        <4>2. pc' = "carve"
          BY <2>3, <3>3 DEF Discover
        <4> DEFINE slot == VirtioSlots(CommandLine)
        <4>3. found' = [m EXCEPT !.regions = Pushed(records),
                                 !.dropped = Len(records) - Len(Pushed(records)),
                                 !.cpu_count = 1,
                                 !.virtio = IF slot = None THEN None
                                            ELSE <<<<slot[1].base, slot[1].size>>>>,
                                 !.virtio_count = IF slot = None THEN 0 ELSE slot[1].count,
                                 !.args = UserArgs(CommandLine)]
          BY <2>3, <3>3, <4>1, Zenon DEF Discover
        <4>4. "regions" \in DOMAIN found' /\ found'.regions = Pushed(records)
          <5> HIDE DEF records, slot
          <5> QED
            BY <4>1, <4>3
        <4>5. LoaderApart => CarvedTo(found'.regions, 0)
          BY <1>1, <4>4, NothingCarved
        <4>6. LoaderApart /\ Seen(input.memmap, Len(input.records) * EntryLen) => Complete(found'.regions)
          BY <1>1, <4>4, NothingCarved
        <4> QED
          BY <1>1, <1>2, <3>1, <4>2, <4>4, <4>5, <4>6, CarvedSoLater DEF CarveInv
      <3> QED
        BY <2>3, <3>2, <3>3 DEF Discover
    <2>4. CASE CarveNext
      <3>1. at \in 1 .. 4 /\ "regions" \in DOMAIN found /\ CarvedSo(at - 1) /\ ~Arm'
        BY <1>2, <1>4, <2>4 DEF CarveInv, CarveNext, Arm
      <3>2. PICK c \in 0 .. 3 : at = c + 1 /\ c = at - 1
        BY <3>1
      <3>3. found'.regions = CarveOne(found.regions, Carve[c + 1]) /\ "regions" \in DOMAIN found'
        BY <2>4, <3>1, <3>2 DEF CarveNext
      <3>4. ASSUME LoaderApart
            PROVE  /\ CarvedTo(found'.regions, c + 1)
                   /\ Complete(found.regions) => Complete(found'.regions)
        <4>1. CarvedTo(found.regions, c)
          BY <3>1, <3>2, <3>4 DEF CarvedSo
        <4>2. CASE Free(found.regions, Carve[c + 1][1], Carve[c + 1][2])
          BY <1>1, <3>3, <3>4, <4>1, <4>2, CarvedOut
        <4>3. CASE ~Free(found.regions, Carve[c + 1][1], Carve[c + 1][2])
          <5>1. found'.regions = found.regions
            BY <3>3, <4>3 DEF CarveOne
          <5> QED
            BY <1>1, <3>4, <4>1, <4>3, <5>1, NotCarved
        <4> QED
          BY <4>2, <4>3
      <3>5. CarvedSo(c + 1)'
        BY <1>2, <3>1, <3>2, <3>4, CarvedSoLater DEF CarvedSo
      <3>6. Len(Carve) = 4
        BY DEF Carve
      <3>7. CASE at < 4
        <4>1. at' = at + 1 /\ pc' = "carve"
          BY <2>4, <3>6, <3>7 DEF CarveNext
        <4> QED
          BY <1>1, <1>2, <3>1, <3>2, <3>3, <3>5, <3>7, <4>1 DEF CarveInv
      <3>8. CASE at = 4
        <4>1. pc' = "arm" /\ c + 1 = 4
          BY <2>4, <3>2, <3>6, <3>8 DEF CarveNext
        <4> QED
          BY <1>1, <1>2, <3>1, <3>5, <4>1 DEF CarveInv
      <3> QED
        BY <3>1, <3>7, <3>8
    <2>5. CASE EnableLapic \/ RouteCom \/ StartTimer \/ StartShell \/ RunScript \/ Poll
      <3>1. UNCHANGED <<input, at, found>>
        BY <2>5 DEF EnableLapic, RouteCom, StartTimer, StartShell, RunScript, Poll
      <3>2. pc' = pc \/ pc' \notin {"install", "discover", "carve", "arm"}
        BY <2>5 DEF EnableLapic, RouteCom, StartTimer, StartShell, RunScript, Poll
      <3> QED
        BY <3>1, <3>2, SameCarved
    <2>6. CASE Type \/ Expire \/ Take(TimerIrq) \/ Take(UartIrq) \/ UNCHANGED vars
      <3>1. UNCHANGED <<input, at, found>>
        BY <2>6 DEF Type, Expire, Take, vars
      <3>2. pc' = pc \/ pc' \notin {"install", "discover", "carve", "arm"}
        BY <2>6 DEF Type, Expire, Take, vars
      <3> QED
        BY <3>1, <3>2, SameCarved
    <2>7. ~(Probe \/ Walk \/ Open \/ EnableIdentityMap \/ Route \/ ArmTimer)
      BY <1>4, <2>1 DEF Probe, Walk, Open, EnableIdentityMap, Route, ArmTimer, X86Steps
    <2> QED
      BY <2>2, <2>3, <2>4, <2>5, <2>6, <2>7 DEF Next, BootStep
  <1> QED
    BY <1>3, <1>4

\* discover: where the records describe no byte twice and nothing the loader
\* left lies on another, the map is true once everything is carved.
THEOREM LoaderMapTrue == Spec => [](LoaderApart => MapTrue)
  <1>1. Init => CarveInv
    BY DEF Init, CarveInv, Arm
  <1>2. CarveInv /\ UpInv /\ [Next]_vars => CarveInv'
    BY CarveStep
  <1>3. CarveInv => (LoaderApart => MapTrue)
    <2> SUFFICES ASSUME CarveInv, LoaderApart, Read, found # NoMachine PROVE MapTrue
      BY DEF MapTrue
    <2>1. ~Arm /\ pc = "arm" /\ input \in Inputs
      BY DEF CarveInv, LoaderApart, Read
    <2>2. CarvedSo(4)
      BY <2>1 DEF CarveInv
    <2> QED
      BY <2>1, <2>2, AllCarved DEF CarvedSo
  <1> QED
    BY <1>1, <1>2, <1>3, UpInductive, PTL DEF Spec

-----------------------------------------------------------------------------
(* Trees as the format allows them.  *)

\* The node that opens at n holds the property at p: nothing opens or closes
\* between them.
Holds(tree, n, p) ==
  /\ n \in 1 .. p - 1 /\ tree[n].t = "node" /\ tree[p].t = "prop"
  /\ \A j \in n + 1 .. p : tree[j].t \in {"prop", "nop"}

\* A property's value that is cells, and one that is one cell.
CellValues == {"reg", "interrupts", "#address-cells", "#size-cells"}
CountNames == {"#address-cells", "#size-cells"}

\* The root's name.
Nameless == ""

\* What the format asks of a tree: a node closes only after it opened; the first
\* node is the nameless root, and the only one; a node's properties come before
\* its children, each name once; numbers are cells; and it ends where it stops.
Document(tree) ==
  /\ tree \in Seq(ToSet(tree))
  /\ \A i \in DOMAIN tree :
       /\ tree[i].t \in {"node", "end", "prop", "nop", "stop", "bad"}
       /\ DepthAt(tree, i) \in Nat
       /\ tree[i].t \in {"stop", "bad"} => i = Len(tree)
       /\ tree[i].t = "node" /\ DepthAt(tree, i) = 1 =>
            tree[i].name = Nameless /\ \A j \in 1 .. i - 1 : tree[j].t = "nop"
       /\ tree[i].t = "prop" =>
            /\ \E n \in DOMAIN tree : Holds(tree, n, i)
            /\ tree[i].name \in CellValues => tree[i].value \in Seq(Nat)
            /\ tree[i].name \in CountNames => Len(tree[i].value) = 1
  /\ \A n, p, q \in DOMAIN tree :
       Holds(tree, n, p) /\ Holds(tree, n, q) /\ tree[p].name = tree[q].name => p = q

LEMMA TreeIs ==
  ASSUME NEW tree, Document(tree)
  PROVE  \E len \in Nat : len = Len(tree) /\ DOMAIN tree = 1 .. len
  <1>1. tree \in Seq(ToSet(tree))
    BY Zenon DEF Document
  <1> QED
    BY <1>1

\* How deep one token leads.
Rise(token) == IF token.t = "node" THEN 1 ELSE IF token.t = "end" THEN -1 ELSE 0

LEMMA CountNext ==
  ASSUME NEW tree, NEW i \in Nat, NEW t
  PROVE  /\ Count(tree, i, t) \in Nat
         /\ Count(tree, i + 1, t) = Count(tree, i, t) + (IF tree[i + 1].t = t THEN 1 ELSE 0)
         /\ Count(tree, 0, t) = 0
  <1> DEFINE S(k) == {j \in 1 .. k : tree[j].t = t}
  <1>1. \A k \in Nat : IsFiniteSet(S(k))
    <2> TAKE k \in Nat
    <2>1. IsFiniteSet(1 .. k)
      BY FS_Interval
    <2> QED
      BY <2>1, FS_Subset
  <1>2. Cardinality(S(i)) \in Nat
    BY <1>1, FS_CardinalityType
  <1>6. Count(tree, i, t) = Cardinality(S(i)) /\ Count(tree, i + 1, t) = Cardinality(S(i + 1))
    BY DEF Count
  <1>5. Count(tree, 0, t) = 0
    <2>1. S(0) = {}
      OBVIOUS
    <2> QED
      BY <2>1, FS_EmptySet DEF Count
  <1>3. CASE tree[i + 1].t = t
    <2>1. S(i + 1) = S(i) \cup {i + 1} /\ i + 1 \notin S(i)
      BY <1>3
    <2> HIDE DEF S
    <2>2. Cardinality(S(i + 1)) = Cardinality(S(i)) + 1
      BY <1>1, <2>1, FS_AddElement
    <2> QED
      BY <1>2, <1>3, <1>5, <1>6, <2>2
  <1>4. CASE tree[i + 1].t # t
    <2>1. S(i + 1) = S(i)
      BY <1>4
    <2> QED
      BY <1>2, <1>4, <1>5, <1>6, <2>1
  <1> QED
    BY <1>2, <1>3, <1>4, <1>5, <1>6

\* The depth moves by what the token says.
LEMMA DepthNext ==
  ASSUME NEW tree, NEW i \in Nat
  PROVE  /\ DepthAt(tree, i) \in Int /\ DepthAt(tree, 0) = 0
         /\ DepthAt(tree, i + 1) = DepthAt(tree, i) + Rise(tree[i + 1])
  <1>1. PICK a \in Nat, b \in Nat : a = Count(tree, i, "node") /\ b = Count(tree, i, "end")
    BY CountNext
  <1>2. /\ Count(tree, i + 1, "node") = a + (IF tree[i + 1].t = "node" THEN 1 ELSE 0)
        /\ Count(tree, i + 1, "end") = b + (IF tree[i + 1].t = "end" THEN 1 ELSE 0)
        /\ Count(tree, 0, "node") = 0 /\ Count(tree, 0, "end") = 0
    BY <1>1, CountNext
  <1> QED
    BY <1>1, <1>2 DEF DepthAt, Rise

\* A property is as deep as the node that holds it.
LEMMA HeldDeep ==
  ASSUME NEW tree, NEW n \in Nat, NEW p \in Nat, Holds(tree, n, p)
  PROVE  \A j \in n .. p : DepthAt(tree, j) = DepthAt(tree, n)
  <1> TAKE j \in n .. p
  <1>1. \A i \in n + 1 .. p : tree[i].t # "node" /\ tree[i].t # "end"
    BY DEF Holds
  <1>2. n \in 1 .. p - 1
    BY DEF Holds
  <1>3. {i \in 1 .. j : tree[i].t = "node"} = {i \in 1 .. n : tree[i].t = "node"}
    <2>1. \A i \in 1 .. j : i \in 1 .. n \/ i \in n + 1 .. p
      BY <1>2
    <2>2. \A i \in 1 .. n : i \in 1 .. j
      BY <1>2
    <2> QED
      BY <1>1, <2>1, <2>2
  <1>4. {i \in 1 .. j : tree[i].t = "end"} = {i \in 1 .. n : tree[i].t = "end"}
    <2>1. \A i \in 1 .. j : i \in 1 .. n \/ i \in n + 1 .. p
      BY <1>2
    <2>2. \A i \in 1 .. n : i \in 1 .. j
      BY <1>2
    <2> QED
      BY <1>1, <2>1, <2>2
  <1> QED
    BY <1>3, <1>4 DEF DepthAt, Count

LEMMA OneHolder ==
  ASSUME NEW tree, NEW p \in Nat, NEW m \in Nat, NEW n \in Nat, Holds(tree, m, p), Holds(tree, n, p)
  PROVE  m = n
  <1>1. m \in 1 .. p - 1 /\ n \in 1 .. p - 1 /\ tree[m].t = "node" /\ tree[n].t = "node"
    BY DEF Holds
  <1>2. ~(m < n)
    <2>1. m < n => n \in m + 1 .. p
      BY <1>1
    <2> QED
      BY <1>1, <2>1 DEF Holds
  <1>3. ~(n < m)
    <2>1. n < m => m \in n + 1 .. p
      BY <1>1
    <2> QED
      BY <1>1, <2>1 DEF Holds
  <1> QED
    BY <1>1, <1>2, <1>3

\* What Values finds by depth is what the node holds.
LEMMA ValuesAre ==
  ASSUME NEW tree, Document(tree), NEW n \in DOMAIN tree, tree[n].t = "node", NEW name
  PROVE  Values(tree, n, name) =
           {tree[p].value : p \in {q \in DOMAIN tree : Holds(tree, n, q) /\ tree[q].name = name}}
  <1>1. PICK len \in Nat : len = Len(tree) /\ DOMAIN tree = 1 .. len
    BY TreeIs
  <1> DEFINE reaches(p) ==
               /\ tree[p].t = "prop" /\ tree[p].name = name
               /\ DepthAt(tree, p) = DepthAt(tree, n)
               /\ \A j \in n + 1 .. p : DepthAt(tree, j) >= DepthAt(tree, n)
  <1>2. ASSUME NEW p \in DOMAIN tree, Holds(tree, n, p), tree[p].name = name
        PROVE  p \in n + 1 .. len /\ reaches(p)
    <2>1. n \in Nat /\ p \in Nat /\ n \in 1 .. p - 1 /\ tree[p].t = "prop"
      BY <1>1, <1>2 DEF Holds
    <2>2. \A j \in n .. p : DepthAt(tree, j) = DepthAt(tree, n)
      BY <1>2, <2>1, HeldDeep
    <2>3. DepthAt(tree, n) \in Int
      BY <2>1, DepthNext
    <2>4. DepthAt(tree, p) = DepthAt(tree, n)
      BY <2>1, <2>2
    <2>5. \A j \in n + 1 .. p : DepthAt(tree, j) >= DepthAt(tree, n)
      BY <2>1, <2>2, <2>3
    <2> QED
      BY <1>1, <1>2, <2>1, <2>4, <2>5
  <1>3. ASSUME NEW p \in n + 1 .. len, reaches(p)
        PROVE  p \in DOMAIN tree /\ Holds(tree, n, p)
    <2>1. p \in DOMAIN tree /\ n \in Nat /\ p \in Nat /\ n < p
      BY <1>1, <1>3
    <2>2. PICK m \in DOMAIN tree : Holds(tree, m, p)
      BY <1>3, <2>1 DEF Document
    <2>3. m \in Nat /\ m \in 1 .. p - 1 /\ tree[m].t = "node"
      BY <1>1, <2>2 DEF Holds
    <2>4. DepthAt(tree, m) = DepthAt(tree, n)
      <3>1. p \in m .. p
        BY <2>3
      <3> QED
        BY <1>3, <2>1, <2>2, <2>3, <3>1, HeldDeep
    <2>5. PICK l \in Nat : m = l + 1
      BY <2>3
    <2>6. DepthAt(tree, m) = DepthAt(tree, l) + 1 /\ DepthAt(tree, l) \in Int
      BY <2>3, <2>5, DepthNext DEF Rise
    <2>7. ~(m < n)
      <3>1. m < n => n \in m + 1 .. p
        BY <2>1, <2>3
      <3> QED
        BY <2>2, <3>1 DEF Holds
    <2>8. ~(m > n)
      <3> SUFFICES ASSUME m > n PROVE FALSE
        OBVIOUS
      <3>1. l = n \/ l \in n + 1 .. p
        BY <2>1, <2>3, <2>5
      <3>2. l # n
        <4> SUFFICES ASSUME l = n PROVE FALSE
          OBVIOUS
        <4>1. DepthAt(tree, m) = DepthAt(tree, l)
          BY <2>4
        <4>2. PICK d \in Int : d = DepthAt(tree, l)
          BY <2>6
        <4>3. d = d + 1
          BY <2>6, <4>1, <4>2
        <4> QED
          BY <4>3
      <3>3. DepthAt(tree, l) >= DepthAt(tree, n)
        BY <1>3, <3>1, <3>2
      <3> QED
        BY <2>4, <2>6, <3>3
    <2>9. m = n
      BY <2>1, <2>3, <2>7, <2>8
    <2> QED
      BY <2>1, <2>2, <2>9
  <1>4. Values(tree, n, name) = {tree[i].value : i \in {p \in n + 1 .. len : reaches(p)}}
    BY <1>1 DEF Values
  <1>5. {p \in n + 1 .. len : reaches(p)} = {q \in DOMAIN tree : Holds(tree, n, q) /\ tree[q].name = name}
    BY <1>2, <1>3
  <1> QED
    BY <1>4, <1>5

-----------------------------------------------------------------------------
(* FoldLeft, unfolded.  It is a recursion over sets of places, from the      *)
(* greatest down; a fold by a function over values exists by the least number *)
(* of places that fails.                                                    *)

LEMMA GreatestMember ==
  ASSUME NEW n \in Nat, NEW S \in SUBSET (1 .. n), S # {}
  PROVE  Max(S) \in S /\ \A y \in S : y <= Max(S)
  <1> DEFINE T == {k \in 0 .. n : n - k \in S}
  <1>1. T \in SUBSET Nat /\ T # {}
    <2>1. PICK x \in S : TRUE
      OBVIOUS
    <2>3. x \in 1 .. n /\ n - (n - x) = x
      BY <2>1
    <2>2. n - x \in T
      BY <2>1, <2>3
    <2>4. T \in SUBSET Nat
      OBVIOUS
    <2> HIDE DEF T
    <2> QED
      BY <2>2, <2>4
  <1>2. Min(T) \in T /\ \A y \in T : Min(T) <= y
    BY <1>1, LeastMember
  <1>3. PICK m \in T : \A y \in T : m <= y
    BY <1>2
  <1>4. n - m \in S
    BY <1>3
  <1>5. \A y \in S : y <= n - m
    <2> TAKE y \in S
    <2>3. y \in 1 .. n /\ n - (n - y) = y
      OBVIOUS
    <2>1. n - y \in T
      BY <2>3
    <2>2. m <= n - y /\ m \in Nat /\ y \in Nat
      BY <1>3, <2>1
    <2> QED
      BY <2>2
  <1> HIDE DEF T
  <1>6. \E x \in S : \A y \in S : x >= y
    <2>1. \A y \in S : n - m >= y
      BY <1>4, <1>5
    <2> QED
      BY <1>4, <2>1
  <1>7. Max(S) \in S /\ \A y \in S : Max(S) >= y
    BY <1>6, Zenon DEF Max
  <1> QED
    BY <1>7

\* The greatest of a set that ends at k + 1, and of an interval.
LEMMA GreatestIs ==
  ASSUME NEW k \in Nat, NEW S \in SUBSET (1 .. k + 1), k + 1 \in S
  PROVE  Max(S) = k + 1 /\ S \ {Max(S)} \in SUBSET (1 .. k)
  <1>1. Max(S) \in S /\ \A y \in S : y <= Max(S)
    <2>1. k + 1 \in Nat /\ S # {}
      OBVIOUS
    <2> QED
      BY <2>1, GreatestMember, Zenon
  <1>2. k + 1 <= Max(S) /\ Max(S) \in 1 .. k + 1
    BY <1>1
  <1>3. Max(S) = k + 1
    BY <1>2
  <1> QED
    BY <1>3

IsFold(f, n, base, step, e) ==
  f = [s \in SUBSET (1 .. n) |-> IF s = {} THEN base ELSE step[<<f[s \ {Max(s)}], e[Max(s)]>>]]

FoldTo(V, n, base, step, e) == \E f \in [SUBSET (1 .. n) -> V] : IsFold(f, n, base, step, e)

LEMMA FoldNext ==
  ASSUME NEW V, NEW E, NEW n \in Nat, NEW base \in V, NEW step \in [V \X E -> V], NEW e,
         \A i \in 1 .. n + 1 : e[i] \in E,
         FoldTo(V, n, base, step, e)
  PROVE  FoldTo(V, n + 1, base, step, e)
  <1>1. PICK f \in [SUBSET (1 .. n) -> V] : IsFold(f, n, base, step, e)
    BY DEF FoldTo
  <1> DEFINE g == [s \in SUBSET (1 .. n + 1) |->
                     IF n + 1 \in s THEN step[<<f[s \ {n + 1}], e[n + 1]>>] ELSE f[s]]
  <1>2. ASSUME NEW s \in SUBSET (1 .. n + 1), n + 1 \notin s
        PROVE  s \in SUBSET (1 .. n)
    BY <1>2
  <1>3. ASSUME NEW s \in SUBSET (1 .. n + 1)
        PROVE  /\ g[s] \in V
               /\ g[s] = IF s = {} THEN base ELSE step[<<g[s \ {Max(s)}], e[Max(s)]>>]
    <2>1. CASE n + 1 \in s
      <3>1. Max(s) = n + 1 /\ s \ {Max(s)} \in SUBSET (1 .. n)
        BY <2>1, GreatestIs
      <3>2. PICK r \in SUBSET (1 .. n) : r = s \ {n + 1}
        BY <3>1
      <3>3. g[s] = step[<<f[r], e[n + 1]>>]
        BY <2>1, <3>2
      <3>4. r \in SUBSET (1 .. n + 1) /\ n + 1 \notin r
        BY <3>2
      <3>5. g[r] = f[r]
        BY <3>4
      <3>6. f[r] \in V /\ e[n + 1] \in E
        <4>1. n + 1 \in 1 .. n + 1
          OBVIOUS
        <4> QED
          BY <1>1, <3>2, <4>1
      <3>7. step[<<f[r], e[n + 1]>>] \in V
        BY <3>6
      <3> HIDE DEF g
      <3> QED
        BY <2>1, <3>1, <3>2, <3>3, <3>5, <3>7
    <2>2. CASE n + 1 \notin s
      <3>1. s \in SUBSET (1 .. n) /\ g[s] = f[s]
        BY <1>2, <2>2
      <3>2. f[s] \in V
        BY <3>1
      <3>3. f[s] = IF s = {} THEN base ELSE step[<<f[s \ {Max(s)}], e[Max(s)]>>]
        BY <1>1, <3>1 DEF IsFold
      <3>4. PICK r : r = s \ {Max(s)}
        OBVIOUS
      <3>5. g[r] = f[r]
        BY <2>2, <3>4
      <3> HIDE DEF g
      <3> QED
        BY <3>1, <3>2, <3>3, <3>4, <3>5
    <2> QED
      BY <2>1, <2>2
  <1>4. g = [s \in SUBSET (1 .. n + 1) |-> g[s]]
    OBVIOUS
  <1> HIDE DEF g
  <1>5. g \in [SUBSET (1 .. n + 1) -> V]
    BY <1>3, <1>4
  <1>6. g = [s \in SUBSET (1 .. n + 1) |-> IF s = {} THEN base
                                           ELSE step[<<g[s \ {Max(s)}], e[Max(s)]>>]]
    BY <1>3, <1>4
  <1>7. IsFold(g, n + 1, base, step, e)
    BY <1>6, Zenon DEF IsFold
  <1> QED
    BY <1>5, <1>7 DEF FoldTo

LEMMA FoldExists ==
  ASSUME NEW V, NEW E, NEW n \in Nat, NEW base \in V, NEW step \in [V \X E -> V], NEW e,
         \A i \in 1 .. n : e[i] \in E
  PROVE  \E f \in [SUBSET (1 .. n) -> V] : IsFold(f, n, base, step, e)
  <1> DEFINE bad == {k \in 0 .. n : ~FoldTo(V, k, base, step, e)}
  <1>1. FoldTo(V, 0, base, step, e)
    <2> DEFINE f == [s \in SUBSET (1 .. 0) |-> base]
    <2>1. \A s \in SUBSET (1 .. 0) : s = {}
      OBVIOUS
    <2>2. f = [s \in SUBSET (1 .. 0) |-> IF s = {} THEN base ELSE step[<<f[s \ {Max(s)}], e[Max(s)]>>]]
      BY <2>1
    <2>3. f \in [SUBSET (1 .. 0) -> V]
      OBVIOUS
    <2> HIDE DEF f
    <2>4. IsFold(f, 0, base, step, e)
      BY <2>2, Zenon DEF IsFold
    <2> QED
      BY <2>3, <2>4 DEF FoldTo
  <1>2. ASSUME NEW k \in Nat, k < n, FoldTo(V, k, base, step, e)
        PROVE  FoldTo(V, k + 1, base, step, e)
    <2>1. \A i \in 1 .. k + 1 : e[i] \in E
      BY <1>2
    <2> QED
      BY <1>2, <2>1, FoldNext
  <1>3. CASE bad # {}
    <2>1. PICK k \in bad : \A j \in bad : k <= j
      <3>1. bad \in SUBSET Nat
        OBVIOUS
      <3> QED
        BY <1>3, <3>1, LeastMember
    <2>2. k # 0 /\ k - 1 \in Nat /\ k - 1 < n /\ k - 1 \notin bad
      BY <1>1, <2>1
    <2>3. FoldTo(V, k - 1, base, step, e)
      BY <2>2
    <2>4. FoldTo(V, k - 1 + 1, base, step, e)
      BY <1>2, <2>2, <2>3
    <2> QED
      BY <2>1, <2>2, <2>4
  <1>4. CASE bad = {}
    <2>1. n \in 0 .. n
      OBVIOUS
    <2>2. FoldTo(V, n, base, step, e)
      BY <1>4, <2>1
    <2> QED
      BY <2>2 DEF FoldTo
  <1> QED
    BY <1>3, <1>4

-----------------------------------------------------------------------------
(* Cells. *)

Number(seq) == FoldLeft(LAMBDA acc, c : acc * CellBase + c, 0, seq)
IsNumber(f, seq) ==
  f = [s \in SUBSET (DOMAIN seq) |->
         IF s = {} THEN 0 ELSE f[s \ {Max(s)}] * CellBase + seq[Max(s)]]

LEMMA NumberUnfolds ==
  ASSUME NEW n \in Nat, NEW seq, DOMAIN seq = 1 .. n, \A i \in 1 .. n : seq[i] \in Nat
  PROVE  \E f \in [SUBSET (1 .. n) -> Nat] : IsNumber(f, seq) /\ Number(seq) = f[1 .. n]
  <1> DEFINE h == CHOOSE f : IsNumber(f, seq)
  <1>1. Number(seq) = h[DOMAIN seq]
    BY Zenon DEF Number, FoldLeft, MapThenFoldSet, IsNumber
  <1> DEFINE step == [p \in Nat \X Nat |-> p[1] * CellBase + p[2]]
  <1>2. \A a, b \in Nat : a * CellBase + b \in Nat
    BY CellAssumption
  <1>3. step \in [Nat \X Nat -> Nat]
    BY <1>2
  <1>4. \A a, b \in Nat : step[<<a, b>>] = a * CellBase + b
    OBVIOUS
  <1> HIDE DEF step
  <1>5. PICK f \in [SUBSET (1 .. n) -> Nat] : IsFold(f, n, 0, step, seq)
    BY <1>3, FoldExists
  <1>6. ASSUME NEW g \in [SUBSET (1 .. n) -> Nat], NEW s \in SUBSET (1 .. n), s # {}
        PROVE  g[s \ {Max(s)}] \in Nat /\ seq[Max(s)] \in Nat
    <2>1. Max(s) \in s
      BY <1>6, GreatestMember
    <2>2. s \ {Max(s)} \in SUBSET (1 .. n) /\ Max(s) \in 1 .. n
      BY <2>1
    <2> QED
      BY <2>2
  <1>7. \A s \in SUBSET (1 .. n) :
          f[s] = IF s = {} THEN 0 ELSE f[s \ {Max(s)}] * CellBase + seq[Max(s)]
    <2> TAKE s \in SUBSET (1 .. n)
    <2>1. f[s] = IF s = {} THEN 0 ELSE step[<<f[s \ {Max(s)}], seq[Max(s)]>>]
      BY <1>5 DEF IsFold
    <2> QED
      BY <1>4, <1>6, <2>1
  <1>8. IsNumber(f, seq)
    <2>1. f = [s \in SUBSET (1 .. n) |-> f[s]]
      OBVIOUS
    <2>2. f = [s \in SUBSET (1 .. n) |->
                 IF s = {} THEN 0 ELSE f[s \ {Max(s)}] * CellBase + seq[Max(s)]]
      BY <1>7, <2>1
    <2> QED
      BY <2>2, Zenon DEF IsNumber
  <1>9. IsNumber(h, seq)
    BY <1>8, Zenon
  <1>10. h \in [SUBSET (1 .. n) -> Nat]
    <2> HIDE DEF h
    <2>1. h = [s \in SUBSET (1 .. n) |->
                 IF s = {} THEN 0 ELSE h[s \ {Max(s)}] * CellBase + seq[Max(s)]]
      BY <1>9 DEF IsNumber
    <2> DEFINE bad == {k \in 0 .. n : \E s \in SUBSET (1 .. k) : h[s] \notin Nat}
    <2>2. CASE bad # {}
      <3>1. PICK k \in bad : \A j \in bad : k <= j
        <4>1. bad \in SUBSET Nat
          OBVIOUS
        <4> QED
          BY <2>2, <4>1, LeastMember
      <3>2. PICK s \in SUBSET (1 .. k) : h[s] \notin Nat
        BY <3>1
      <3>3. k \in 0 .. n /\ s \in SUBSET (1 .. n)
        BY <3>1
      <3>4. s # {}
        BY <2>1, <3>2, <3>3
      <3>5. k # 0
        <4>1. PICK x \in s : TRUE
          BY <3>4
        <4>2. x \in 1 .. k
          BY <4>1
        <4> QED
          BY <3>3, <4>2
      <3>6. PICK j \in Nat : k = j + 1
        BY <3>3, <3>5
      <3>7. j \notin bad /\ j \in 0 .. n
        BY <3>1, <3>3, <3>6
      <3>8. k \in s
        <4>1. k \notin s => s \in SUBSET (1 .. j)
          BY <3>6
        <4> QED
          BY <3>2, <3>7, <4>1
      <3>9. Max(s) = k /\ s \ {Max(s)} \in SUBSET (1 .. j)
        BY <3>6, <3>8, GreatestIs
      <3>10. h[s \ {Max(s)}] \in Nat
        BY <3>7, <3>9
      <3>11. seq[Max(s)] \in Nat
        BY <3>3, <3>5, <3>9
      <3>12. h[s] = h[s \ {Max(s)}] * CellBase + seq[Max(s)]
        BY <2>1, <3>3, <3>4
      <3> QED
        BY <1>2, <3>2, <3>10, <3>11, <3>12
    <2>3. CASE bad = {}
      <3>1. n \in 0 .. n
        OBVIOUS
      <3>2. \A s \in SUBSET (1 .. n) : h[s] \in Nat
        BY <2>3, <3>1
      <3> QED
        BY <2>1, <3>2
    <2> QED
      BY <2>2, <2>3
  <1> QED
    BY <1>1, <1>9, <1>10

LEMMA CellsRead ==
  ASSUME NEW value, NEW at_cell, NEW count
  PROVE  Cells(value, at_cell, count) =
           IF count \notin {1, 2} \/ at_cell + count > Len(value) THEN None
           ELSE <<Number(SubSeq(value, at_cell + 1, at_cell + count))>>
  BY Zenon DEF Cells, Number

\* Numbers of cells: none, or one number.
LEMMA CellsAre ==
  ASSUME NEW value \in Seq(Nat), NEW at_cell \in Nat, NEW count \in Nat
  PROVE  /\ Cells(value, at_cell, count) # None =>
              /\ count \in {1, 2} /\ at_cell + count <= Len(value)
              /\ \E x \in Nat : Cells(value, at_cell, count) = <<x>>
         /\ Len(value) >= 1 => Cells(value, 0, 1) = <<value[1]>>
  <1>1. ASSUME count \in {1, 2}, at_cell + count <= Len(value)
        PROVE  \E x \in Nat : Cells(value, at_cell, count) = <<x>>
    <2>1. PICK seq : seq = SubSeq(value, at_cell + 1, at_cell + count)
      OBVIOUS
    <2>2. DOMAIN seq = 1 .. count /\ \A i \in 1 .. count : seq[i] \in Nat
      BY <1>1, <2>1
    <2>3. Number(seq) \in Nat
      <3>1. PICK f \in [SUBSET (1 .. count) -> Nat] : Number(seq) = f[1 .. count]
        BY <2>2, NumberUnfolds
      <3> QED
        BY <3>1
    <2>4. Cells(value, at_cell, count) = <<Number(seq)>>
      BY <1>1, <2>1, CellsRead
    <2> QED
      BY <2>3, <2>4
  <1>2. ASSUME ~(count \in {1, 2} /\ at_cell + count <= Len(value))
        PROVE  Cells(value, at_cell, count) = None
    BY <1>2, CellsRead
  <1>3. ASSUME Len(value) >= 1
        PROVE  Cells(value, 0, 1) = <<value[1]>>
    <2>1. PICK seq : seq = SubSeq(value, 0 + 1, 0 + 1)
      OBVIOUS
    <2>2. DOMAIN seq = 1 .. 1 /\ seq[1] = value[1] /\ value[1] \in Nat
      BY <1>3, <2>1
    <2>3. PICK f \in [SUBSET (1 .. 1) -> Nat] : IsNumber(f, seq) /\ Number(seq) = f[1 .. 1]
      <3>1. \A i \in 1 .. 1 : seq[i] \in Nat
        BY <2>2
      <3> QED
        BY <2>2, <3>1, NumberUnfolds
    <2>4. f[1 .. 1] = f[(1 .. 1) \ {Max(1 .. 1)}] * CellBase + seq[Max(1 .. 1)]
      <3>1. 1 .. 1 # {}
        OBVIOUS
      <3> QED
        BY <2>2, <2>3, <3>1 DEF IsNumber
    <2>5. Max(1 .. 1) = 1
      <3>3. 1 .. 1 # {} /\ 1 .. 1 \in SUBSET (1 .. 1)
        OBVIOUS
      <3>2. Max(1 .. 1) \in 1 .. 1
        BY <3>3, GreatestMember
      <3> QED
        BY <3>2
    <2>6. (1 .. 1) \ {1} = {}
      OBVIOUS
    <2>7. f[{}] = 0
      BY <2>2, <2>3 DEF IsNumber
    <2>8. 0 * CellBase = 0
      BY CellAssumption
    <2>9. Number(seq) = value[1]
      <3>1. f[1 .. 1] = 0 * CellBase + seq[1]
        BY <2>4, <2>5, <2>6, <2>7
      <3> QED
        BY <2>2, <2>3, <2>8, <3>1
    <2>10. Cells(value, 0, 1) = <<Number(seq)>>
      BY <1>3, <2>1, CellsRead
    <2> QED
      BY <2>9, <2>10
  <1>4. at_cell + count <= Len(value) \/ ~(at_cell + count <= Len(value))
    OBVIOUS
  <1> QED
    BY <1>1, <1>2, <1>3

\* A range read from a reg, or nothing.
LEMMA PairIs ==
  ASSUME NEW value \in Seq(Nat), NEW a \in Nat, NEW s \in Nat, NEW i \in Nat
  PROVE  /\ RegPair(value, a, s, i) # None =>
              \E x, y \in Nat : RegPair(value, a, s, i) = <<<<x, y>>>>
         /\ RegPair(value, a, s, Len(value)) = None
  <1>1. ASSUME NEW j \in Nat
        PROVE  /\ j * (a + s) \in Nat
               /\ RegPair(value, a, s, j) =
                    IF None \in {Cells(value, j * (a + s), a), Cells(value, j * (a + s) + a, s)} THEN None
                    ELSE <<<<Cells(value, j * (a + s), a)[1], Cells(value, j * (a + s) + a, s)[1]>>>>
    BY DEF RegPair
  <1>2. RegPair(value, a, s, i) # None => \E x, y \in Nat : RegPair(value, a, s, i) = <<<<x, y>>>>
    <2>1. PICK b \in Nat : b = i * (a + s)
      BY <1>1
    <2> SUFFICES ASSUME Cells(value, b, a) # None, Cells(value, b + a, s) # None
                 PROVE  \E x, y \in Nat : RegPair(value, a, s, i) = <<<<x, y>>>>
      BY <1>1, <2>1
    <2>2. PICK x \in Nat : Cells(value, b, a) = <<x>>
      BY CellsAre
    <2>3. PICK y \in Nat : Cells(value, b + a, s) = <<y>>
      <3>1. b + a \in Nat
        OBVIOUS
      <3> QED
        BY <3>1, CellsAre
    <2>4. RegPair(value, a, s, i) = <<<<x, y>>>>
      BY <1>1, <2>1, <2>2, <2>3
    <2> QED
      BY <2>4
  <1>3. RegPair(value, a, s, Len(value)) = None
    <2>1. PICK n \in Nat : n = Len(value)
      OBVIOUS
    <2>2. PICK b \in Nat : b = n * (a + s)
      BY <1>1, <2>1
    <2>3. CASE a \notin {1, 2}
      <3>1. Cells(value, b, a) = None
        BY <2>3, CellsAre
      <3> QED
        BY <1>1, <2>1, <2>2, <3>1
    <2>4. CASE a \in {1, 2}
      <3>1. b >= n
        <4>1. PICK c \in Nat : c = a + s /\ c >= 1
          BY <2>4
        <4>2. n * c = n + n * (c - 1) /\ n * (c - 1) \in Nat
          BY <4>1
        <4> QED
          BY <2>2, <4>1, <4>2
      <3>2. Cells(value, b, a) = None
        <4>1. ~(b + a <= Len(value))
          BY <2>1, <2>4, <3>1
        <4> QED
          BY <4>1, CellsAre
      <3> QED
        BY <1>1, <2>1, <2>2, <3>2
    <2> QED
      BY <2>3, <2>4
  <1> QED
    BY <1>2, <1>3

\* The ranges of a reg: a sequence of pairs, its first and second among them.
PairsOf(value, a, s, out) ==
  /\ out \in Seq(Nat \X Nat)
  /\ RegPair(value, a, s, 0) = (IF 1 \in DOMAIN out THEN <<out[1]>> ELSE None)
  /\ None \notin {RegPair(value, a, s, 0), RegPair(value, a, s, 1)} <=> 2 \in DOMAIN out
  /\ 2 \in DOMAIN out => RegPair(value, a, s, 1) = <<out[2]>>

LEMMA PairsAre ==
  ASSUME NEW value \in Seq(Nat), NEW a \in Nat, NEW s \in Nat
  PROVE  PairsOf(value, a, s, RegPairs(value, a, s))
  <1> DEFINE pair(i) == RegPair(value, a, s, i)
             S == {i \in 0 .. Len(value) : pair(i) = None}
  <1>0. PICK out : out = RegPairs(value, a, s)
    OBVIOUS
  <1>1. PICK count \in S : \A y \in S : count <= y
    <2>1. Len(value) \in S
      <3>1. pair(Len(value)) = None
        BY PairIs
      <3> QED
        BY <3>1
    <2>2. S \in SUBSET Nat
      OBVIOUS
    <2> HIDE DEF S
    <2>3. S # {}
      BY <2>1
    <2> QED
      BY <2>2, <2>3, LeastMember
  <1>2. Min(S) = count
    <2>1. S \in SUBSET Nat /\ S # {}
      BY <1>1
    <2> HIDE DEF S
    <2>2. Min(S) \in S /\ \A y \in S : Min(S) <= y
      BY <2>1, LeastMember
    <2>3. Min(S) <= count /\ count <= Min(S) /\ Min(S) \in Nat /\ count \in Nat
      BY <1>1, <2>1, <2>2
    <2> QED
      BY <2>3
  <1>3. count \in Nat /\ out = [i \in 1 .. count |-> pair(i - 1)[1]]
    BY <1>0, <1>1, <1>2 DEF RegPairs
  <1>4. \A i \in 0 .. count - 1 : pair(i) # None
    <2> TAKE i \in 0 .. count - 1
    <2>1. i \in 0 .. Len(value) /\ ~(count <= i)
      BY <1>1, <1>3
    <2> QED
      BY <1>1, <2>1
  <1>5. \A i \in 1 .. count : pair(i - 1) = <<out[i]>> /\ out[i] \in Nat \X Nat
    <2> TAKE i \in 1 .. count
    <2>1. PICK j \in 0 .. count - 1 : j = i - 1
      BY <1>3
    <2>2. j \in Nat
      OBVIOUS
    <2>3. PICK x \in Nat, y \in Nat : pair(j) = <<<<x, y>>>>
      BY <1>4, <2>2, PairIs
    <2>4. out[i] = pair(j)[1]
      BY <1>3, <2>1
    <2> QED
      BY <2>1, <2>3, <2>4
  <1>6. pair(count) = None
    BY <1>1
  <1>7. DOMAIN out = 1 .. count /\ out \in Seq(Nat \X Nat)
    <2>1. out = [i \in 1 .. count |-> out[i]]
      BY <1>3
    <2>2. out \in [1 .. count -> Nat \X Nat]
      BY <1>5, <2>1
    <2> QED
      BY <1>3, <2>2
  <1> HIDE DEF pair, S
  <1>8. count >= 1 => pair(0) = <<out[1]>>
    BY <1>3, <1>5
  <1>9. count >= 2 => pair(1) = <<out[2]>>
    BY <1>3, <1>5
  <1>10. \A i \in 1 .. count : <<out[i]>> # None
    BY DEF None
  <1>11. pair(0) = (IF 1 \in DOMAIN out THEN <<out[1]>> ELSE None)
    BY <1>3, <1>6, <1>7, <1>8
  <1>12. None \notin {pair(0), pair(1)} <=> 2 \in DOMAIN out
    <2>1. CASE count = 0 \/ count = 1
      <3>1. None \in {pair(0), pair(1)}
        BY <1>6, <2>1
      <3>2. 2 \notin DOMAIN out
        BY <1>7, <2>1
      <3> QED
        BY <3>1, <3>2
    <2>2. CASE count >= 2
      <3>1. pair(0) = <<out[1]>> /\ pair(1) = <<out[2]>>
        BY <1>3, <1>8, <1>9, <2>2
      <3>2. 2 \in DOMAIN out /\ pair(0) # None /\ pair(1) # None
        <4>1. 1 \in 1 .. count /\ 2 \in 1 .. count
          BY <1>3, <2>2
        <4>2. <<out[1]>> # None /\ <<out[2]>> # None
          BY <1>10, <4>1
        <4> QED
          BY <1>7, <3>1, <4>1, <4>2
      <3> QED
        BY <3>2
    <2> QED
      BY <1>3, <2>1, <2>2
  <1>13. 2 \in DOMAIN out => pair(1) = <<out[2]>>
    BY <1>3, <1>7, <1>9
  <1> QED
    BY <1>0, <1>7, <1>11, <1>12, <1>13 DEF pair, PairsOf

-----------------------------------------------------------------------------
(* The root's cell counts: said before the first child opens, so they are    *)
(* settled by the time a child's reg is read.                                *)

RootSays(tree, p, name) ==
  tree[p].t = "prop" /\ tree[p].name = name /\ DepthAt(tree, p) = 1

\* What the first k tokens of a tree make of a cell count.
Counted(tree, k, name, default, c) ==
  /\ c \in Nat
  /\ \A p \in 1 .. k : RootSays(tree, p, name) => c = tree[p].value[1]
  /\ (\A p \in 1 .. k : ~RootSays(tree, p, name)) => c = default

\* The pieces of Document.
LEMMA TokenIs ==
  ASSUME NEW tree, Document(tree), NEW i \in DOMAIN tree
  PROVE  /\ tree[i].t \in {"node", "end", "prop", "nop", "stop", "bad"}
         /\ DepthAt(tree, i) \in Nat
         /\ tree[i].t \in {"stop", "bad"} => i = Len(tree)
         /\ tree[i].t = "node" /\ DepthAt(tree, i) = 1 =>
              tree[i].name = Nameless /\ \A j \in 1 .. i - 1 : tree[j].t = "nop"
         /\ tree[i].t = "prop" =>
              /\ \E n \in DOMAIN tree : Holds(tree, n, i)
              /\ tree[i].name \in CellValues => tree[i].value \in Seq(Nat)
              /\ tree[i].name \in CountNames => Len(tree[i].value) = 1
  BY Zenon DEF Document

LEMMA NamedOnce ==
  ASSUME NEW tree, Document(tree), NEW n \in DOMAIN tree, NEW p \in DOMAIN tree, NEW q \in DOMAIN tree,
         Holds(tree, n, p), Holds(tree, n, q), tree[p].name = tree[q].name
  PROVE  p = q
  BY Zenon DEF Document

\* A property of a tree, and the node that holds it.
LEMMA Holder ==
  ASSUME NEW tree, Document(tree), NEW p \in DOMAIN tree, tree[p].t = "prop"
  PROVE  \E n \in DOMAIN tree : /\ Holds(tree, n, p) /\ n \in Nat /\ p \in Nat /\ n < p
                                /\ tree[n].t = "node" /\ DepthAt(tree, n) = DepthAt(tree, p)
  <1>1. PICK len \in Nat : len = Len(tree) /\ DOMAIN tree = 1 .. len
    BY TreeIs
  <1>2. PICK n \in DOMAIN tree : Holds(tree, n, p)
    BY TokenIs
  <1>3. n \in Nat /\ p \in Nat /\ n \in 1 .. p - 1 /\ tree[n].t = "node"
    BY <1>1, <1>2 DEF Holds
  <1>4. DepthAt(tree, p) = DepthAt(tree, n)
    <2>1. p \in n .. p
      BY <1>3
    <2> QED
      BY <1>2, <1>3, <2>1, HeldDeep
  <1> QED
    BY <1>2, <1>3, <1>4

LEMMA OneRoot ==
  ASSUME NEW tree, Document(tree), NEW m \in DOMAIN tree, NEW n \in DOMAIN tree,
         tree[m].t = "node", tree[n].t = "node", DepthAt(tree, n) = 1
  PROVE  n <= m /\ (DepthAt(tree, m) = 1 => m = n)
  <1>1. PICK len \in Nat : len = Len(tree) /\ DOMAIN tree = 1 .. len
    BY TreeIs
  <1>2. ~(m < n)
    <2>1. m < n => m \in 1 .. n - 1
      BY <1>1
    <2>2. \A j \in 1 .. n - 1 : tree[j].t = "nop"
      BY TokenIs
    <2> QED
      BY <2>1, <2>2
  <1>3. DepthAt(tree, m) = 1 => ~(n < m)
    <2> SUFFICES ASSUME DepthAt(tree, m) = 1 PROVE ~(n < m)
      OBVIOUS
    <2>1. n < m => n \in 1 .. m - 1
      BY <1>1
    <2>2. \A j \in 1 .. m - 1 : tree[j].t = "nop"
      BY TokenIs
    <2> QED
      BY <2>1, <2>2
  <1> QED
    BY <1>1, <1>2, <1>3

LEMMA SaidOnce ==
  ASSUME NEW tree, Document(tree), NEW p \in DOMAIN tree, NEW q \in DOMAIN tree, NEW name,
         RootSays(tree, p, name), RootSays(tree, q, name)
  PROVE  p = q
  <1>1. PICK n \in DOMAIN tree : Holds(tree, n, p) /\ tree[n].t = "node" /\ DepthAt(tree, n) = 1
    BY Holder DEF RootSays
  <1>2. PICK m \in DOMAIN tree : Holds(tree, m, q) /\ tree[m].t = "node" /\ DepthAt(tree, m) = 1
    BY Holder DEF RootSays
  <1>3. m = n
    BY <1>1, <1>2, OneRoot
  <1> QED
    BY <1>1, <1>2, <1>3, NamedOnce DEF RootSays

LEMMA SaidBefore ==
  ASSUME NEW tree, Document(tree), NEW p \in DOMAIN tree, NEW q \in DOMAIN tree, NEW name,
         tree[p].t = "prop", DepthAt(tree, p) = 2, RootSays(tree, q, name)
  PROVE  q < p
  <1>1. PICK n \in DOMAIN tree : /\ Holds(tree, n, p) /\ n \in Nat /\ p \in Nat /\ n < p
                                 /\ tree[n].t = "node" /\ DepthAt(tree, n) = 2
    BY Holder
  <1>2. PICK r \in DOMAIN tree : /\ Holds(tree, r, q) /\ r \in Nat /\ q \in Nat /\ r < q
                                 /\ tree[r].t = "node" /\ DepthAt(tree, r) = 1
    BY Holder DEF RootSays
  <1>3. r < n
    <2>1. r <= n
      BY <1>1, <1>2, OneRoot
    <2>2. r # n
      BY <1>1, <1>2
    <2> QED
      BY <1>1, <1>2, <2>1, <2>2
  <1> SUFFICES ASSUME ~(q < p) PROVE FALSE
    OBVIOUS
  <1>4. n \in r + 1 .. q
    BY <1>1, <1>2, <1>3
  <1> QED
    BY <1>1, <1>2, <1>4 DEF Holds

LEMMA CountedNext ==
  ASSUME NEW tree, Document(tree), NEW k \in Nat, k + 1 \in DOMAIN tree, NEW name, NEW default \in Nat,
         NEW c, Counted(tree, k, name, default, c), name \in CountNames,
         NEW d, d = IF RootSays(tree, k + 1, name) THEN tree[k + 1].value[1] ELSE c
  PROVE  Counted(tree, k + 1, name, default, d)
  <1>1. PICK len \in Nat : len = Len(tree) /\ DOMAIN tree = 1 .. len
    BY TreeIs
  <1>2. \A p \in 1 .. k + 1 : p \in DOMAIN tree /\ (p = k + 1 \/ p \in 1 .. k)
    BY <1>1
  <1>3. CASE RootSays(tree, k + 1, name)
    <2>1. d = tree[k + 1].value[1]
      BY <1>3
    <2>2. \A p \in 1 .. k + 1 : RootSays(tree, p, name) => p = k + 1
      BY <1>2, <1>3, SaidOnce
    <2>3. d \in Nat
      <3>1. tree[k + 1].value \in Seq(Nat) /\ Len(tree[k + 1].value) = 1
        BY <1>3, TokenIs DEF RootSays, CountNames, CellValues
      <3> QED
        BY <2>1, <3>1
    <2>4. k + 1 \in 1 .. k + 1
      OBVIOUS
    <2> QED
      BY <1>3, <2>1, <2>2, <2>3, <2>4 DEF Counted
  <1>4. CASE ~RootSays(tree, k + 1, name)
    <2>1. d = c
      BY <1>4
    <2>2. \A p \in 1 .. k : p \in 1 .. k + 1
      OBVIOUS
    <2>3. c \in Nat /\ \A p \in 1 .. k + 1 : RootSays(tree, p, name) => c = tree[p].value[1]
      BY <1>2, <1>4 DEF Counted
    <2>4. (\A p \in 1 .. k + 1 : ~RootSays(tree, p, name)) => c = default
      BY <2>2 DEF Counted
    <2> QED
      BY <2>1, <2>3, <2>4 DEF Counted
  <1> QED
    BY <1>3, <1>4

\* Where a child's reg is read, the counts are the tree's.
LEMMA CountIs ==
  ASSUME NEW tree, Document(tree), NEW k \in Nat, k + 1 \in DOMAIN tree, NEW name, NEW default \in Nat,
         NEW c, Counted(tree, k, name, default, c),
         tree[k + 1].t = "prop", DepthAt(tree, k + 1) = 2
  PROVE  c = CellCount(tree, name, default)
  <1>1. PICK len \in Nat : len = Len(tree) /\ DOMAIN tree = 1 .. len
    BY TreeIs
  <1>2. \A q \in DOMAIN tree : RootSays(tree, q, name) => q \in 1 .. k
    <2> SUFFICES ASSUME NEW q \in DOMAIN tree, RootSays(tree, q, name) PROVE q \in 1 .. k
      OBVIOUS
    <2>1. q < k + 1
      BY SaidBefore
    <2> QED
      BY <1>1, <2>1
  <1> DEFINE said == UNION {Values(tree, n, name) : n \in Nodes(tree, 1, Nameless)}
  <1>6. CellCount(tree, name, default) =
          IF said = {} THEN default ELSE (CHOOSE value \in said : TRUE)[1]
    BY Zenon DEF CellCount, Nameless
  <1>3. \A v \in said : v[1] = c
    <2> SUFFICES ASSUME NEW n \in Nodes(tree, 1, Nameless), NEW v \in Values(tree, n, name) PROVE v[1] = c
      OBVIOUS
    <2>1. n \in DOMAIN tree /\ tree[n].t = "node" /\ DepthAt(tree, n) = 1
      BY DEF Nodes
    <2>8. v \in {tree[p].value : p \in {q \in DOMAIN tree : Holds(tree, n, q) /\ tree[q].name = name}}
      BY <2>1, ValuesAre
    <2>2. PICK p \in DOMAIN tree : Holds(tree, n, p) /\ tree[p].name = name /\ v = tree[p].value
      BY <2>8
    <2>3. tree[p].t = "prop"
      BY <2>2 DEF Holds
    <2>4. PICK m \in DOMAIN tree : Holds(tree, m, p) /\ m \in Nat /\ p \in Nat /\ DepthAt(tree, m) = DepthAt(tree, p)
      BY <2>3, Holder
    <2>9. n \in Nat
      BY <1>1, <2>1
    <2>5. m = n
      BY <2>2, <2>4, <2>9, OneHolder
    <2>6. RootSays(tree, p, name)
      BY <2>1, <2>2, <2>3, <2>4, <2>5 DEF RootSays
    <2> QED
      BY <1>2, <2>2, <2>6 DEF Counted
  <1>4. CASE \E q \in DOMAIN tree : RootSays(tree, q, name)
    <2>1. PICK q \in DOMAIN tree : RootSays(tree, q, name)
      BY <1>4
    <2>2. PICK n \in DOMAIN tree : Holds(tree, n, q) /\ tree[n].t = "node" /\ DepthAt(tree, n) = 1
      BY <2>1, Holder DEF RootSays
    <2>3. n \in Nodes(tree, 1, Nameless)
      BY <2>2, TokenIs DEF Nodes
    <2>4. tree[q].value \in Values(tree, n, name)
      BY <2>1, <2>2, ValuesAre DEF RootSays
    <2>5. said # {}
      BY <2>3, <2>4
    <2>6. CellCount(tree, name, default) = (CHOOSE value \in said : TRUE)[1]
      BY <1>6, <2>5
    <2>7. (CHOOSE value \in said : TRUE) \in said
      BY <2>5
    <2> HIDE DEF said
    <2> QED
      BY <1>3, <2>6, <2>7
  <1>5. CASE ~\E q \in DOMAIN tree : RootSays(tree, q, name)
    <2>1. said = {}
      <3> SUFFICES ASSUME NEW n \in Nodes(tree, 1, Nameless), NEW v \in Values(tree, n, name) PROVE FALSE
        OBVIOUS
      <3>1. n \in DOMAIN tree /\ tree[n].t = "node" /\ DepthAt(tree, n) = 1
        BY DEF Nodes
      <3>8. v \in {tree[p].value : p \in {q \in DOMAIN tree : Holds(tree, n, q) /\ tree[q].name = name}}
        BY <3>1, ValuesAre
      <3>2. PICK p \in DOMAIN tree : Holds(tree, n, p) /\ tree[p].name = name
        BY <3>8
      <3>3. tree[p].t = "prop"
        BY <3>2 DEF Holds
      <3>4. PICK m \in DOMAIN tree : Holds(tree, m, p) /\ m \in Nat /\ p \in Nat /\ DepthAt(tree, m) = DepthAt(tree, p)
        BY <3>3, Holder
      <3>9. n \in Nat
        BY <1>1, <3>1
      <3>5. m = n
        BY <3>2, <3>4, <3>9, OneHolder
      <3> QED
        BY <1>5, <3>1, <3>2, <3>3, <3>4, <3>5 DEF RootSays
    <2>2. CellCount(tree, name, default) = default
      BY <1>6, <2>1
    <2>3. \A p \in 1 .. k : ~RootSays(tree, p, name)
      BY <1>1, <1>5
    <2> QED
      BY <2>2, <2>3 DEF Counted
  <1> QED
    BY <1>4, <1>5

-----------------------------------------------------------------------------
(* One token folded into the scan, field by field.                           *)

\* The scan has its fields, and no other.
Shape(s) ==
  s = [depth |-> s.depth, node |-> s.node, address_cells |-> s.address_cells,
       size_cells |-> s.size_cells, regions |-> s.regions, cpu_count |-> s.cpu_count,
       uart_base |-> s.uart_base, uart_irq |-> s.uart_irq, virtio |-> s.virtio,
       virtio_count |-> s.virtio_count, bootargs |-> s.bootargs, gic_v3 |-> s.gic_v3,
       gic_reg |-> s.gic_reg]

\* A number, or two where there is none.
OrTwo(cell) == IF cell = None THEN 2 ELSE cell[1]

\* A reg: what each of its fields is afterwards.
RegPart(s, name) == s.depth = 2 /\ name = "reg"
MoreRegions(s, value) == ExtendUsable(s.regions, RegPairs(value, s.address_cells, s.size_cells))
First(s, value) == RegPair(value, s.address_cells, s.size_cells, 0)
Second(s, value) == RegPair(value, s.address_cells, s.size_cells, 1)
Lower(s, value) == First(s, value) # None /\ (s.virtio = None \/ First(s, value)[1][1] < s.virtio[1][1])

RegDone(s, value, e) ==
  /\ Shape(e)
  /\ e.depth = s.depth
  /\ e.node = s.node
  /\ e.address_cells = s.address_cells
  /\ e.size_cells = s.size_cells
  /\ e.regions = IF s.node = "memory" THEN MoreRegions(s, value) ELSE s.regions
  /\ e.cpu_count = s.cpu_count
  /\ e.uart_base = IF s.node = "pl011" /\ s.uart_base = None
                   THEN IF First(s, value) = None THEN None ELSE <<First(s, value)[1][1]>>
                   ELSE s.uart_base
  /\ e.uart_irq = s.uart_irq
  /\ e.virtio = IF s.node = "virtio_mmio" /\ Lower(s, value) THEN First(s, value) ELSE s.virtio
  /\ e.virtio_count = IF s.node = "virtio_mmio" THEN s.virtio_count + 1 ELSE s.virtio_count
  /\ e.bootargs = s.bootargs
  /\ e.gic_v3 = s.gic_v3
  /\ e.gic_reg = IF s.node = "intc" /\ None \notin {First(s, value), Second(s, value)}
                 THEN <<<<First(s, value)[1][1], Second(s, value)[1][1]>>>> ELSE s.gic_reg

LEMMA RegFields ==
  ASSUME NEW s, Shape(s), NEW value
  PROVE  RegDone(s, value, Reg(s, value))
  <1>0. PICK e : e = Reg(s, value)
    OBVIOUS
  <1>1. CASE s.node = "memory"
    <2>1. e = [s EXCEPT !.regions = MoreRegions(s, value)]
      BY <1>0, <1>1 DEF Reg, MoreRegions
    <2> QED
      BY <1>0, <1>1, <2>1 DEF Shape, RegDone
  <1>2. CASE s.node = "pl011"
    <2>1. CASE s.uart_base = None
      <3>1. e = [s EXCEPT !.uart_base = IF First(s, value) = None THEN None ELSE <<First(s, value)[1][1]>>]
        BY <1>0, <1>2, <2>1 DEF Reg, First
      <3> QED
        BY <1>0, <1>2, <2>1, <3>1 DEF Shape, RegDone
    <2>2. CASE s.uart_base # None
      <3>1. e = s
        BY <1>0, <1>2, <2>2 DEF Reg
      <3> QED
        BY <1>0, <1>2, <2>2, <3>1 DEF Shape, RegDone
    <2> QED
      BY <2>1, <2>2
  <1>3. CASE s.node = "virtio_mmio"
    <2>1. PICK c, v : c = s.virtio_count + 1 /\ v = IF Lower(s, value) THEN First(s, value) ELSE s.virtio
      OBVIOUS
    <2>2. e = [s EXCEPT !.virtio_count = c, !.virtio = v]
      BY <1>0, <1>3, <2>1 DEF Reg, First, Lower, Shape
    <2>3. /\ Shape(e) /\ e.virtio_count = c /\ e.virtio = v
          /\ e.depth = s.depth /\ e.node = s.node /\ e.address_cells = s.address_cells
          /\ e.size_cells = s.size_cells /\ e.regions = s.regions /\ e.cpu_count = s.cpu_count
          /\ e.uart_base = s.uart_base /\ e.uart_irq = s.uart_irq /\ e.bootargs = s.bootargs
          /\ e.gic_v3 = s.gic_v3 /\ e.gic_reg = s.gic_reg
      BY <2>2 DEF Shape
    <2> QED
      BY <1>0, <1>3, <2>1, <2>3 DEF RegDone
  <1>4. CASE s.node = "intc"
    <2>1. CASE None \in {First(s, value), Second(s, value)}
      <3>1. e = s
        BY <1>0, <1>4, <2>1 DEF Reg, ControllerReg, First, Second
      <3> QED
        BY <1>0, <1>4, <2>1, <3>1 DEF Shape, RegDone
    <2>2. CASE None \notin {First(s, value), Second(s, value)}
      <3>1. e = [s EXCEPT !.gic_reg = <<<<First(s, value)[1][1], Second(s, value)[1][1]>>>>]
        BY <1>0, <1>4, <2>2 DEF Reg, ControllerReg, First, Second
      <3> QED
        BY <1>0, <1>4, <2>2, <3>1 DEF Shape, RegDone
    <2> QED
      BY <2>1, <2>2
  <1>5. CASE s.node \notin {"memory", "pl011", "virtio_mmio", "intc"}
    <2>1. e = s
      BY <1>0, <1>5 DEF Reg
    <2> QED
      BY <1>0, <1>5, <2>1 DEF Shape, RegDone
  <1> QED
    BY <1>0, <1>1, <1>2, <1>3, <1>4, <1>5

LineOf(value) == IF Cells(value, 0, 1) = <<0>> /\ Len(value) > 1 THEN <<value[2] + 32>> ELSE None

PropDone(s, name, value, e) ==
  /\ Shape(e)
  /\ e.depth = s.depth
  /\ e.node = s.node
  /\ e.address_cells = IF s.depth = 1 /\ name = "#address-cells" THEN OrTwo(Cells(value, 0, 1))
                       ELSE s.address_cells
  /\ e.size_cells = IF s.depth = 1 /\ name = "#size-cells" THEN OrTwo(Cells(value, 0, 1)) ELSE s.size_cells
  /\ e.regions = IF RegPart(s, name) /\ s.node = "memory" THEN MoreRegions(s, value) ELSE s.regions
  /\ e.cpu_count = s.cpu_count
  /\ e.uart_base = IF RegPart(s, name) /\ s.node = "pl011" /\ s.uart_base = None
                   THEN IF First(s, value) = None THEN None ELSE <<First(s, value)[1][1]>>
                   ELSE s.uart_base
  /\ e.uart_irq = IF s.depth = 2 /\ name = "interrupts" /\ s.node = "pl011" /\ s.uart_irq = None
                  THEN LineOf(value) ELSE s.uart_irq
  /\ e.virtio = IF RegPart(s, name) /\ s.node = "virtio_mmio" /\ Lower(s, value) THEN First(s, value) ELSE s.virtio
  /\ e.virtio_count = IF RegPart(s, name) /\ s.node = "virtio_mmio" THEN s.virtio_count + 1 ELSE s.virtio_count
  /\ e.bootargs = IF s.depth = 2 /\ name = "bootargs" /\ s.node = "chosen" THEN String(value)
                  ELSE s.bootargs
  /\ e.gic_reg = IF RegPart(s, name) /\ s.node = "intc" /\ None \notin {First(s, value), Second(s, value)}
                 THEN <<<<First(s, value)[1][1], Second(s, value)[1][1]>>>> ELSE s.gic_reg

LEMMA PropFields ==
  ASSUME NEW s, Shape(s), NEW name, NEW value
  PROVE  PropDone(s, name, value, Prop(s, name, value))
  <1>0. PICK e : e = Prop(s, name, value)
    OBVIOUS
  <1>1. CASE s.depth = 1 /\ name = "#address-cells"
    <2>1. e = [s EXCEPT !.address_cells = OrTwo(Cells(value, 0, 1))]
      BY <1>0, <1>1 DEF Prop, OrTwo
    <2> QED
      BY <1>0, <1>1, <2>1 DEF Shape, RegPart, PropDone
  <1>2. CASE s.depth = 1 /\ name = "#size-cells"
    <2>1. e = [s EXCEPT !.size_cells = OrTwo(Cells(value, 0, 1))]
      BY <1>0, <1>2 DEF Prop, OrTwo
    <2> QED
      BY <1>0, <1>2, <2>1 DEF Shape, RegPart, PropDone
  <1>3. CASE s.depth = 2 /\ name = "reg"
    <2>1. e = Reg(s, value)
      BY <1>0, <1>3 DEF Prop
    <2> QED
      BY <1>0, <1>3, <2>1, RegFields DEF RegPart, PropDone, RegDone
  <1>4. CASE s.depth = 2 /\ name = "bootargs" /\ s.node = "chosen"
    <2>1. e = [s EXCEPT !.bootargs = String(value)]
      BY <1>0, <1>4 DEF Prop
    <2> QED
      BY <1>0, <1>4, <2>1 DEF Shape, RegPart, PropDone
  <1>5. CASE s.depth = 2 /\ name = "interrupts" /\ s.node = "pl011" /\ s.uart_irq = None
    <2>1. e = [s EXCEPT !.uart_irq = LineOf(value)]
      BY <1>0, <1>5 DEF Prop, LineOf
    <2> QED
      BY <1>0, <1>5, <2>1 DEF Shape, RegPart, PropDone
  <1>6. CASE s.depth = 2 /\ name = "compatible" /\ s.node = "intc"
    <2>1. PICK v : v = ("arm,gic-v3" \in value)
      OBVIOUS
    <2>2. e = [s EXCEPT !.gic_v3 = v]
      BY <1>0, <1>6, <2>1 DEF Prop
    <2> QED
      BY <1>0, <1>6, <2>2 DEF Shape, RegPart, PropDone
  <1>7. CASE /\ ~(s.depth = 1 /\ name = "#address-cells") /\ ~(s.depth = 1 /\ name = "#size-cells")
             /\ ~(s.depth = 2 /\ name = "reg") /\ ~(s.depth = 2 /\ name = "bootargs" /\ s.node = "chosen")
             /\ ~(s.depth = 2 /\ name = "interrupts" /\ s.node = "pl011" /\ s.uart_irq = None)
             /\ ~(s.depth = 2 /\ name = "compatible" /\ s.node = "intc")
    <2>1. e = s
      BY <1>0, <1>7 DEF Prop
    <2> QED
      BY <1>0, <1>7, <2>1 DEF Shape, RegPart, PropDone
  <1> QED
    BY <1>0, <1>1, <1>2, <1>3, <1>4, <1>5, <1>6, <1>7

\* The controller's version is what its compatible property says last.
V3Done(s, name, value, e) ==
  e.gic_v3 = IF s.depth = 2 /\ name = "compatible" /\ s.node = "intc" THEN "arm,gic-v3" \in value
             ELSE s.gic_v3

LEMMA PropV3 ==
  ASSUME NEW s, Shape(s), NEW name, NEW value
  PROVE  V3Done(s, name, value, Prop(s, name, value))
  <1>0. PICK e : e = Prop(s, name, value)
    OBVIOUS
  <1>1. CASE s.depth = 2 /\ name = "compatible" /\ s.node = "intc"
    <2>1. e = [s EXCEPT !.gic_v3 = "arm,gic-v3" \in value]
      BY <1>0, <1>1 DEF Prop
    <2> QED
      BY <1>0, <1>1, <2>1 DEF Shape, V3Done
  <1>2. CASE ~(s.depth = 2 /\ name = "compatible" /\ s.node = "intc")
    <2>1. e.gic_v3 = s.gic_v3
      <3>1. CASE s.depth = 1 /\ name = "#address-cells"
        <4>1. e = [s EXCEPT !.address_cells = OrTwo(Cells(value, 0, 1))]
          BY <1>0, <3>1 DEF Prop, OrTwo
        <4> QED
          BY <4>1 DEF Shape
      <3>2. CASE s.depth = 1 /\ name = "#size-cells"
        <4>1. e = [s EXCEPT !.size_cells = OrTwo(Cells(value, 0, 1))]
          BY <1>0, <3>2 DEF Prop, OrTwo
        <4> QED
          BY <4>1 DEF Shape
      <3>3. CASE s.depth = 2 /\ name = "reg"
        <4>1. e = Reg(s, value)
          BY <1>0, <3>3 DEF Prop
        <4>2. RegDone(s, value, e)
          BY <4>1, RegFields
        <4> QED
          BY <4>2 DEF RegDone
      <3>4. CASE s.depth = 2 /\ name = "bootargs" /\ s.node = "chosen"
        <4>1. e = [s EXCEPT !.bootargs = String(value)]
          BY <1>0, <3>4 DEF Prop
        <4> QED
          BY <4>1 DEF Shape
      <3>5. CASE s.depth = 2 /\ name = "interrupts" /\ s.node = "pl011" /\ s.uart_irq = None
        <4>1. e = [s EXCEPT !.uart_irq = LineOf(value)]
          BY <1>0, <3>5 DEF Prop, LineOf
        <4> QED
          BY <4>1 DEF Shape
      <3>6. CASE /\ ~(s.depth = 1 /\ name = "#address-cells") /\ ~(s.depth = 1 /\ name = "#size-cells")
                 /\ ~(s.depth = 2 /\ name = "reg") /\ ~(s.depth = 2 /\ name = "bootargs" /\ s.node = "chosen")
                 /\ ~(s.depth = 2 /\ name = "interrupts" /\ s.node = "pl011" /\ s.uart_irq = None)
        <4>1. e = s
          BY <1>0, <1>2, <3>6 DEF Prop
        <4> QED
          BY <4>1
      <3> QED
        BY <3>1, <3>2, <3>3, <3>4, <3>5, <3>6
    <2> QED
      BY <1>0, <1>2, <2>1 DEF V3Done
  <1> QED
    BY <1>1, <1>2

-----------------------------------------------------------------------------
(* Where the scan is in a tree after k tokens, and what one more makes of it, *)
(* in terms of the tree.                                                     *)

Core(tree, k, s) ==
  /\ Shape(s)
  /\ s.depth = DepthAt(tree, k)
  /\ \A n \in 1 .. k :
       tree[n].t = "node" /\ (\A j \in n + 1 .. k : tree[j].t # "node") => s.node = tree[n].name
  /\ Counted(tree, k, "#address-cells", 2, s.address_cells)
  /\ Counted(tree, k, "#size-cells", 1, s.size_cells)

\* The ranges of the reg at p.
RangesAt(tree, p) ==
  RegPairs(tree[p].value, CellCount(tree, "#address-cells", 2), CellCount(tree, "#size-cells", 1))

\* A property of a child of the root.
PropOf(tree, p, prop, name) ==
  /\ tree[p].t = "prop" /\ tree[p].name = prop /\ DepthAt(tree, p) = 2
  /\ \E n \in DOMAIN tree : Holds(tree, n, p) /\ tree[n].name = name

\* The scan's counts are numbers, and at a child's property the tree's own.
LEMMA AtProp ==
  ASSUME NEW tree, Document(tree), NEW k \in Nat, k + 1 \in DOMAIN tree, NEW s, Core(tree, k, s),
         tree[k + 1].t = "prop"
  PROVE  /\ s.depth = DepthAt(tree, k + 1)
         /\ \A prop, name : s.depth = 2 /\ tree[k + 1].name = prop /\ s.node = name
                              <=> PropOf(tree, k + 1, prop, name)
         /\ s.depth = 2 => /\ s.address_cells = CellCount(tree, "#address-cells", 2)
                           /\ s.size_cells = CellCount(tree, "#size-cells", 1)
  <1>1. PICK n \in DOMAIN tree : /\ Holds(tree, n, k + 1) /\ n \in Nat /\ n < k + 1
                                 /\ tree[n].t = "node" /\ DepthAt(tree, n) = DepthAt(tree, k + 1)
    BY Holder
  <1>2. n \in 1 .. k /\ \A j \in n + 1 .. k : j \in n + 1 .. k + 1
    BY <1>1 DEF Holds
  <1>3. s.node = tree[n].name
    <2>1. \A j \in n + 1 .. k : tree[j].t # "node"
      BY <1>1, <1>2 DEF Holds
    <2> QED
      BY <1>1, <1>2, <2>1 DEF Core
  <1>4. s.depth = DepthAt(tree, k + 1)
    <2>1. k \in n .. k + 1 /\ k + 1 \in Nat
      BY <1>2
    <2> QED
      BY <1>1, <2>1, HeldDeep DEF Core
  <1>5. \A m \in DOMAIN tree : Holds(tree, m, k + 1) => m = n
    <2> SUFFICES ASSUME NEW m \in DOMAIN tree, Holds(tree, m, k + 1) PROVE m = n
      OBVIOUS
    <2>1. m \in Nat /\ k + 1 \in Nat
      BY TreeIs
    <2> QED
      BY <1>1, <2>1, OneHolder
  <1>6. \A prop, name : s.depth = 2 /\ tree[k + 1].name = prop /\ s.node = name
                          <=> PropOf(tree, k + 1, prop, name)
    BY <1>1, <1>3, <1>4, <1>5 DEF PropOf
  <1>7. s.depth = 2 => /\ s.address_cells = CellCount(tree, "#address-cells", 2)
                       /\ s.size_cells = CellCount(tree, "#size-cells", 1)
    BY <1>4, CountIs DEF Core
  <1> QED
    BY <1>4, <1>6, <1>7

\* What the token at k + 1 makes of the scan's findings.
Told(tree, p, s, e) ==
  LET ranges == RangesAt(tree, p)
  IN  /\ e.regions = IF PropOf(tree, p, "reg", "memory") THEN ExtendUsable(s.regions, ranges)
                     ELSE s.regions
      /\ e.uart_base = IF PropOf(tree, p, "reg", "pl011") /\ s.uart_base = None
                       THEN IF 1 \in DOMAIN ranges THEN <<ranges[1][1]>> ELSE None
                       ELSE s.uart_base
      /\ e.virtio = IF /\ PropOf(tree, p, "reg", "virtio_mmio") /\ 1 \in DOMAIN ranges
                       /\ s.virtio = None \/ ranges[1][1] < s.virtio[1][1]
                    THEN <<ranges[1]>> ELSE s.virtio
      /\ e.virtio_count = IF PropOf(tree, p, "reg", "virtio_mmio") THEN s.virtio_count + 1
                          ELSE s.virtio_count
      /\ e.gic_reg = IF PropOf(tree, p, "reg", "intc") /\ 2 \in DOMAIN ranges
                     THEN <<<<ranges[1][1], ranges[2][1]>>>> ELSE s.gic_reg
      /\ e.gic_v3 = IF PropOf(tree, p, "compatible", "intc") THEN "arm,gic-v3" \in tree[p].value
                    ELSE s.gic_v3
      /\ e.cpu_count = IF tree[p].t = "node" /\ tree[p].name = "cpu" /\ DepthAt(tree, p) = 3
                       THEN s.cpu_count + 1 ELSE s.cpu_count

PairAt(tree, p, i) ==
  RegPair(tree[p].value, CellCount(tree, "#address-cells", 2), CellCount(tree, "#size-cells", 1), i)

LEMMA RangesTyped ==
  ASSUME NEW tree, Document(tree), NEW p \in DOMAIN tree, tree[p].t = "prop", tree[p].name = "reg",
         CellCount(tree, "#address-cells", 2) \in Nat, CellCount(tree, "#size-cells", 1) \in Nat,
         NEW out, out = RangesAt(tree, p)
  PROVE  /\ out \in Seq(Nat \X Nat)
         /\ PairAt(tree, p, 0) = (IF 1 \in DOMAIN out THEN <<out[1]>> ELSE None)
         /\ None \notin {PairAt(tree, p, 0), PairAt(tree, p, 1)} <=> 2 \in DOMAIN out
         /\ 2 \in DOMAIN out => PairAt(tree, p, 1) = <<out[2]>>
  <1>1. tree[p].value \in Seq(Nat)
    BY TokenIs DEF CellValues
  <1>2. PICK a \in Nat, s \in Nat : a = CellCount(tree, "#address-cells", 2) /\ s = CellCount(tree, "#size-cells", 1)
    OBVIOUS
  <1>3. PICK value \in Seq(Nat) : value = tree[p].value
    BY <1>1
  <1>4. out = RegPairs(value, a, s)
    BY <1>2, <1>3 DEF RangesAt
  <1>5. \A i : PairAt(tree, p, i) = RegPair(value, a, s, i)
    BY <1>2, <1>3 DEF PairAt
  <1>6. PairsOf(value, a, s, out)
    BY <1>4, PairsAre
  <1> QED
    BY <1>5, <1>6 DEF PairsOf

LEMMA PropTold ==
  ASSUME NEW tree, Document(tree), NEW k \in Nat, k + 1 \in DOMAIN tree, NEW s, Core(tree, k, s),
         tree[k + 1].t = "prop", NEW e, e = Prop(s, tree[k + 1].name, tree[k + 1].value)
  PROVE  Core(tree, k + 1, e) /\ Told(tree, k + 1, s, e)
  <1>1. PICK p \in DOMAIN tree : p = k + 1
    OBVIOUS
  <1>2. PICK name, value : name = tree[p].name /\ value = tree[p].value
    OBVIOUS
  <1>3. Shape(s) /\ s.address_cells \in Nat /\ s.size_cells \in Nat
    BY DEF Core, Counted
  <1>4. e = Prop(s, name, value)
    BY <1>1, <1>2
  <1>10. PropDone(s, name, value, e)
    BY <1>3, <1>4, PropFields
  <1>11. V3Done(s, name, value, e)
    BY <1>3, <1>4, PropV3
  <1>5. /\ e.depth = s.depth /\ e.node = s.node /\ e.cpu_count = s.cpu_count
        /\ e.address_cells = IF s.depth = 1 /\ name = "#address-cells" THEN OrTwo(Cells(value, 0, 1))
                             ELSE s.address_cells
        /\ e.size_cells = IF s.depth = 1 /\ name = "#size-cells" THEN OrTwo(Cells(value, 0, 1))
                          ELSE s.size_cells
        /\ Shape(e)
    BY <1>10 DEF PropDone
  <1>6. s.depth = DepthAt(tree, p)
        /\ (s.depth = 2 => /\ s.address_cells = CellCount(tree, "#address-cells", 2)
                           /\ s.size_cells = CellCount(tree, "#size-cells", 1))
    BY <1>1, AtProp
  <1>7. \A prop, node : s.depth = 2 /\ name = prop /\ s.node = node <=> PropOf(tree, p, prop, node)
    BY <1>1, <1>2, AtProp
  <1>8. Core(tree, k + 1, e)
    <2>1. \A x \in CountNames : s.depth = 1 /\ name = x => OrTwo(Cells(value, 0, 1)) = value[1]
      <3> SUFFICES ASSUME NEW x \in CountNames, name = x PROVE OrTwo(Cells(value, 0, 1)) = value[1]
        OBVIOUS
      <3>1. value \in Seq(Nat) /\ Len(value) = 1
        BY <1>1, <1>2, TokenIs DEF CellValues, CountNames
      <3>2. Cells(value, 0, 1) = <<value[1]>>
        <4>1. Len(value) >= 1
          BY <3>1
        <4> QED
          BY <3>1, <4>1, CellsAre
      <3> QED
        <4>1. PICK c : c = value[1]
          OBVIOUS
        <4>2. Cells(value, 0, 1) = <<c>> /\ <<c>> # <<>> /\ <<c>>[1] = c
          BY <3>2, <4>1
        <4> QED
          BY <4>1, <4>2 DEF OrTwo, None
    <2>2. \A x : s.depth = 1 /\ name = x <=> RootSays(tree, k + 1, x)
      BY <1>1, <1>2, <1>6 DEF RootSays
    <2>3. Counted(tree, k + 1, "#address-cells", 2, e.address_cells)
      <3>1. e.address_cells = IF RootSays(tree, k + 1, "#address-cells") THEN tree[k + 1].value[1]
                              ELSE s.address_cells
        BY <1>1, <1>2, <1>5, <2>1, <2>2 DEF CountNames
      <3>2. Counted(tree, k, "#address-cells", 2, s.address_cells) /\ "#address-cells" \in CountNames
        BY DEF Core, CountNames
      <3> QED
        BY <3>1, <3>2, CountedNext
    <2>4. Counted(tree, k + 1, "#size-cells", 1, e.size_cells)
      <3>1. e.size_cells = IF RootSays(tree, k + 1, "#size-cells") THEN tree[k + 1].value[1]
                           ELSE s.size_cells
        BY <1>1, <1>2, <1>5, <2>1, <2>2 DEF CountNames
      <3>2. Counted(tree, k, "#size-cells", 1, s.size_cells) /\ "#size-cells" \in CountNames
        BY DEF Core, CountNames
      <3> QED
        BY <3>1, <3>2, CountedNext
    <2>5. \A n \in 1 .. k + 1 :
            tree[n].t = "node" /\ (\A j \in n + 1 .. k + 1 : tree[j].t # "node") => e.node = tree[n].name
      <3> SUFFICES ASSUME NEW n \in 1 .. k + 1, tree[n].t = "node",
                          \A j \in n + 1 .. k + 1 : tree[j].t # "node"
                   PROVE  e.node = tree[n].name
        OBVIOUS
      <3>1. n \in 1 .. k /\ \A j \in n + 1 .. k : j \in n + 1 .. k + 1
        OBVIOUS
      <3> QED
        BY <1>5, <3>1 DEF Core
    <2> QED
      BY <1>1, <1>5, <1>6, <2>3, <2>4, <2>5 DEF Core
  <1>9. Told(tree, k + 1, s, e)
    <2> DEFINE ranges == RangesAt(tree, p)
    <2>1. ASSUME s.depth = 2, name = "reg"
          PROVE  /\ First(s, value) = (IF 1 \in DOMAIN ranges THEN <<ranges[1]>> ELSE None)
                 /\ None \notin {First(s, value), Second(s, value)} <=> 2 \in DOMAIN ranges
                 /\ 2 \in DOMAIN ranges => Second(s, value) = <<ranges[2]>>
                 /\ MoreRegions(s, value) = ExtendUsable(s.regions, ranges)
                 /\ ranges \in Seq(Nat \X Nat)
      <3>1. s.address_cells = CellCount(tree, "#address-cells", 2)
            /\ s.size_cells = CellCount(tree, "#size-cells", 1)
        BY <1>6, <2>1
      <3>2. First(s, value) = PairAt(tree, p, 0) /\ Second(s, value) = PairAt(tree, p, 1)
        BY <1>2, <3>1 DEF First, Second, PairAt
      <3>3. MoreRegions(s, value) = ExtendUsable(s.regions, ranges)
        BY <1>2, <3>1 DEF MoreRegions, RangesAt
      <3>4. tree[p].t = "prop" /\ tree[p].name = "reg"
            /\ CellCount(tree, "#address-cells", 2) \in Nat /\ CellCount(tree, "#size-cells", 1) \in Nat
        BY <1>1, <1>2, <1>3, <2>1, <3>1
      <3>5. PICK out : out = ranges
        OBVIOUS
      <3> HIDE DEF ranges
      <3>6. out = RangesAt(tree, p)
        BY <3>5 DEF ranges
      <3> QED
        BY <3>2, <3>3, <3>4, <3>5, <3>6, RangesTyped
    <2>2. e.regions = IF PropOf(tree, p, "reg", "memory") THEN ExtendUsable(s.regions, ranges)
                      ELSE s.regions
      <3>1. e.regions = IF RegPart(s, name) /\ s.node = "memory" THEN MoreRegions(s, value) ELSE s.regions
        BY <1>10 DEF PropDone
      <3> HIDE DEF ranges
      <3> QED
        BY <1>7, <2>1, <3>1 DEF RegPart
    <2>3. e.uart_base = IF PropOf(tree, p, "reg", "pl011") /\ s.uart_base = None
                        THEN IF 1 \in DOMAIN ranges THEN <<ranges[1][1]>> ELSE None
                        ELSE s.uart_base
      <3>1. e.uart_base = IF RegPart(s, name) /\ s.node = "pl011" /\ s.uart_base = None
                          THEN IF First(s, value) = None THEN None ELSE <<First(s, value)[1][1]>>
                          ELSE s.uart_base
        BY <1>10 DEF PropDone
      <3> HIDE DEF ranges
      <3>2. <<ranges[1]>> # None /\ <<ranges[1]>>[1] = ranges[1]
        BY DEF None
      <3> QED
        BY <1>7, <2>1, <3>1, <3>2 DEF RegPart
    <2>4. e.virtio = IF /\ PropOf(tree, p, "reg", "virtio_mmio") /\ 1 \in DOMAIN ranges
                        /\ s.virtio = None \/ ranges[1][1] < s.virtio[1][1]
                     THEN <<ranges[1]>> ELSE s.virtio
      <3>1. e.virtio = IF RegPart(s, name) /\ s.node = "virtio_mmio" /\ Lower(s, value)
                       THEN First(s, value) ELSE s.virtio
        BY <1>10 DEF PropDone
      <3> HIDE DEF ranges
      <3>2. <<ranges[1]>> # None /\ <<ranges[1]>>[1] = ranges[1]
        BY DEF None
      <3> QED
        BY <1>7, <2>1, <3>1, <3>2 DEF RegPart, Lower
    <2>5. e.virtio_count = IF PropOf(tree, p, "reg", "virtio_mmio") THEN s.virtio_count + 1
                           ELSE s.virtio_count
      <3>1. e.virtio_count = IF RegPart(s, name) /\ s.node = "virtio_mmio" THEN s.virtio_count + 1
                             ELSE s.virtio_count
        BY <1>10 DEF PropDone
      <3> QED
        BY <1>7, <3>1 DEF RegPart
    <2>6. e.gic_reg = IF PropOf(tree, p, "reg", "intc") /\ 2 \in DOMAIN ranges
                      THEN <<<<ranges[1][1], ranges[2][1]>>>> ELSE s.gic_reg
      <3>1. e.gic_reg = IF RegPart(s, name) /\ s.node = "intc" /\ None \notin {First(s, value), Second(s, value)}
                        THEN <<<<First(s, value)[1][1], Second(s, value)[1][1]>>>> ELSE s.gic_reg
        BY <1>10 DEF PropDone
      <3> HIDE DEF ranges
      <3>2. 2 \in DOMAIN ranges /\ ranges \in Seq(Nat \X Nat) => 1 \in DOMAIN ranges
        OBVIOUS
      <3>3. <<ranges[1]>>[1] = ranges[1] /\ <<ranges[2]>>[1] = ranges[2]
        OBVIOUS
      <3> QED
        BY <1>7, <2>1, <3>1, <3>2, <3>3 DEF RegPart
    <2>7. e.gic_v3 = IF PropOf(tree, p, "compatible", "intc") THEN "arm,gic-v3" \in tree[p].value
                     ELSE s.gic_v3
      <3>1. e.gic_v3 = IF s.depth = 2 /\ name = "compatible" /\ s.node = "intc" THEN "arm,gic-v3" \in value
                       ELSE s.gic_v3
        BY <1>11 DEF V3Done
      <3> QED
        BY <1>2, <1>7, <3>1
    <2>8. e.cpu_count = s.cpu_count /\ tree[p].t # "node"
      BY <1>1, <1>5
    <2> QED
      BY <1>1, <2>2, <2>3, <2>4, <2>5, <2>6, <2>7, <2>8 DEF Told
  <1> QED
    BY <1>8, <1>9

LEMMA CountedOn ==
  ASSUME NEW tree, Document(tree), NEW k \in Nat, k + 1 \in DOMAIN tree, tree[k + 1].t # "prop",
         NEW name, NEW default \in Nat, NEW c, name \in CountNames
  PROVE  Counted(tree, k, name, default, c) => Counted(tree, k + 1, name, default, c)
  <1>1. ~RootSays(tree, k + 1, name)
    BY DEF RootSays
  <1> QED
    BY <1>1, CountedNext

\* Whatever the token is.
LEMMA TokenTold ==
  ASSUME NEW tree, Document(tree), NEW k \in Nat, k + 1 \in DOMAIN tree, NEW s, Core(tree, k, s),
         tree[k + 1].t \notin {"stop", "bad"}, NEW e, e = Event(s, tree[k + 1])
  PROVE  Core(tree, k + 1, e) /\ Told(tree, k + 1, s, e)
  <1>1. PICK token : token = tree[k + 1]
    OBVIOUS
  <1>2. /\ Shape(s) /\ s.depth = DepthAt(tree, k) /\ e = Event(s, token)
        /\ Counted(tree, k, "#address-cells", 2, s.address_cells)
        /\ Counted(tree, k, "#size-cells", 1, s.size_cells)
    BY <1>1 DEF Core
  <1>3. DepthAt(tree, k + 1) = DepthAt(tree, k) + Rise(token) /\ DepthAt(tree, k) \in Int
        /\ DepthAt(tree, k + 1) \in Nat
    BY <1>1, DepthNext, TokenIs
  <1>4. CASE token.t = "prop"
    <2>1. e = Prop(s, token.name, token.value)
      BY <1>2, <1>4 DEF Event
    <2> QED
      BY <1>1, <1>4, <2>1, PropTold
  <1>5. CASE token.t # "prop"
    <2>1. \A prop, name : ~PropOf(tree, k + 1, prop, name)
      BY <1>1, <1>5 DEF PropOf
    <2>2. /\ Counted(tree, k + 1, "#address-cells", 2, s.address_cells)
          /\ Counted(tree, k + 1, "#size-cells", 1, s.size_cells)
      <3>1. tree[k + 1].t # "prop"
        BY <1>1, <1>5
      <3>2. "#address-cells" \in CountNames /\ "#size-cells" \in CountNames /\ 1 \in Nat /\ 2 \in Nat
        BY DEF CountNames
      <3> QED
        BY <1>2, <3>1, <3>2, CountedOn
    <2>3. CASE token.t = "node"
      <3>1. PICK depth, node, cpus :
              /\ depth = s.depth + 1 /\ node = token.name
              /\ cpus = IF s.depth = 2 /\ token.name = "cpu" THEN s.cpu_count + 1 ELSE s.cpu_count
        OBVIOUS
      <3>2. e = [s EXCEPT !.depth = depth, !.node = node, !.cpu_count = cpus]
        BY <1>2, <2>3, <3>1 DEF Event, Shape
      <3>3. /\ Shape(e) /\ e.depth = depth /\ e.node = node /\ e.cpu_count = cpus
            /\ e.address_cells = s.address_cells /\ e.size_cells = s.size_cells
            /\ e.regions = s.regions /\ e.uart_base = s.uart_base /\ e.virtio = s.virtio
            /\ e.virtio_count = s.virtio_count /\ e.gic_reg = s.gic_reg
        BY <1>2, <3>2 DEF Shape
      <3>4. e.gic_v3 = s.gic_v3
        BY <1>2, <3>2 DEF Shape
      <3>5. e.depth = DepthAt(tree, k + 1)
        BY <1>2, <1>3, <2>3, <3>1, <3>3 DEF Rise
      <3>6. \A n \in 1 .. k + 1 :
              tree[n].t = "node" /\ (\A j \in n + 1 .. k + 1 : tree[j].t # "node") => e.node = tree[n].name
        <4> SUFFICES ASSUME NEW n \in 1 .. k + 1, \A j \in n + 1 .. k + 1 : tree[j].t # "node"
                     PROVE  e.node = tree[n].name
          OBVIOUS
        <4>1. n = k + 1
          <5>1. n # k + 1 => k + 1 \in n + 1 .. k + 1
            OBVIOUS
          <5> QED
            BY <1>1, <2>3, <5>1
        <4> QED
          BY <1>1, <3>1, <3>3, <4>1
      <3>7. Core(tree, k + 1, e)
        BY <2>2, <3>3, <3>5, <3>6 DEF Core
      <3>8. s.depth = 2 <=> DepthAt(tree, k + 1) = 3
        BY <1>2, <1>3, <2>3 DEF Rise
      <3> QED
        BY <1>1, <2>1, <2>3, <3>1, <3>3, <3>4, <3>7, <3>8 DEF Told
    <2>4. CASE token.t \in {"end", "nop"}
      <3>1. PICK depth : depth = IF token.t = "end" THEN Max({s.depth - 1, 0}) ELSE s.depth
        OBVIOUS
      <3>2. e = [s EXCEPT !.depth = depth]
        BY <1>2, <2>4, <3>1 DEF Event, Shape
      <3>3. /\ Shape(e) /\ e.depth = depth /\ e.node = s.node /\ e.cpu_count = s.cpu_count
            /\ e.address_cells = s.address_cells /\ e.size_cells = s.size_cells
            /\ e.regions = s.regions /\ e.uart_base = s.uart_base /\ e.virtio = s.virtio
            /\ e.virtio_count = s.virtio_count /\ e.gic_reg = s.gic_reg
        BY <1>2, <3>2 DEF Shape
      <3>4. e.gic_v3 = s.gic_v3
        BY <1>2, <3>2 DEF Shape
      <3>5. e.depth = DepthAt(tree, k + 1)
        <4>1. PICK d \in Int : d = s.depth
          BY <1>2, <1>3
        <4>2. Max({d - 1, 0}) = IF d - 1 >= 0 THEN d - 1 ELSE 0
          BY MaxOfTwo
        <4> QED
          BY <1>2, <1>3, <2>4, <3>1, <3>3, <4>1, <4>2 DEF Rise
      <3>6. \A n \in 1 .. k + 1 :
              tree[n].t = "node" /\ (\A j \in n + 1 .. k + 1 : tree[j].t # "node") => e.node = tree[n].name
        <4> SUFFICES ASSUME NEW n \in 1 .. k + 1, tree[n].t = "node",
                            \A j \in n + 1 .. k + 1 : tree[j].t # "node"
                     PROVE  e.node = tree[n].name
          OBVIOUS
        <4>1. n \in 1 .. k
          BY <1>1, <2>4
        <4>2. \A j \in n + 1 .. k : j \in n + 1 .. k + 1
          OBVIOUS
        <4> QED
          BY <3>3, <4>1, <4>2 DEF Core
      <3>7. Core(tree, k + 1, e)
        BY <2>2, <3>3, <3>5, <3>6 DEF Core
      <3> QED
        BY <1>1, <2>1, <2>4, <3>3, <3>4, <3>7 DEF Told
    <2> QED
      BY <1>1, <1>5, <2>3, <2>4, TokenIs
  <1> QED
    BY <1>4, <1>5

LEMMA CoreFirst ==
  ASSUME NEW tree
  PROVE  Core(tree, 0, ScanDefault)
  <1>1. PICK none : none = ""
    BY Zenon
  <1>2. ScanDefault =
          [depth |-> 0, node |-> none, address_cells |-> 2, size_cells |-> 1,
           regions |-> <<>>, cpu_count |-> 0, uart_base |-> None, uart_irq |-> None,
           virtio |-> None, virtio_count |-> 0, bootargs |-> None,
           gic_v3 |-> FALSE, gic_reg |-> None]
    BY <1>1, Zenon DEF ScanDefault
  <1>3. /\ Shape(ScanDefault) /\ ScanDefault.depth = 0
        /\ ScanDefault.address_cells = 2 /\ ScanDefault.size_cells = 1
    BY <1>2 DEF Shape
  <1>4. DepthAt(tree, 0) = 0
    BY DepthNext
  <1>5. \A name : \A c \in Nat : Counted(tree, 0, name, c, c)
    BY DEF Counted
  <1> QED
    BY <1>3, <1>4, <1>5 DEF Core

-----------------------------------------------------------------------------
(* The regions the scan collects are the ranges of the memory nodes.         *)

RangeAt(tree, p, i) == MemoryRegion(RangesAt(tree, p)[i][1], RangesAt(tree, p)[i][2], "Usable")

\* The places of a tree that give a range of memory: the property, and which of
\* its ranges.
Gives(tree, p, i) ==
  PropOf(tree, p, "reg", "memory") /\ i \in DOMAIN RangesAt(tree, p)

\* No two ranges of memory have a byte in common.
MemoryApart(tree) ==
  \A p, q \in DOMAIN tree : \A i, j \in Nat :
    Gives(tree, p, i) /\ Gives(tree, q, j) /\ ~(p = q /\ i = j) =>
      Bytes(RangeAt(tree, p, i)) \cap Bytes(RangeAt(tree, q, j)) = {}

MemRead(tree, k, regs) ==
  /\ regs \in Seq(Region) /\ Len(regs) <= MaxRegions
  /\ \A r \in ToSet(regs) : \E p \in 1 .. k : \E i \in Nat : Gives(tree, p, i) /\ r = RangeAt(tree, p, i)
  /\ Len(regs) < MaxRegions =>
       \A p \in 1 .. k : \A i : Gives(tree, p, i) => RangeAt(tree, p, i) \in ToSet(regs)
  /\ MemoryApart(tree) => Disjoint(regs)

\* A child's reg is read by the tree's cell counts, which are numbers.
LEMMA CountsAre ==
  ASSUME NEW tree, Document(tree), NEW k \in Nat, k + 1 \in DOMAIN tree, NEW s, Core(tree, k, s), NEW name,
         PropOf(tree, k + 1, "reg", name)
  PROVE  CellCount(tree, "#address-cells", 2) \in Nat /\ CellCount(tree, "#size-cells", 1) \in Nat
  <1>1. tree[k + 1].t = "prop" /\ DepthAt(tree, k + 1) = 2
    BY DEF PropOf
  <1>2. s.depth = 2 /\ s.depth = DepthAt(tree, k + 1)
    BY <1>1, AtProp
  <1>3. /\ Counted(tree, k, "#address-cells", 2, s.address_cells)
        /\ Counted(tree, k, "#size-cells", 1, s.size_cells)
    BY DEF Core
  <1>4. s.address_cells \in Nat /\ s.size_cells \in Nat
    BY <1>3 DEF Counted
  <1>5. s.address_cells = CellCount(tree, "#address-cells", 2) /\ s.size_cells = CellCount(tree, "#size-cells", 1)
    BY <1>1, <1>2, AtProp
  <1> QED
    BY <1>4, <1>5

LEMMA GivesTyped ==
  ASSUME NEW tree, Document(tree), NEW k \in Nat, k + 1 \in DOMAIN tree, NEW s, Core(tree, k, s),
         PropOf(tree, k + 1, "reg", "memory")
  PROVE  /\ RangesAt(tree, k + 1) \in Seq(Nat \X Nat)
         /\ \A i \in DOMAIN RangesAt(tree, k + 1) : RangeAt(tree, k + 1, i) \in Region
  <1>1. tree[k + 1].t = "prop" /\ tree[k + 1].name = "reg"
    BY DEF PropOf
  <1>2. CellCount(tree, "#address-cells", 2) \in Nat /\ CellCount(tree, "#size-cells", 1) \in Nat
    BY CountsAre
  <1>3. PICK out : out = RangesAt(tree, k + 1)
    OBVIOUS
  <1>4. out \in Seq(Nat \X Nat)
    BY <1>1, <1>2, <1>3, RangesTyped
  <1>5. \A i \in DOMAIN out : MemoryRegion(out[i][1], out[i][2], "Usable") \in Region
    BY <1>4 DEF MemoryRegion, Region
  <1> QED
    BY <1>3, <1>4, <1>5 DEF RangeAt

LEMMA MemNext ==
  ASSUME NEW tree, Document(tree), NEW k \in Nat, k + 1 \in DOMAIN tree, NEW s, Core(tree, k, s),
         MemRead(tree, k, s.regions), NEW e, Told(tree, k + 1, s, e)
  PROVE  MemRead(tree, k + 1, e.regions)
  <1>1. PICK p \in DOMAIN tree : p = k + 1
    OBVIOUS
  <1>2. PICK regs : regs = s.regions
    OBVIOUS
  <1>3. PICK n \in Nat : n = Len(regs) /\ DOMAIN regs = 1 .. n /\ regs \in Seq(Region) /\ n <= MaxRegions
    BY <1>2 DEF MemRead
  <1>4. CASE ~PropOf(tree, p, "reg", "memory")
    <2>1. e.regions = regs
      BY <1>1, <1>2, <1>4 DEF Told
    <2>2. \A q \in 1 .. k + 1 : \A i : Gives(tree, q, i) => q \in 1 .. k
      BY <1>1, <1>4 DEF Gives
    <2>3. \A q \in 1 .. k : q \in 1 .. k + 1
      OBVIOUS
    <2> QED
      BY <1>2, <2>1, <2>2, <2>3 DEF MemRead
  <1>5. CASE PropOf(tree, p, "reg", "memory")
    <2>1. PICK ranges : ranges = RangesAt(tree, p)
      OBVIOUS
    <2>2. ranges \in Seq(Nat \X Nat) /\ \A i \in DOMAIN ranges : RangeAt(tree, p, i) \in Region
      BY <1>1, <1>5, <2>1, GivesTyped
    <2>3. PICK m \in Nat : m = Len(ranges) /\ DOMAIN ranges = 1 .. m
      BY <2>2
    <2>4. PICK new : new = [i \in 1 .. m |-> RangeAt(tree, p, i)]
      OBVIOUS
    <2>5. new \in Seq(Region) /\ Len(new) = m /\ \A i \in 1 .. m : new[i] = RangeAt(tree, p, i)
      <3>1. \A i \in 1 .. m : RangeAt(tree, p, i) \in Region
        BY <2>2, <2>3
      <3>2. new \in [1 .. m -> Region]
        BY <2>4, <3>1
      <3> QED
        BY <2>4, <3>2
    <2>6. e.regions = Pushed(regs \o new)
      <3>1. e.regions = ExtendUsable(regs, ranges)
        BY <1>1, <1>2, <1>5, <2>1 DEF Told
      <3>2. new = [i \in DOMAIN ranges |-> MemoryRegion(ranges[i][1], ranges[i][2], "Usable")]
        BY <2>1, <2>3, <2>4 DEF RangeAt
      <3> QED
        BY <3>1, <3>2 DEF ExtendUsable
    <2>7. PICK f \in Seq(Region) :
            /\ f = regs \o new /\ Len(f) = n + m
            /\ \A i \in 1 .. n + m : f[i] = IF i <= n THEN regs[i] ELSE RangeAt(tree, p, i - n)
      <3>1. regs \o new \in Seq(Region) /\ Len(regs \o new) = n + m
        BY <1>3, <2>5
      <3>2. \A i \in 1 .. n + m : (regs \o new)[i] = IF i <= n THEN regs[i] ELSE new[i - n]
        BY <1>3, <2>5
      <3>3. \A i \in 1 .. n + m : ~(i <= n) => i - n \in 1 .. m
        OBVIOUS
      <3> QED
        BY <2>5, <3>1, <3>2, <3>3
    <2>16. PICK out : out = e.regions
      OBVIOUS
    <2>8. PICK L \in Nat :
            /\ out = e.regions /\ out \in Seq(Region) /\ L = Len(out) /\ DOMAIN out = 1 .. L
            /\ L = IF n + m <= MaxRegions THEN n + m ELSE MaxRegions
            /\ \A i \in 1 .. L : out[i] = f[i]
      <3>1. out = Pushed(f) /\ Len(f) = n + m
        BY <2>6, <2>7, <2>16
      <3>2. /\ out \in Seq(Region) /\ Len(out) = (IF Len(f) <= MaxRegions THEN Len(f) ELSE MaxRegions)
            /\ \A i \in 1 .. Len(out) : out[i] = f[i]
        BY <3>1, PushedIs
      <3>3. PICK L \in Nat : L = Len(out) /\ DOMAIN out = 1 .. L
        BY <3>2
      <3>4. L = IF n + m <= MaxRegions THEN n + m ELSE MaxRegions
        BY <3>1, <3>2, <3>3
      <3>5. \A i \in 1 .. L : out[i] = f[i]
        BY <3>2, <3>3
      <3> QED
        BY <2>16, <3>2, <3>3, <3>4, <3>5
    <2>9. L <= n + m /\ L <= MaxRegions /\ (L < MaxRegions => L = n + m)
      <3>1. PICK M \in Nat : M = MaxRegions
        BY MapAssumption
      <3> QED
        BY <2>8, <3>1
    <2>10. \A i \in 1 .. L : /\ i <= n => i \in 1 .. n /\ out[i] = regs[i]
                             /\ ~(i <= n) => i - n \in 1 .. m /\ out[i] = RangeAt(tree, p, i - n)
      <3> TAKE i \in 1 .. L
      <3>1. i \in 1 .. n + m
        BY <2>9
      <3>2. out[i] = IF i <= n THEN regs[i] ELSE RangeAt(tree, p, i - n)
        BY <2>7, <2>8, <3>1
      <3>3. (i <= n => i \in 1 .. n) /\ (~(i <= n) => i - n \in 1 .. m)
        BY <3>1
      <3> QED
        BY <3>2, <3>3
    <2>11. \A i \in 1 .. m : Gives(tree, p, i)
      BY <1>5, <2>1, <2>3 DEF Gives
    <2>12. \A i : Gives(tree, p, i) => i \in 1 .. m
      BY <2>1, <2>3 DEF Gives
    <2>13. \A r \in ToSet(out) : \E q \in 1 .. k + 1 : \E i \in Nat : Gives(tree, q, i) /\ r = RangeAt(tree, q, i)
      <3> TAKE r \in ToSet(out)
      <3>1. PICK a \in 1 .. L : out[a] = r
        BY <2>8, Members
      <3>2. CASE a <= n
        <4>1. a \in 1 .. n /\ r = regs[a]
          BY <2>10, <3>1, <3>2
        <4>2. r \in ToSet(regs)
          BY <1>3, <4>1, Members
        <4>3. PICK q \in 1 .. k : \E i \in Nat : Gives(tree, q, i) /\ r = RangeAt(tree, q, i)
          BY <1>2, <4>2 DEF MemRead
        <4>4. q \in 1 .. k + 1
          OBVIOUS
        <4> QED
          BY <4>3, <4>4
      <3>3. CASE ~(a <= n)
        <4>1. PICK i \in 1 .. m : i = a - n /\ r = RangeAt(tree, p, i)
          BY <2>10, <3>1, <3>3
        <4>2. i \in Nat /\ p \in 1 .. k + 1
          BY <1>1
        <4> QED
          BY <2>11, <4>1, <4>2
      <3> QED
        BY <3>2, <3>3
    <2>14. L < MaxRegions =>
             \A q \in 1 .. k + 1 : \A i : Gives(tree, q, i) => RangeAt(tree, q, i) \in ToSet(out)
      <3> SUFFICES ASSUME L < MaxRegions, NEW q \in 1 .. k + 1, NEW i, Gives(tree, q, i)
                   PROVE  RangeAt(tree, q, i) \in ToSet(out)
        OBVIOUS
      <3>1. L = n + m
        BY <2>9
      <3>2. CASE q = k + 1
        <4>1. i \in 1 .. m
          BY <1>1, <2>12, <3>2
        <4>2. PICK a \in 1 .. L : a = n + i /\ ~(a <= n) /\ a - n = i
          BY <3>1, <4>1
        <4>3. out[a] = RangeAt(tree, q, i)
          BY <1>1, <2>10, <3>2, <4>2
        <4> QED
          BY <2>8, <4>3, Members
      <3>3. CASE q # k + 1
        <4>1. q \in 1 .. k
          BY <3>3
        <4>2. n < MaxRegions
          <5>1. PICK M \in Nat : M = MaxRegions
            BY MapAssumption
          <5> QED
            BY <3>1, <5>1
        <4>3. RangeAt(tree, q, i) \in ToSet(regs)
          BY <1>2, <1>3, <4>1, <4>2 DEF MemRead
        <4>4. PICK a \in 1 .. n : regs[a] = RangeAt(tree, q, i)
          BY <1>3, <4>3, Members
        <4>5. a \in 1 .. L /\ a <= n
          BY <3>1
        <4>6. out[a] = regs[a]
          BY <2>10, <4>5
        <4> QED
          BY <2>8, <4>4, <4>5, <4>6, Members
      <3> QED
        BY <3>2, <3>3
    <2>15. MemoryApart(tree) => Disjoint(out)
      <3> SUFFICES ASSUME MemoryApart(tree), NEW a \in 1 .. L, NEW b \in 1 .. L, a # b
                   PROVE  Bytes(out[a]) \cap Bytes(out[b]) = {}
        BY <2>8 DEF Disjoint
      <3>1. \A c, d \in 1 .. L : ~(c <= n) /\ d <= n => Bytes(out[c]) \cap Bytes(out[d]) = {}
        <4> SUFFICES ASSUME NEW c \in 1 .. L, NEW d \in 1 .. L, ~(c <= n), d <= n
                     PROVE  Bytes(out[c]) \cap Bytes(out[d]) = {}
          OBVIOUS
        <4>1. PICK i \in Nat : i \in 1 .. m /\ out[c] = RangeAt(tree, p, i)
          BY <2>10
        <4>2. d \in 1 .. n /\ out[d] = regs[d]
          BY <2>10
        <4>3. regs[d] \in ToSet(regs)
          BY <1>3, <4>2, Members
        <4>4. PICK q \in 1 .. k, j \in Nat : Gives(tree, q, j) /\ out[d] = RangeAt(tree, q, j)
          BY <1>2, <4>2, <4>3 DEF MemRead
        <4>5. q \in DOMAIN tree /\ q # p
          BY <1>1, TreeIs
        <4>6. Gives(tree, p, i)
          BY <2>11, <4>1
        <4> QED
          BY <4>1, <4>4, <4>5, <4>6 DEF MemoryApart
      <3>2. CASE a <= n /\ b <= n
        <4>1. a \in 1 .. n /\ b \in 1 .. n /\ out[a] = regs[a] /\ out[b] = regs[b]
          BY <2>10, <3>2
        <4>2. Disjoint(regs)
          BY <1>2 DEF MemRead
        <4> QED
          BY <1>3, <4>1, <4>2 DEF Disjoint
      <3>3. CASE ~(a <= n) /\ ~(b <= n)
        <4>1. PICK i \in Nat, j \in Nat :
                /\ i = a - n /\ j = b - n /\ i \in 1 .. m /\ j \in 1 .. m
                /\ out[a] = RangeAt(tree, p, i) /\ out[b] = RangeAt(tree, p, j)
          BY <2>10, <3>3
        <4>2. i # j
          BY <4>1
        <4>3. Gives(tree, p, i) /\ Gives(tree, p, j)
          BY <2>11, <4>1
        <4> QED
          BY <4>1, <4>2, <4>3 DEF MemoryApart
      <3>4. CASE ~(a <= n) /\ b <= n
        BY <3>1, <3>4
      <3>5. CASE a <= n /\ ~(b <= n)
        BY <3>1, <3>5
      <3> QED
        BY <3>2, <3>3, <3>4, <3>5
    <2> QED
      BY <2>8, <2>9, <2>13, <2>14, <2>15 DEF MemRead
  <1> QED
    BY <1>4, <1>5

\* The ranges of a node are those of its reg.
LEMMA RangesOfIs ==
  ASSUME NEW tree, Document(tree), NEW n \in DOMAIN tree, tree[n].t = "node", NEW r
  PROVE  r \in RangesOf(tree, n) <=>
           \E p \in DOMAIN tree : /\ Holds(tree, n, p) /\ tree[p].name = "reg"
                                  /\ \E i \in DOMAIN RangesAt(tree, p) : r = <<i, RangesAt(tree, p)[i]>>
  <1> DEFINE R(p) == RangesAt(tree, p)
             pairs(value) == RegPairs(value, CellCount(tree, "#address-cells", 2),
                                      CellCount(tree, "#size-cells", 1))
             values == {tree[p].value : p \in {q \in DOMAIN tree : Holds(tree, n, q) /\ tree[q].name = "reg"}}
  <1>1. Values(tree, n, "reg") = values
    BY ValuesAre
  <1>2. RangesOf(tree, n) =
          UNION {{<<i, pairs(value)[i]>> : i \in DOMAIN pairs(value)} : value \in Values(tree, n, "reg")}
    BY Zenon DEF RangesOf
  <1>3. r \in RangesOf(tree, n) <=> \E value \in values : \E i \in DOMAIN pairs(value) : r = <<i, pairs(value)[i]>>
    <2> HIDE DEF pairs, values
    <2> QED
      BY <1>1, <1>2
  <1>4. \A p : R(p) = pairs(tree[p].value)
    BY DEF RangesAt
  <1> HIDE DEF pairs, R
  <1>5. r \in RangesOf(tree, n) <=>
           \E p \in DOMAIN tree : /\ Holds(tree, n, p) /\ tree[p].name = "reg"
                                  /\ \E i \in DOMAIN R(p) : r = <<i, R(p)[i]>>
    BY <1>3, <1>4
  <1> QED
    BY <1>5 DEF R

\* A byte of memory is a byte of such a range.
LEMMA MemoryIs ==
  ASSUME NEW tree, Document(tree), NEW b
  PROVE  b \in MemoryOf(tree) <=>
           \E p \in DOMAIN tree : \E i : Gives(tree, p, i) /\ b \in Bytes(RangeAt(tree, p, i))
  <1> DEFINE R(p) == RangesAt(tree, p)
  <1>0. PICK len \in Nat : len = Len(tree) /\ DOMAIN tree = 1 .. len
    BY TreeIs
  <1>1. \A p, i : Bytes(RangeAt(tree, p, i)) = Extent(R(p)[i][1], R(p)[i][2])
    BY DEF Bytes, RangeAt, MemoryRegion
  <1>2. ASSUME NEW n \in DOMAIN tree, tree[n].t = "node", NEW r
        PROVE  r \in RangesOf(tree, n) <=>
                 \E p \in DOMAIN tree : /\ Holds(tree, n, p) /\ tree[p].name = "reg"
                                        /\ \E i \in DOMAIN R(p) : r = <<i, R(p)[i]>>
    BY <1>2, RangesOfIs
  <1>3. ASSUME NEW n \in Nodes(tree, 2, "memory"), NEW r \in RangesOf(tree, n), b \in Extent(r[2][1], r[2][2])
        PROVE  \E p \in DOMAIN tree : \E i : Gives(tree, p, i) /\ b \in Bytes(RangeAt(tree, p, i))
    <2>1. n \in DOMAIN tree /\ tree[n].t = "node" /\ tree[n].name = "memory" /\ DepthAt(tree, n) = 2
      BY DEF Nodes
    <2>2. PICK p \in DOMAIN tree : /\ Holds(tree, n, p) /\ tree[p].name = "reg"
                                   /\ \E i \in DOMAIN R(p) : r = <<i, R(p)[i]>>
      BY <1>2, <2>1
    <2>3. PICK i \in DOMAIN R(p) : r = <<i, R(p)[i]>>
      BY <2>2
    <2>4. DepthAt(tree, p) = 2 /\ tree[p].t = "prop"
      <3>1. n \in Nat /\ p \in Nat /\ p \in n .. p /\ tree[p].t = "prop"
        BY <1>0, <2>1, <2>2 DEF Holds
      <3> QED
        BY <2>1, <2>2, <3>1, HeldDeep
    <2>5. Gives(tree, p, i)
      BY <2>1, <2>2, <2>3, <2>4 DEF Gives, PropOf
    <2>6. r[2] = R(p)[i]
      BY <2>3
    <2> QED
      BY <1>1, <1>3, <2>5, <2>6
  <1>4. ASSUME NEW p \in DOMAIN tree, NEW i, Gives(tree, p, i), b \in Bytes(RangeAt(tree, p, i))
        PROVE  \E n \in Nodes(tree, 2, "memory") : \E r \in RangesOf(tree, n) : b \in Extent(r[2][1], r[2][2])
    <2>1. /\ tree[p].t = "prop" /\ tree[p].name = "reg" /\ DepthAt(tree, p) = 2 /\ i \in DOMAIN R(p)
          /\ \E n \in DOMAIN tree : Holds(tree, n, p) /\ tree[n].name = "memory"
      BY <1>4 DEF Gives, PropOf
    <2>2. PICK n \in DOMAIN tree : Holds(tree, n, p) /\ tree[n].name = "memory"
      BY <2>1
    <2>3. tree[n].t = "node" /\ DepthAt(tree, n) = 2
      <3>1. n \in Nat /\ p \in Nat /\ p \in n .. p /\ tree[n].t = "node"
        BY <1>0, <2>2 DEF Holds
      <3> QED
        BY <2>1, <2>2, <3>1, HeldDeep
    <2>4. n \in Nodes(tree, 2, "memory")
      BY <2>2, <2>3 DEF Nodes
    <2>5. PICK r : r = <<i, R(p)[i]>>
      OBVIOUS
    <2>6. r \in RangesOf(tree, n)
      BY <1>2, <2>1, <2>2, <2>3, <2>5
    <2>7. r[2] = R(p)[i]
      BY <2>5
    <2> QED
      BY <1>1, <1>4, <2>4, <2>6, <2>7
  <1>5. b \in MemoryOf(tree) <=>
          \E n \in Nodes(tree, 2, "memory") : \E r \in RangesOf(tree, n) : b \in Extent(r[2][1], r[2][2])
    BY DEF MemoryOf
  <1> QED
    BY <1>3, <1>4, <1>5

-----------------------------------------------------------------------------
(* The map, once the tree and the kernel are carved out of it.               *)

\* No range of memory is empty.
MemoryFilled(tree) ==
  \A p \in DOMAIN tree : \A i \in Nat : Gives(tree, p, i) => RangeAt(tree, p, i).len # 0

\* What the map calls a byte, where the tree lies at base.
KindAt(base, size, b) ==
  IF b \in Extent(Image[1], Image[2]) THEN "Kernel"
  ELSE IF b \in Extent(base, size) THEN "Reclaimable" ELSE "Usable"

TreeMap(tree, base, size, map) ==
  /\ map \in Seq(Region) /\ Len(map) <= MaxRegions
  /\ MemoryApart(tree) => Disjoint(map)
  /\ \A r \in ToSet(map) :
       /\ Bytes(r) \subseteq MemoryOf(tree)
       /\ MemoryFilled(tree) => r.len # 0
       /\ \A b \in Bytes(r) : r.kind = KindAt(base, size, b)
  /\ Len(map) < MaxRegions => MemoryOf(tree) \subseteq Described(map)

LEMMA TreeCarved ==
  ASSUME NEW tree, Document(tree), NEW k \in Nat, NEW regs, MemRead(tree, k, regs),
         \A p \in DOMAIN tree : \A i : Gives(tree, p, i) => p \in 1 .. k,
         1 .. k \subseteq DOMAIN tree,
         NEW base \in Nat, NEW size \in Nat \ {0}, NEW map,
         map = Reserve(Reserve(regs, base, size, "Reclaimable"), Image[1], Image[2], "Kernel")
  PROVE  TreeMap(tree, base, size, map)
  <1>1. PICK from \in Nat, len \in Nat : from = Image[1] /\ len = Image[2] /\ len # 0
    BY InputsAssumption
  <1>2. PICK mid : mid = Reserve(regs, base, size, "Reclaimable")
    OBVIOUS
  <1>3. map = Reserve(mid, from, len, "Kernel")
    BY <1>1, <1>2
  <1>4. regs \in Seq(Region) /\ Len(regs) \in Nat /\ Len(regs) <= MaxRegions
    BY DEF MemRead
  <1>5. CarvedFrom(mid, regs, base, base + size, "Reclaimable")
    <2>1. PICK end \in Nat : end = base + size /\ base < end /\ end - base = size
      OBVIOUS
    <2>2. mid = Reserve(regs, base, end - base, "Reclaimable")
      BY <1>2, <2>1
    <2> QED
      BY <1>4, <2>1, <2>2, Reserved
  <1>6. mid \in Seq(Region) /\ Len(mid) \in Nat
    BY <1>5 DEF CarvedFrom
  <1>7. CarvedFrom(map, mid, from, from + len, "Kernel")
    <2>1. PICK end \in Nat : end = from + len /\ from < end /\ end - from = len
      BY <1>1
    <2>2. map = Reserve(mid, from, end - from, "Kernel")
      BY <1>3, <2>1
    <2> QED
      BY <1>6, <2>1, <2>2, Reserved
  <1>8. map \in Seq(Region) /\ Len(map) \in Nat /\ Len(map) <= MaxRegions
    BY <1>7 DEF CarvedFrom
  <1>9. MemoryApart(tree) => Disjoint(map)
    BY <1>5, <1>7 DEF CarvedFrom, MemRead
  <1>10. \A b : /\ b \in Extent(from, len) <=> b \in from .. (from + len) - 1
                /\ b \in Extent(base, size) <=> b \in base .. (base + size) - 1
    BY DEF Extent
  <1>11. ASSUME NEW r \in ToSet(map)
         PROVE  /\ Bytes(r) \subseteq MemoryOf(tree)
                /\ MemoryFilled(tree) => r.len # 0
                /\ \A b \in Bytes(r) : r.kind = KindAt(base, size, b)
    <2>1. PICK q \in ToSet(mid) : PartOf(r, q, from, from + len, "Kernel")
      BY <1>7 DEF CarvedFrom
    <2>2. PICK u \in ToSet(regs) : PartOf(q, u, base, base + size, "Reclaimable")
      BY <1>5 DEF CarvedFrom
    <2>3. PICK p \in 1 .. k, i \in Nat : Gives(tree, p, i) /\ u = RangeAt(tree, p, i)
      BY <2>2 DEF MemRead
    <2>4. p \in DOMAIN tree /\ u.kind = "Usable"
      BY <2>3 DEF RangeAt, MemoryRegion
    <2>5. Bytes(r) \subseteq Bytes(q) /\ Bytes(q) \subseteq Bytes(u)
      BY <2>1, <2>2 DEF PartOf
    <2>6. Bytes(u) \subseteq MemoryOf(tree)
      BY <2>3, <2>4, MemoryIs
    <2>7. MemoryFilled(tree) => r.len # 0
      <3>1. MemoryFilled(tree) => u.len # 0
        BY <2>3, <2>4 DEF MemoryFilled
      <3> QED
        BY <2>1, <2>2, <3>1 DEF PartOf
    <2>8. ASSUME NEW b \in Bytes(r)
          PROVE  r.kind = KindAt(base, size, b)
      <3>1. r.kind = IF b \in from .. (from + len) - 1 THEN "Kernel" ELSE q.kind
        BY <2>1 DEF PartOf
      <3>2. q.kind = IF b \in base .. (base + size) - 1 THEN "Reclaimable" ELSE u.kind
        BY <2>2, <2>5 DEF PartOf
      <3> QED
        BY <1>1, <1>10, <2>4, <3>1, <3>2 DEF KindAt
    <2> QED
      BY <2>5, <2>6, <2>7, <2>8
  <1>12. Len(map) < MaxRegions => MemoryOf(tree) \subseteq Described(map)
    <2> SUFFICES ASSUME Len(map) < MaxRegions, NEW b \in MemoryOf(tree)
                 PROVE  b \in Described(map)
      OBVIOUS
    <2>1. PICK m \in Nat : m = MaxRegions
      BY MapAssumption
    <2>2. Len(mid) < m
      BY <1>6, <1>7, <1>8, <2>1 DEF CarvedFrom
    <2>3. Len(regs) < m
      BY <1>4, <1>5, <1>6, <2>1, <2>2 DEF CarvedFrom
    <2>4. Described(regs) \subseteq Described(mid) /\ Described(mid) \subseteq Described(map)
      BY <1>5, <1>7, <2>1, <2>2 DEF CarvedFrom
    <2>5. PICK p \in DOMAIN tree : \E i : Gives(tree, p, i) /\ b \in Bytes(RangeAt(tree, p, i))
      BY MemoryIs
    <2>6. PICK i : Gives(tree, p, i) /\ b \in Bytes(RangeAt(tree, p, i))
      BY <2>5
    <2>7. p \in 1 .. k
      BY <2>6
    <2>8. RangeAt(tree, p, i) \in ToSet(regs)
      BY <2>1, <2>3, <2>6, <2>7 DEF MemRead
    <2>9. b \in Described(regs)
      BY <2>6, <2>8 DEF Described
    <2> QED
      BY <2>4, <2>9
  <1> QED
    BY <1>8, <1>9, <1>11, <1>12 DEF TreeMap

-----------------------------------------------------------------------------
(* aarch64: the walk, and what is made of it.                                *)

\* The first k tokens have been scanned.
Reading(tree, k, s) == k \in Nat /\ Core(tree, k, s) /\ MemRead(tree, k, s.regions)

BlocksOf(map) == {b \in 0 .. Blocks - 1 : b = 0 \/ Covered(map, b * BlockSize)}

TreeInv ==
  /\ input \in Inputs
  /\ Arm /\ Document(input.tree) =>
       /\ pc \in {"probe", "walk"} => Reading(input.tree, at - 1, scan) /\ at \in Nat
       /\ pc \in {"open", "mmu", "install"} =>
            TreeMap(input.tree, input.base, input.size, found.regions)
       /\ pc = "install" => valid = BlocksOf(found.regions)

LEMMA ReadingFirst ==
  ASSUME NEW tree
  PROVE  Reading(tree, 0, ScanDefault)
  <1>1. PICK regs : regs = ScanDefault.regions
    OBVIOUS
  <1>2. regs = <<>>
    BY <1>1, Zenon DEF ScanDefault
  <1>3. MemRead(tree, 0, regs)
    <2>1. regs \in Seq(Region) /\ Len(regs) = 0 /\ ToSet(regs) = {} /\ DOMAIN regs = {}
      BY <1>2 DEF ToSet
    <2>2. PICK m \in Nat : m = MaxRegions
      BY MapAssumption
    <2> QED
      BY <2>1, <2>2 DEF MemRead, Disjoint
  <1> QED
    BY <1>1, <1>3, CoreFirst DEF Reading

LEMMA ReadingNext ==
  ASSUME NEW tree, Document(tree), NEW k \in Nat, NEW s, Reading(tree, k, s), k + 1 \in DOMAIN tree,
         tree[k + 1].t \notin {"stop", "bad"}, NEW e, e = Event(s, tree[k + 1])
  PROVE  Reading(tree, k + 1, e)
  <1>1. Core(tree, k + 1, e) /\ Told(tree, k + 1, s, e)
    BY TokenTold DEF Reading
  <1>2. MemRead(tree, k + 1, e.regions)
    BY <1>1, MemNext DEF Reading
  <1> QED
    BY <1>1, <1>2 DEF Reading

\* The walk's next token, of three kinds.
LEMMA WalkToken ==
  ASSUME Walk, input \in Inputs, Arm, NEW tree, tree = input.tree, Document(tree), NEW k \in Nat, at = k + 1,
         Reading(tree, k, scan)
  PROVE  \/ pc' = "halted"
         \/ /\ pc' = "open"
            /\ TreeMap(tree, input.base, input.size, found'.regions)
         \/ pc' = "walk" /\ at' = at + 1 /\ Reading(tree, k + 1, scan')
  <1>1. PICK len \in Nat : len = Len(tree) /\ DOMAIN tree = 1 .. len
    BY TreeIs
  <1>2. PICK token : token = IF at > Len(input.tree) THEN [t |-> "bad"] ELSE input.tree[at]
    OBVIOUS
  <1>3. at <= len => token = tree[at] /\ at \in DOMAIN tree
    BY <1>1, <1>2
  <1>4. ~(at <= len) => token.t = "bad"
    BY <1>1, <1>2
  <1>5. CASE token.t = "bad"
    BY <1>2, <1>5 DEF Walk, Halt
  <1>6. CASE token.t = "stop"
    <2>1. at <= len /\ token = tree[at] /\ at \in DOMAIN tree
      BY <1>3, <1>4, <1>6
    <2>2. found' = Reserving(FromScan(scan), Image[1], Image[2]) /\ pc' = "open"
      BY <1>2, <1>6 DEF Walk
    <2>3. PICK m : m = FromScan(scan) /\ "regions" \in DOMAIN m
                   /\ m.regions = Reserve(scan.regions, input.base, input.size, "Reclaimable")
      <3>1. PICK regs, args, gic :
              /\ regs = Reserve(scan.regions, input.base, input.size, "Reclaimable")
              /\ args = IF scan.bootargs = None THEN <<>> ELSE scan.bootargs[1]
              /\ gic = IF scan.gic_v3 THEN scan.gic_reg ELSE None
        OBVIOUS
      <3>2. FromScan(scan) =
              [regions |-> regs, cpu_count |-> scan.cpu_count, uart_base |-> scan.uart_base,
               uart_irq |-> scan.uart_irq, virtio |-> scan.virtio, virtio_count |-> scan.virtio_count,
               args |-> args, gic |-> gic, dropped |-> 0]
        BY <3>1, Zenon DEF FromScan
      <3> QED
        BY <3>1, <3>2
    <2>4. found'.regions = Reserve(m.regions, Image[1], Image[2], "Kernel")
      BY <2>2, <2>3 DEF Reserving
    <2>5. at = len
      BY <1>1, <1>6, <2>1, TokenIs
    <2>6. \A p \in DOMAIN tree : \A i : Gives(tree, p, i) => p \in 1 .. k
      <3> SUFFICES ASSUME NEW p \in DOMAIN tree, NEW i, Gives(tree, p, i)
                   PROVE  p \in 1 .. k
        OBVIOUS
      <3>1. p # at
        BY <1>6, <2>1 DEF Gives, PropOf
      <3> QED
        BY <1>1, <2>5, <3>1
    <2>7. 1 .. k \subseteq DOMAIN tree
      BY <1>1, <2>5
    <2>8. input.base \in Nat /\ input.size \in Nat \ {0}
      BY InputsAssumption DEF Arm
    <2>9. MemRead(tree, k, scan.regions)
      BY DEF Reading
    <2>10. TreeMap(tree, input.base, input.size, found'.regions)
      BY <2>3, <2>4, <2>6, <2>7, <2>8, <2>9, TreeCarved
    <2> QED
      BY <2>2, <2>10
  <1>7. CASE token.t \notin {"stop", "bad"}
    <2>1. at <= len /\ token = tree[at] /\ at \in DOMAIN tree
      BY <1>3, <1>4, <1>7
    <2>2. scan' = Event(scan, token) /\ at' = at + 1 /\ pc' = pc /\ pc = "walk"
      BY <1>2, <1>7 DEF Walk
    <2>3. Reading(tree, k + 1, scan')
      BY <1>7, <2>1, <2>2, ReadingNext
    <2> QED
      BY <2>2, <2>3
  <1> QED
    BY <1>5, <1>6, <1>7

LEMMA TreeStep ==
  ASSUME TreeInv, UpInv, [Next]_vars
  PROVE  TreeInv'
  <1>1. input \in Inputs /\ UNCHANGED input
    BY DEF TreeInv, Next, BootStep, Type, Expire, Take, Probe, Walk, Open, EnableIdentityMap, Discover,
           CarveNext, Install, Route, ArmTimer, EnableLapic, RouteCom, StartTimer, StartShell, RunScript,
           Poll, vars
  <1> SUFFICES ASSUME Arm, NEW tree, tree = input.tree, tree = input'.tree, Document(tree)
               PROVE  /\ pc' \in {"probe", "walk"} => Reading(tree, at' - 1, scan') /\ at' \in Nat
                      /\ pc' \in {"open", "mmu", "install"} =>
                           TreeMap(tree, input.base, input.size, found'.regions)
                      /\ pc' = "install" => valid' = BlocksOf(found'.regions)
    BY <1>1 DEF TreeInv, Arm
  <1>2. /\ pc \in {"probe", "walk"} => Reading(tree, at - 1, scan) /\ at \in Nat
        /\ pc \in {"open", "mmu", "install"} => TreeMap(tree, input.base, input.size, found.regions)
        /\ pc = "install" => valid = BlocksOf(found.regions)
    BY DEF TreeInv
  <1>3. CASE Probe
    <2>1. UNCHANGED <<at, scan>> /\ pc = "probe" /\ (pc' = "walk" \/ pc' = "halted")
      BY <1>3 DEF Probe, Halt
    <2> QED
      BY <1>2, <2>1
  <1>4. CASE Walk
    <2>1. pc = "walk"
      BY <1>4 DEF Walk
    <2>2. PICK k \in Nat : at = k + 1 /\ k = at - 1 /\ Reading(tree, k, scan)
      <3>1. at - 1 \in Nat /\ at \in Nat /\ Reading(tree, at - 1, scan)
        BY <1>2, <2>1 DEF Reading
      <3> QED
        BY <3>1
    <2>3. \/ pc' = "halted"
          \/ pc' = "open" /\ TreeMap(tree, input.base, input.size, found'.regions)
          \/ pc' = "walk" /\ at' = at + 1 /\ Reading(tree, k + 1, scan')
      BY <1>1, <1>4, <2>2, WalkToken
    <2>4. (at + 1) - 1 = k + 1 /\ at + 1 \in Nat
      BY <2>2
    <2> QED
      BY <2>3, <2>4
  <1>5. CASE Open
    <2>1. UNCHANGED found /\ pc = "open" /\ (pc' = "halted" \/ pc' = "mmu")
      BY <1>5 DEF Open, Halt
    <2> QED
      BY <1>2, <2>1
  <1>6. CASE EnableIdentityMap
    <2>1. /\ UNCHANGED found /\ pc = "mmu" /\ pc' = "install"
          /\ valid' = BlocksOf(found.regions)
      BY <1>6 DEF EnableIdentityMap, BlocksOf
    <2> QED
      BY <1>2, <2>1
  <1>7. CASE Install \/ Route \/ ArmTimer \/ StartShell \/ RunScript
    <2>1. pc' \notin {"probe", "walk", "open", "mmu", "install"}
      BY <1>7 DEF Install, Route, ArmTimer, StartShell, RunScript, Halt
    <2> QED
      BY <2>1
  <1>8. CASE Type \/ Expire \/ Take(TimerIrq) \/ Take(UartIrq) \/ UNCHANGED vars
    <2>1. UNCHANGED <<at, scan, found, valid>> /\ (pc' = pc \/ pc' = "lost")
      BY <1>8 DEF Type, Expire, Take, vars
    <2> QED
      BY <1>2, <2>1
  <1>9. pc \in ArmSteps
    BY DEF UpInv, ArmUp
  <1>10. ~(Discover \/ CarveNext \/ EnableLapic \/ RouteCom \/ StartTimer \/ Poll)
    BY <1>9 DEF Discover, CarveNext, EnableLapic, RouteCom, StartTimer, Poll, ArmSteps
  <1> QED
    BY <1>3, <1>4, <1>5, <1>6, <1>7, <1>8, <1>10 DEF Next, BootStep

\* Fdt::walk and from_scan: after any number of tokens the regions scanned are the
\* ranges of the memory nodes seen, and the map is carved from them, to be what
\* the translation tables are filled from.
THEOREM TreeInductive == Spec => []TreeInv
  <1>1. Init => TreeInv
    <2> SUFFICES ASSUME Init PROVE TreeInv
      OBVIOUS
    <2>1. input \in Inputs /\ at = 1 /\ scan = ScanDefault /\ (Arm => pc = "probe")
      BY DEF Init
    <2>2. Reading(input.tree, 0, ScanDefault)
      BY ReadingFirst
    <2>3. Reading(input.tree, at - 1, scan)
      <3>1. at - 1 = 0
        BY <2>1
      <3> QED
        BY <2>1, <2>2, <3>1
    <2> QED
      BY <2>1, <2>3 DEF TreeInv
  <1>2. TreeInv /\ UpInv /\ [Next]_vars => TreeInv'
    BY TreeStep
  <1> QED
    BY <1>1, <1>2, UpInductive, PTL DEF Spec

LEMMA Times ==
  ASSUME NEW a \in Int, NEW b \in Int, NEW c \in Nat, a <= b
  PROVE  a * c <= b * c
  OBVIOUS

LEMMA Block ==
  ASSUME NEW x \in Nat, NEW size \in Nat \ {0}, NEW q \in Int
  PROVE  x \div size = q <=> q * size <= x /\ x < q * size + size
  OBVIOUS

\* The loader left a tree, and no two of its ranges of memory share a byte.
TreeApart == Arm /\ Document(input.tree) /\ MemoryApart(input.tree)

\* from_scan and reserving: where the tree describes no byte of memory twice, the
\* map is true once the tree and the kernel are carved out of it.
THEOREM TreeMapTrue == Spec => [](TreeApart => MapTrue)
  <1>1. TreeInv => (TreeApart => MapTrue)
    <2> SUFFICES ASSUME TreeInv, TreeApart, Read, found # NoMachine PROVE MapTrue
      BY DEF MapTrue
    <2>1. PICK map, memory : map = found.regions /\ memory = UNION {Bytes(r) : r \in Original}
      OBVIOUS
    <2>2. Arm /\ pc = "open" /\ input \in Inputs
      BY DEF TreeInv, TreeApart, Read
    <2>3. PICK tree : tree = input.tree /\ TreeMap(tree, input.base, input.size, map) /\ Disjoint(map)
      BY <2>1, <2>2 DEF TreeInv, TreeApart, TreeMap
    <2>4. map \in Seq(Region) /\ Len(map) <= MaxRegions
      BY <2>3 DEF TreeMap
    <2>5. Original = {MemoryRegion(b, 1, "Usable") : b \in MemoryOf(tree)}
      BY <2>2, <2>3 DEF Original
    <2>6. \A b \in MemoryOf(tree) : b \in Int
      BY DEF MemoryOf, Extent
    <2>7. \A b \in Int : Bytes(MemoryRegion(b, 1, "Usable")) = {b} /\ MemoryRegion(b, 1, "Usable").kind = "Usable"
      BY DEF Bytes, MemoryRegion, Extent
    <2>8. memory = MemoryOf(tree)
      <3>1. ASSUME NEW b
            PROVE  b \in memory <=> b \in MemoryOf(tree)
        BY <2>1, <2>5, <2>6, <2>7
      <3> QED
        BY <3>1
    <2>9. \A r \in ToSet(map) : /\ Bytes(r) \subseteq MemoryOf(tree)
                                /\ \A b \in Bytes(r) : r.kind = KindAt(input.base, input.size, b)
      BY <2>3 DEF TreeMap
    <2>10. Described(map) \subseteq memory
      BY <2>8, <2>9 DEF Described
    <2>11. ASSUME NEW b \in Described(map)
           PROVE  KindsOf(map, b) = {Label(b)}
      <3>1. PICK r \in ToSet(map) : b \in Bytes(r)
        BY DEF Described
      <3>2. KindsOf(map, b) = {KindAt(input.base, input.size, b)}
        BY <2>9, <3>1 DEF KindsOf
      <3>3. PICK first : first = CHOOSE q \in Original : b \in Bytes(q)
        OBVIOUS
      <3>4. first.kind = "Usable"
        <4>1. b \in MemoryOf(tree) /\ b \in Int
          BY <2>6, <2>9, <3>1
        <4>2. MemoryRegion(b, 1, "Usable") \in Original /\ b \in Bytes(MemoryRegion(b, 1, "Usable"))
          BY <2>5, <2>7, <4>1
        <4>3. first \in Original
          BY <3>3, <4>2, Zenon
        <4> QED
          BY <2>5, <2>6, <2>7, <4>3
      <3>5. \A extent : Inside(extent) = extent
        BY <2>2 DEF Inside
      <3>6. Occupied = Extent(input.base, input.size)
        BY <2>2, <3>5 DEF Occupied
      <3>7. Label(b) = IF "Usable" # "Usable" THEN "Usable"
                       ELSE IF b \in Inside(Extent(Image[1], Image[2])) THEN "Kernel"
                       ELSE IF b \in Occupied THEN "Reclaimable" ELSE "Usable"
        BY <3>3, <3>4, Zenon DEF Label
      <3>8. Label(b) = KindAt(input.base, input.size, b)
        BY <3>5, <3>6, <3>7 DEF KindAt
      <3> QED
        BY <3>2, <3>8
    <2>12. Full \/ Described(map) = memory
      <3>1. PICK m \in Nat, n \in Nat : m = MaxRegions /\ n = Len(map)
        BY <2>4, MapAssumption
      <3>2. Full \/ n < m
        BY <2>1, <2>4, <3>1 DEF Full
      <3>3. n < m => MemoryOf(tree) \subseteq Described(map)
        BY <2>3, <3>1 DEF TreeMap
      <3> QED
        BY <2>8, <2>10, <3>2, <3>3
    <2> QED
      BY <2>1, <2>3, <2>10, <2>11, <2>12 DEF MapTrue
  <1> QED
    BY <1>1, TreeInductive, PTL

-----------------------------------------------------------------------------
(* Translation. *)

\* The loader left a tree whose ranges of memory have bytes, all of them within the
\* blocks the tables hold.
TreeFits ==
  Arm => /\ Document(input.tree) /\ MemoryFilled(input.tree)
         /\ MemoryOf(input.tree) \subseteq 0 .. Blocks * BlockSize - 1

\* A byte and its block.
LEMMA BlockOf ==
  ASSUME NEW map \in Seq(Region), NEW size \in Nat \ {0}, size = BlockSize, NEW q \in Nat
  PROVE  /\ \A x \in Described(map) \cap Nat : x \div size = q => Covered(map, q * size)
         /\ (\A r \in ToSet(map) : r.len # 0) /\ Covered(map, q * size) =>
              \E x \in Described(map) \cap Nat : x \div size = q
  <1>1. PICK base \in Nat : base = q * size
    OBVIOUS
  <1>2. \A r \in ToSet(map) : r \in Region /\ r.base \in Nat /\ r.len \in Nat /\ r.kind # "Device"
    <2> TAKE r \in ToSet(map)
    <2>1. r \in Region
      BY Members
    <2> QED
      BY <2>1 DEF Region
  <1>3. ASSUME NEW x \in Described(map) \cap Nat, x \div size = q
        PROVE  Covered(map, base)
    <2>1. base <= x /\ x < base + size
      BY <1>1, <1>3, Block
    <2>2. PICK r \in ToSet(map) : x \in Bytes(r)
      BY DEF Described
    <2>3. r.base <= x /\ x < r.base + r.len
      BY <1>2, <2>2 DEF Bytes, Extent
    <2> QED
      BY <1>2, <2>1, <2>3 DEF Covered
  <1>4. ASSUME \A r \in ToSet(map) : r.len # 0, Covered(map, base)
        PROVE  \E x \in Described(map) \cap Nat : x \div size = q
    <2>1. PICK r \in ToSet(map) : r.base < base + size /\ base < r.base + r.len
      BY <1>4 DEF Covered
    <2>2. PICK from \in Nat, len \in Nat : from = r.base /\ len = r.len /\ len # 0
      BY <1>2, <1>4
    <2>3. PICK x \in Nat : x = IF from <= base THEN base ELSE from
      OBVIOUS
    <2>4. base <= x /\ x < base + size /\ from <= x /\ x < from + len
      BY <2>1, <2>2, <2>3
    <2>5. x \in Bytes(r)
      BY <2>2, <2>4 DEF Bytes, Extent
    <2>6. x \div size = q
      BY <1>1, <2>4, Block
    <2> QED
      BY <2>5, <2>6 DEF Described
  <1> QED
    BY <1>1, <1>3, <1>4

\* enable_identity_map: where the tables can hold the memory the tree describes, the
\* blocks mapped are the first and exactly those with memory in them.
THEOREM MemoryStaysMapped == Spec => [](TreeFits => StaysMapped)
  <1>1. TreeInv => (TreeFits => StaysMapped)
    <2> SUFFICES ASSUME TreeInv, TreeFits, Arm, pc = "install", ~Full
                 PROVE  valid = {0} \cup {b \div BlockSize : b \in MemoryOf(input.tree)}
      BY DEF StaysMapped
    <2>1. PICK size \in Nat \ {0}, blocks \in Nat \ {0} : size = BlockSize /\ blocks = Blocks
      BY BootAssumption
    <2>2. PICK map, memory : map = found.regions /\ memory = MemoryOf(input.tree)
      OBVIOUS
    <2>3. TreeMap(input.tree, input.base, input.size, map) /\ valid = BlocksOf(map)
      BY <2>2 DEF TreeInv, TreeFits
    <2>4. map \in Seq(Region) /\ Len(map) <= MaxRegions /\ \A r \in ToSet(map) : r.len # 0
      BY <2>3 DEF TreeMap, TreeFits
    <2>5. memory \subseteq Nat /\ \A x \in memory : x < blocks * size
      <3>1. memory \subseteq 0 .. blocks * size - 1
        BY <2>1, <2>2 DEF TreeFits
      <3>2. blocks * size \in Nat
        OBVIOUS
      <3> QED
        BY <3>1, <3>2
    <2>6. Described(map) = memory
      <3>1. Described(map) \subseteq memory
        BY <2>2, <2>3 DEF TreeMap, Described
      <3>2. PICK m \in Nat, n \in Nat : m = MaxRegions /\ n = Len(map)
        BY <2>4, MapAssumption
      <3>3. n < m
        BY <2>2, <2>4, <3>2 DEF Full
      <3> QED
        BY <2>2, <2>3, <3>1, <3>2, <3>3 DEF TreeMap
    <2>7. ASSUME NEW q \in Nat
          PROVE  Covered(map, q * size) <=> \E x \in memory : x \div size = q
      <3>1. PICK all : all = Described(map) \cap Nat
        OBVIOUS
      <3>2. /\ \A x \in all : x \div size = q => Covered(map, q * size)
            /\ Covered(map, q * size) => \E x \in all : x \div size = q
        BY <2>1, <2>4, <3>1, BlockOf
      <3>3. all = memory
        BY <2>5, <2>6, <3>1
      <3> QED
        BY <3>2, <3>3
    <2>8. \A x \in memory : x \div size \in 0 .. blocks - 1
      <3> TAKE x \in memory
      <3>1. PICK q \in Int : q = x \div size
        BY <2>5
      <3>2. q * size <= x /\ x < q * size + size /\ x \in Nat /\ x < blocks * size
        BY <2>5, <3>1, Block
      <3>3. 0 <= q
        <4>1. q <= -1 => q * size <= (-1) * size
          BY Times
        <4> QED
          BY <3>2, <4>1
      <3>4. q < blocks
        <4>1. blocks <= q => blocks * size <= q * size
          BY Times
        <4> QED
          BY <3>2, <4>1
      <3> QED
        BY <3>1, <3>3, <3>4
    <2>9. BlocksOf(map) = {b \in 0 .. blocks - 1 : b = 0 \/ Covered(map, b * size)}
      BY <2>1 DEF BlocksOf
    <2>10. ASSUME NEW q
           PROVE  q \in BlocksOf(map) <=> q = 0 \/ \E x \in memory : x \div size = q
      <3>1. 0 \in 0 .. blocks - 1
        OBVIOUS
      <3>2. q \in 0 .. blocks - 1 => q \in Nat
        OBVIOUS
      <3> QED
        BY <2>7, <2>8, <2>9, <3>1, <3>2
    <2> QED
      BY <2>1, <2>2, <2>3, <2>10
  <1> QED
    BY <1>1, TreeInductive, PTL

-----------------------------------------------------------------------------
(* What else the scan reads: the console, the slots, the controller and the  *)
(* processors.                                                               *)

\* The regs of a name that give an n-th range, and what the scan calls a v3
\* controller.
RegWith(tree, p, name, n) == PropOf(tree, p, "reg", name) /\ n \in DOMAIN RangesAt(tree, p)

IsV3(tree, p) == PropOf(tree, p, "compatible", "intc") /\ "arm,gic-v3" \in tree[p].value

\* The slots and processors that have been seen.
SlotsTo(tree, k) == {n \in 1 .. k : \E p \in 1 .. k : Holds(tree, n, p) /\ PropOf(tree, p, "reg", "virtio_mmio")}

CpusTo(tree, k) == {n \in 1 .. k : tree[n].t = "node" /\ tree[n].name = "cpu" /\ DepthAt(tree, n) = 3}

\* There is one interrupt controller.
OneController(tree) ==
  \A m, n \in DOMAIN tree :
    {m, n} \subseteq Nodes(tree, 2, "intc") => m = n

UartRead(tree, k, uart) ==
  \/ uart = None /\ \A p \in 1 .. k : ~RegWith(tree, p, "pl011", 1)
  \/ \E p \in 1 .. k : /\ RegWith(tree, p, "pl011", 1) /\ uart = <<RangesAt(tree, p)[1][1]>>
                       /\ \A q \in 1 .. p - 1 : ~RegWith(tree, q, "pl011", 1)

SlotRead(tree, k, slot) ==
  \/ slot = None /\ \A p \in 1 .. k : ~RegWith(tree, p, "virtio_mmio", 1)
  \/ \E p \in 1 .. k :
       /\ RegWith(tree, p, "virtio_mmio", 1) /\ slot = <<RangesAt(tree, p)[1]>>
       /\ RangesAt(tree, p)[1] \in Nat \X Nat
       /\ \A q \in 1 .. k : RegWith(tree, q, "virtio_mmio", 1) =>
            RangesAt(tree, q)[1][1] \in Nat /\ RangesAt(tree, p)[1][1] <= RangesAt(tree, q)[1][1]

GicRead(tree, k, reg) ==
  \/ reg = None /\ \A p \in 1 .. k : ~RegWith(tree, p, "intc", 2)
  \/ \E p \in 1 .. k : /\ RegWith(tree, p, "intc", 1) /\ RegWith(tree, p, "intc", 2)
                       /\ reg = <<<<RangesAt(tree, p)[1][1], RangesAt(tree, p)[2][1]>>>>

V3Read(tree, k, v3) == v3 <=> \E p \in 1 .. k : IsV3(tree, p)

DevicesRead(tree, k, s) ==
  /\ UartRead(tree, k, s.uart_base)
  /\ SlotRead(tree, k, s.virtio)
  /\ s.virtio_count = Cardinality(SlotsTo(tree, k))
  /\ s.cpu_count = Cardinality(CpusTo(tree, k))
  /\ OneController(tree) => GicRead(tree, k, s.gic_reg) /\ V3Read(tree, k, s.gic_v3)

\* The node of a property is one of its name.
LEMMA HeldBy ==
  ASSUME NEW tree, Document(tree), NEW prop, NEW name, NEW p \in DOMAIN tree, PropOf(tree, p, prop, name)
  PROVE  \E n \in Nodes(tree, 2, name) : Holds(tree, n, p) /\ n \in DOMAIN tree /\ n \in Nat /\ n < p
                                         /\ tree[n].t = "node" /\ p \in Nat
  <1>1. PICK len \in Nat : len = Len(tree) /\ DOMAIN tree = 1 .. len
    BY TreeIs
  <1>2. PICK n \in DOMAIN tree : Holds(tree, n, p) /\ tree[n].name = name
    BY DEF PropOf
  <1>3. n \in Nat /\ p \in Nat /\ tree[n].t = "node" /\ p \in n .. p /\ n < p
    BY <1>1, <1>2 DEF Holds
  <1>4. DepthAt(tree, n) = 2
    BY <1>2, <1>3, HeldDeep DEF PropOf
  <1> QED
    BY <1>2, <1>3, <1>4 DEF Nodes

LEMMA HeldIs ==
  ASSUME NEW tree, Document(tree), NEW name, NEW n \in Nodes(tree, 2, name), NEW p \in DOMAIN tree,
         Holds(tree, n, p)
  PROVE  PropOf(tree, p, tree[p].name, name)
  <1>1. PICK len \in Nat : len = Len(tree) /\ DOMAIN tree = 1 .. len
    BY TreeIs
  <1>2. n \in DOMAIN tree /\ tree[n].t = "node" /\ tree[n].name = name /\ DepthAt(tree, n) = 2
    BY DEF Nodes
  <1>3. n \in Nat /\ p \in Nat /\ p \in n .. p /\ tree[p].t = "prop"
    BY <1>1, <1>2 DEF Holds
  <1>4. DepthAt(tree, p) = 2
    BY <1>2, <1>3, HeldDeep
  <1> QED
    BY <1>2, <1>3, <1>4 DEF PropOf

\* A property of a controller is the only one of its name.
LEMMA OneProp ==
  ASSUME NEW tree, Document(tree), OneController(tree), NEW name, NEW p \in DOMAIN tree, NEW q \in DOMAIN tree,
         PropOf(tree, p, name, "intc"), PropOf(tree, q, name, "intc")
  PROVE  p = q
  <1>3. PICK m \in Nodes(tree, 2, "intc") : Holds(tree, m, p)
    BY HeldBy
  <1>4. PICK n \in Nodes(tree, 2, "intc") : Holds(tree, n, q)
    BY HeldBy
  <1>5. m \in DOMAIN tree /\ n \in DOMAIN tree
    BY DEF Nodes
  <1>6. m = n
    BY <1>5 DEF OneController
  <1>7. tree[p].name = tree[q].name
    BY DEF PropOf
  <1> QED
    BY <1>3, <1>4, <1>5, <1>6, <1>7, NamedOnce

LEMMA UartNext ==
  ASSUME NEW tree, NEW k \in Nat, NEW s, NEW e, Told(tree, k + 1, s, e), UartRead(tree, k, s.uart_base)
  PROVE  UartRead(tree, k + 1, e.uart_base)
  <1>1. PICK p, uart, ranges : p \in Nat /\ p = k + 1 /\ uart = s.uart_base /\ ranges = RangesAt(tree, p)
    OBVIOUS
  <1>2. e.uart_base = IF PropOf(tree, p, "reg", "pl011") /\ uart = None
                      THEN IF 1 \in DOMAIN ranges THEN <<ranges[1][1]>> ELSE None ELSE uart
    BY <1>1 DEF Told
  <1>3. \A q : q \in 1 .. k => q \in 1 .. k + 1
    OBVIOUS
  <1>4. \A q \in 1 .. k + 1 : q = p \/ q \in 1 .. k
    BY <1>1
  <1>5. CASE \E q \in 1 .. k : /\ RegWith(tree, q, "pl011", 1) /\ uart = <<RangesAt(tree, q)[1][1]>>
                               /\ \A r \in 1 .. q - 1 : ~RegWith(tree, r, "pl011", 1)
    <2>1. uart # None
      BY <1>5 DEF None
    <2> QED
      BY <1>2, <1>3, <1>5, <2>1 DEF UartRead
  <1>6. CASE uart = None /\ \A q \in 1 .. k : ~RegWith(tree, q, "pl011", 1)
    <2>1. CASE RegWith(tree, p, "pl011", 1)
      <3>1. e.uart_base = <<ranges[1][1]>>
        BY <1>1, <1>2, <1>6, <2>1 DEF RegWith
      <3>2. p \in 1 .. k + 1 /\ p - 1 = k
        BY <1>1
      <3> QED
        BY <1>1, <1>6, <2>1, <3>1, <3>2 DEF UartRead
    <2>2. CASE ~RegWith(tree, p, "pl011", 1)
      <3>1. e.uart_base = None
        BY <1>1, <1>2, <1>6, <2>2 DEF RegWith
      <3> QED
        BY <1>4, <1>6, <2>2, <3>1 DEF UartRead
    <2> QED
      BY <2>1, <2>2
  <1> QED
    BY <1>1, <1>5, <1>6 DEF UartRead

LEMMA SlotNext ==
  ASSUME NEW tree, Document(tree), NEW k \in Nat, k + 1 \in DOMAIN tree, NEW s, Core(tree, k, s), NEW e,
         Told(tree, k + 1, s, e), SlotRead(tree, k, s.virtio)
  PROVE  SlotRead(tree, k + 1, e.virtio)
  <1>1. PICK p, slot, ranges : p \in Nat /\ p = k + 1 /\ slot = s.virtio /\ ranges = RangesAt(tree, p)
    OBVIOUS
  <1> DEFINE base(q) == RangesAt(tree, q)[1][1]
             has(q) == RegWith(tree, q, "virtio_mmio", 1)
  <1>2. e.virtio = IF /\ PropOf(tree, p, "reg", "virtio_mmio") /\ 1 \in DOMAIN ranges
                      /\ slot = None \/ ranges[1][1] < slot[1][1]
                   THEN <<ranges[1]>> ELSE slot
    BY <1>1 DEF Told
  <1>3. \A q : q \in 1 .. k => q \in 1 .. k + 1
    OBVIOUS
  <1>4. (\A q \in 1 .. k + 1 : q = p \/ q \in 1 .. k) /\ p \in 1 .. k + 1
    BY <1>1
  <1>5. has(p) => ranges[1] \in Nat \X Nat
    <2> HAVE has(p)
    <2>1. PropOf(tree, p, "reg", "virtio_mmio") /\ 1 \in DOMAIN ranges
      BY <1>1 DEF RegWith
    <2>2. /\ CellCount(tree, "#address-cells", 2) \in Nat /\ CellCount(tree, "#size-cells", 1) \in Nat
      BY <1>1, <2>1, CountsAre
    <2>3. ranges \in Seq(Nat \X Nat)
      BY <1>1, <2>1, <2>2, RangesTyped DEF PropOf
    <2> QED
      BY <2>1, <2>3
  <1>6. CASE ~has(p)
    <2>1. e.virtio = slot
      BY <1>1, <1>2, <1>6 DEF RegWith
    <2> QED
      BY <1>1, <1>3, <1>4, <1>6, <2>1 DEF SlotRead
  <1>7. CASE has(p) /\ slot = None
    <2>1. e.virtio = <<ranges[1]>>
      BY <1>1, <1>2, <1>7 DEF RegWith
    <2>2. \A q \in 1 .. k : ~has(q)
      BY <1>1, <1>7 DEF SlotRead, None
    <2>3. base(p) \in Nat /\ base(p) <= base(p)
      BY <1>1, <1>5, <1>7
    <2> QED
      BY <1>1, <1>4, <1>5, <1>7, <2>1, <2>2, <2>3 DEF SlotRead
  <1>8. CASE has(p) /\ slot # None
    <2>1. PICK r \in 1 .. k : /\ has(r) /\ slot = <<RangesAt(tree, r)[1]>> /\ RangesAt(tree, r)[1] \in Nat \X Nat
                              /\ \A q \in 1 .. k : has(q) => base(q) \in Nat /\ base(r) <= base(q)
      BY <1>1, <1>8 DEF SlotRead
    <2>2. slot[1][1] = base(r) /\ base(r) \in Nat /\ base(p) \in Nat /\ ranges[1][1] = base(p)
      BY <1>1, <1>5, <1>8, <2>1
    <2>3. CASE base(p) < base(r)
      <3>1. e.virtio = <<ranges[1]>>
        BY <1>1, <1>2, <1>8, <2>2, <2>3 DEF RegWith
      <3>2. \A q \in 1 .. k + 1 : has(q) => base(q) \in Nat /\ base(p) <= base(q)
        <4> TAKE q \in 1 .. k + 1
        <4> HAVE has(q)
        <4>1. CASE q = p
          BY <2>2, <4>1
        <4>2. CASE q \in 1 .. k
          <5>1. base(q) \in Nat /\ base(r) <= base(q)
            BY <2>1, <4>2
          <5> HIDE DEF base
          <5> QED
            BY <2>2, <2>3, <5>1
        <4> QED
          BY <1>4, <4>1, <4>2
      <3> QED
        BY <1>1, <1>4, <1>5, <1>8, <3>1, <3>2 DEF SlotRead
    <2>4. CASE ~(base(p) < base(r))
      <3>1. e.virtio = slot
        BY <1>2, <1>8, <2>2, <2>4
      <3>2. \A q \in 1 .. k + 1 : has(q) => base(q) \in Nat /\ base(r) <= base(q)
        <4> TAKE q \in 1 .. k + 1
        <4> HAVE has(q)
        <4> HIDE DEF base
        <4>1. CASE q = p
          BY <2>2, <2>4, <4>1
        <4>2. CASE q \in 1 .. k
          BY <2>1, <4>2
        <4> QED
          BY <1>4, <4>1, <4>2
      <3> QED
        BY <1>3, <2>1, <3>1, <3>2 DEF SlotRead
    <2> QED
      BY <2>3, <2>4
  <1> QED
    BY <1>6, <1>7, <1>8

\* Counting one more.
LEMMA OneMore ==
  ASSUME NEW k \in Nat, NEW S \in SUBSET (1 .. k), NEW n
  PROVE  /\ IsFiniteSet(S) /\ Cardinality(S) \in Nat
         /\ n \notin S => Cardinality(S \cup {n}) = Cardinality(S) + 1
  <1>1. IsFiniteSet(1 .. k)
    BY FS_Interval
  <1>2. IsFiniteSet(S)
    BY <1>1, FS_Subset
  <1> QED
    BY <1>2, FS_CardinalityType, FS_AddElement

LEMMA SlotsNext ==
  ASSUME NEW tree, Document(tree), NEW k \in Nat, k + 1 \in DOMAIN tree, NEW s, NEW e,
         Told(tree, k + 1, s, e), s.virtio_count = Cardinality(SlotsTo(tree, k))
  PROVE  e.virtio_count = Cardinality(SlotsTo(tree, k + 1))
  <1>1. PICK p, c : p \in Nat /\ p = k + 1 /\ c = s.virtio_count
    OBVIOUS
  <1>2. e.virtio_count = IF PropOf(tree, p, "reg", "virtio_mmio") THEN c + 1 ELSE c
    BY <1>1 DEF Told
  <1>3. \A q \in 1 .. k + 1 : q = p \/ q \in 1 .. k
    BY <1>1
  <1>4. \A n, q : Holds(tree, n, q) => n \in 1 .. q - 1
    BY DEF Holds
  <1>5. \A n : n \in 1 .. k => n \in 1 .. k + 1
    OBVIOUS
  <1>6. SlotsTo(tree, k) \in SUBSET (1 .. k)
    BY DEF SlotsTo
  <1>7. CASE ~PropOf(tree, p, "reg", "virtio_mmio")
    <2>1. SlotsTo(tree, k + 1) = SlotsTo(tree, k)
      <3>1. ASSUME NEW n \in SlotsTo(tree, k + 1)
            PROVE  n \in SlotsTo(tree, k)
        <4>1. PICK q \in 1 .. k + 1 : Holds(tree, n, q) /\ PropOf(tree, q, "reg", "virtio_mmio")
          BY <3>1 DEF SlotsTo
        <4>2. q \in 1 .. k /\ n \in 1 .. q - 1
          BY <1>3, <1>4, <1>7, <4>1
        <4>3. n \in 1 .. k
          BY <4>2
        <4> QED
          BY <4>1, <4>2, <4>3 DEF SlotsTo
      <3>2. ASSUME NEW n \in SlotsTo(tree, k)
            PROVE  n \in SlotsTo(tree, k + 1)
        BY <1>5, <3>2 DEF SlotsTo
      <3> QED
        BY <3>1, <3>2
    <2> QED
      BY <1>1, <1>2, <1>7, <2>1
  <1>8. CASE PropOf(tree, p, "reg", "virtio_mmio")
    <2>1. PICK n \in DOMAIN tree : Holds(tree, n, p)
      BY <1>8 DEF PropOf
    <2>2. n \in 1 .. k /\ n \in 1 .. k + 1 /\ n \in Nat
      BY <1>1, <1>4, <2>1
    <2>3. n \notin SlotsTo(tree, k)
      <3> SUFFICES ASSUME NEW q \in 1 .. k, Holds(tree, n, q), PropOf(tree, q, "reg", "virtio_mmio")
                   PROVE  FALSE
        BY DEF SlotsTo
      <3>1. PICK len \in Nat : len = Len(tree) /\ DOMAIN tree = 1 .. len
        BY TreeIs
      <3>2. q \in DOMAIN tree /\ p \in DOMAIN tree /\ q # p
        BY <1>1, <3>1
      <3>3. tree[q].name = tree[p].name
        BY <1>8 DEF PropOf
      <3> QED
        BY <2>1, <3>2, <3>3, NamedOnce
    <2>4. SlotsTo(tree, k + 1) = SlotsTo(tree, k) \cup {n}
      <3>1. ASSUME NEW m \in SlotsTo(tree, k + 1), m # n
            PROVE  m \in SlotsTo(tree, k)
        <4>1. PICK q \in 1 .. k + 1 : Holds(tree, m, q) /\ PropOf(tree, q, "reg", "virtio_mmio")
          BY <3>1 DEF SlotsTo
        <4>2. q # p
          <5>1. m \in Nat /\ n \in Nat
            BY <2>2 DEF SlotsTo
          <5> QED
            BY <2>1, <3>1, <4>1, <5>1, OneHolder
        <4>3. q \in 1 .. k /\ m \in 1 .. q - 1
          BY <1>3, <1>4, <4>1, <4>2
        <4>4. m \in 1 .. k
          BY <4>3
        <4> QED
          BY <4>1, <4>3, <4>4 DEF SlotsTo
      <3>2. ASSUME NEW m \in SlotsTo(tree, k)
            PROVE  m \in SlotsTo(tree, k + 1)
        BY <1>5, <3>2 DEF SlotsTo
      <3>3. n \in SlotsTo(tree, k + 1)
        <4>1. p \in 1 .. k + 1
          BY <1>1
        <4> QED
          BY <1>8, <2>1, <2>2, <4>1 DEF SlotsTo
      <3> QED
        BY <3>1, <3>2, <3>3
    <2>5. Cardinality(SlotsTo(tree, k + 1)) = Cardinality(SlotsTo(tree, k)) + 1
      BY <1>6, <2>3, <2>4, OneMore
    <2> QED
      BY <1>1, <1>2, <1>8, <2>5
  <1> QED
    BY <1>7, <1>8

LEMMA CpusNext ==
  ASSUME NEW tree, NEW k \in Nat, NEW s, NEW e, Told(tree, k + 1, s, e),
         s.cpu_count = Cardinality(CpusTo(tree, k))
  PROVE  e.cpu_count = Cardinality(CpusTo(tree, k + 1))
  <1>1. PICK p, c : p \in Nat /\ p = k + 1 /\ c = s.cpu_count
    OBVIOUS
  <1> DEFINE core(n) == tree[n].t = "node" /\ tree[n].name = "cpu" /\ DepthAt(tree, n) = 3
  <1>2. e.cpu_count = IF core(p) THEN c + 1 ELSE c
    BY <1>1 DEF Told
  <1>3. CpusTo(tree, k) = {n \in 1 .. k : core(n)} /\ CpusTo(tree, k + 1) = {n \in 1 .. k + 1 : core(n)}
    BY DEF CpusTo
  <1>4. \A n : n \in 1 .. k + 1 <=> n \in 1 .. k \/ n = p
    BY <1>1
  <1>5. p \notin 1 .. k
    BY <1>1
  <1> HIDE DEF core
  <1>6. CpusTo(tree, k + 1) = IF core(p) THEN CpusTo(tree, k) \cup {p} ELSE CpusTo(tree, k)
    BY <1>3, <1>4
  <1>7. p \notin CpusTo(tree, k) /\ CpusTo(tree, k) \in SUBSET (1 .. k)
    BY <1>3, <1>5
  <1>8. Cardinality(CpusTo(tree, k) \cup {p}) = Cardinality(CpusTo(tree, k)) + 1
    BY <1>7, OneMore
  <1> QED
    BY <1>1, <1>2, <1>6, <1>8

LEMMA GicNext ==
  ASSUME NEW tree, Document(tree), OneController(tree), NEW k \in Nat, k + 1 \in DOMAIN tree, NEW s,
         Core(tree, k, s), NEW e,
         Told(tree, k + 1, s, e), GicRead(tree, k, s.gic_reg)
  PROVE  GicRead(tree, k + 1, e.gic_reg)
  <1>1. PICK p, reg, ranges : p \in Nat /\ p = k + 1 /\ reg = s.gic_reg /\ ranges = RangesAt(tree, p)
    OBVIOUS
  <1>2. e.gic_reg = IF PropOf(tree, p, "reg", "intc") /\ 2 \in DOMAIN ranges
                    THEN <<<<ranges[1][1], ranges[2][1]>>>> ELSE reg
    BY <1>1 DEF Told
  <1>3. (\A q \in 1 .. k : q \in 1 .. k + 1) /\ (\A q \in 1 .. k + 1 : q = p \/ q \in 1 .. k) /\ p \in 1 .. k + 1
    BY <1>1
  <1>4. CASE RegWith(tree, p, "intc", 2)
    <2>1. e.gic_reg = <<<<ranges[1][1], ranges[2][1]>>>>
      BY <1>1, <1>2, <1>4 DEF RegWith
    <2>2. PropOf(tree, p, "reg", "intc") /\ 2 \in DOMAIN ranges
      BY <1>1, <1>4 DEF RegWith
    <2>3. /\ CellCount(tree, "#address-cells", 2) \in Nat /\ CellCount(tree, "#size-cells", 1) \in Nat
      BY <1>1, <2>2, CountsAre
    <2>4. ranges \in Seq(Nat \X Nat)
      BY <1>1, <2>2, <2>3, RangesTyped DEF PropOf
    <2>5. RegWith(tree, p, "intc", 1)
      BY <1>1, <2>2, <2>4 DEF RegWith
    <2> QED
      BY <1>1, <1>3, <1>4, <2>1, <2>5 DEF GicRead
  <1>5. CASE ~RegWith(tree, p, "intc", 2)
    <2>1. e.gic_reg = reg
      BY <1>1, <1>2, <1>5 DEF RegWith
    <2> QED
      BY <1>1, <1>3, <1>5, <2>1 DEF GicRead
  <1> QED
    BY <1>4, <1>5

LEMMA V3Next ==
  ASSUME NEW tree, Document(tree), OneController(tree), NEW k \in Nat, k + 1 \in DOMAIN tree, NEW s, NEW e,
         Told(tree, k + 1, s, e), V3Read(tree, k, s.gic_v3)
  PROVE  V3Read(tree, k + 1, e.gic_v3)
  <1>1. PICK p \in Nat : p = k + 1
    OBVIOUS
  <1>2. (\A q \in 1 .. k : q \in 1 .. k + 1) /\ (\A q \in 1 .. k + 1 : q = p \/ q \in 1 .. k) /\ p \in 1 .. k + 1
        /\ p \notin 1 .. k
    BY <1>1
  <1>3. CASE PropOf(tree, p, "compatible", "intc")
    <2>1. e.gic_v3 = ("arm,gic-v3" \in tree[p].value)
      BY <1>1, <1>3 DEF Told
    <2>2. IsV3(tree, p) <=> "arm,gic-v3" \in tree[p].value
      BY <1>3 DEF IsV3
    <2>3. \A q \in 1 .. k : ~IsV3(tree, q)
      <3> SUFFICES ASSUME NEW q \in 1 .. k, IsV3(tree, q)
                   PROVE  FALSE
        OBVIOUS
      <3>1. PICK len \in Nat : len = Len(tree) /\ DOMAIN tree = 1 .. len
        BY TreeIs
      <3>2. q \in DOMAIN tree /\ p \in DOMAIN tree /\ q # p
        BY <1>1, <3>1
      <3>3. PropOf(tree, q, "compatible", "intc")
        BY DEF IsV3
      <3> QED
        BY <1>3, <3>2, <3>3, OneProp
    <2>4. (\E q \in 1 .. k + 1 : IsV3(tree, q)) <=> "arm,gic-v3" \in tree[p].value
      BY <1>2, <2>2, <2>3
    <2>5. e.gic_v3 <=> "arm,gic-v3" \in tree[p].value
      BY <2>1
    <2> QED
      BY <2>4, <2>5 DEF V3Read
  <1>4. CASE ~PropOf(tree, p, "compatible", "intc")
    <2>1. e.gic_v3 = s.gic_v3
      BY <1>1, <1>4 DEF Told
    <2>2. ~IsV3(tree, p)
      BY <1>4 DEF IsV3
    <2>3. (\E q \in 1 .. k + 1 : IsV3(tree, q)) <=> (\E q \in 1 .. k : IsV3(tree, q))
      BY <1>2, <2>2
    <2> QED
      BY <2>1, <2>3 DEF V3Read
  <1> QED
    BY <1>3, <1>4

LEMMA DevicesNext ==
  ASSUME NEW tree, Document(tree), NEW k \in Nat, k + 1 \in DOMAIN tree, NEW s, Core(tree, k, s), NEW e,
         Told(tree, k + 1, s, e), DevicesRead(tree, k, s)
  PROVE  DevicesRead(tree, k + 1, e)
  <1>1. /\ UartRead(tree, k, s.uart_base) /\ SlotRead(tree, k, s.virtio)
        /\ s.virtio_count = Cardinality(SlotsTo(tree, k)) /\ s.cpu_count = Cardinality(CpusTo(tree, k))
    BY DEF DevicesRead
  <1>2. OneController(tree) => GicRead(tree, k + 1, e.gic_reg) /\ V3Read(tree, k + 1, e.gic_v3)
    <2> HAVE OneController(tree)
    <2>1. GicRead(tree, k, s.gic_reg) /\ V3Read(tree, k, s.gic_v3)
      BY DEF DevicesRead
    <2> QED
      BY <2>1, GicNext, V3Next
  <1>3. UartRead(tree, k + 1, e.uart_base) /\ SlotRead(tree, k + 1, e.virtio)
    BY <1>1, UartNext, SlotNext
  <1>4. e.virtio_count = Cardinality(SlotsTo(tree, k + 1)) /\ e.cpu_count = Cardinality(CpusTo(tree, k + 1))
    BY <1>1, SlotsNext, CpusNext
  <1> QED
    BY <1>2, <1>3, <1>4 DEF DevicesRead

LEMMA DevicesFirst ==
  ASSUME NEW tree
  PROVE  DevicesRead(tree, 0, ScanDefault)
  <1>1. PICK none : none = ""
    BY Zenon
  <1>2. ScanDefault =
          [depth |-> 0, node |-> none, address_cells |-> 2, size_cells |-> 1,
           regions |-> <<>>, cpu_count |-> 0, uart_base |-> None, uart_irq |-> None,
           virtio |-> None, virtio_count |-> 0, bootargs |-> None,
           gic_v3 |-> FALSE, gic_reg |-> None]
    BY <1>1, Zenon DEF ScanDefault
  <1>3. /\ ScanDefault.uart_base = None /\ ScanDefault.virtio = None /\ ScanDefault.gic_reg = None
        /\ ScanDefault.virtio_count = 0 /\ ScanDefault.cpu_count = 0
    BY <1>2
  <1>4. ScanDefault.gic_v3 = FALSE
    BY <1>2
  <1>5. \A q : q \notin 1 .. 0
    OBVIOUS
  <1>6. SlotsTo(tree, 0) = {} /\ CpusTo(tree, 0) = {} /\ Cardinality({}) = 0
    BY <1>5, FS_EmptySet DEF SlotsTo, CpusTo
  <1>7. UartRead(tree, 0, None) /\ SlotRead(tree, 0, None) /\ GicRead(tree, 0, None)
    BY <1>5 DEF UartRead, SlotRead, GicRead
  <1>8. V3Read(tree, 0, FALSE)
    <2>1. ~\E q \in 1 .. 0 : IsV3(tree, q)
      BY <1>5
    <2> QED
      BY <2>1, Zenon DEF V3Read
  <1>9. V3Read(tree, 0, ScanDefault.gic_v3)
    BY <1>4, <1>8, Zenon
  <1>10. UartRead(tree, 0, ScanDefault.uart_base) /\ SlotRead(tree, 0, ScanDefault.virtio)
         /\ GicRead(tree, 0, ScanDefault.gic_reg)
    BY <1>3, <1>7
  <1> QED
    BY <1>3, <1>6, <1>9, <1>10 DEF DevicesRead

-----------------------------------------------------------------------------
(* When all of a tree has been scanned, what was read is what it says.       *)

AllRead(tree, k) ==
  /\ k \in Nat /\ 1 .. k \subseteq DOMAIN tree
  /\ \A p \in DOMAIN tree : tree[p].t \in {"prop", "node"} => p \in 1 .. k

\* No two slots have one base.
SlotsApart(tree) ==
  \A p, q \in DOMAIN tree :
    /\ RegWith(tree, p, "virtio_mmio", 1) /\ RegWith(tree, q, "virtio_mmio", 1)
    /\ RangesAt(tree, p)[1][1] = RangesAt(tree, q)[1][1]
    => p = q

\* The i-th range of a node.
LEMMA HeldRange ==
  ASSUME NEW tree, Document(tree), NEW n \in DOMAIN tree, NEW p \in DOMAIN tree, Holds(tree, n, p),
         NEW name, NEW i, RegWith(tree, p, name, i)
  PROVE  \E r \in RangesOf(tree, n) : r[1] = i
  <1>1. PICK R : R = RangesAt(tree, p) /\ i \in DOMAIN R
    BY DEF RegWith
  <1>2. tree[n].t = "node" /\ tree[p].name = "reg"
    BY DEF Holds, RegWith, PropOf
  <1>3. PICK pair : pair = <<i, R[i]>>
    OBVIOUS
  <1>4. pair \in RangesOf(tree, n)
    BY <1>1, <1>2, <1>3, RangesOfIs
  <1> QED
    BY <1>3, <1>4

LEMMA ChosenRange ==
  ASSUME NEW tree, Document(tree), NEW n \in DOMAIN tree, NEW p \in DOMAIN tree, Holds(tree, n, p),
         NEW name, NEW i, RegWith(tree, p, name, i)
  PROVE  /\ \E r \in RangesOf(tree, n) : r[1] = i
         /\ (CHOOSE r \in RangesOf(tree, n) : r[1] = i) = <<i, RangesAt(tree, p)[i]>>
  <1>1. PICK R : R = RangesAt(tree, p) /\ i \in DOMAIN R
    BY DEF RegWith
  <1>2. tree[n].t = "node" /\ tree[p].name = "reg"
    BY DEF Holds, RegWith, PropOf
  <1>3. PICK pair : pair = <<i, R[i]>>
    OBVIOUS
  <1>4. pair \in RangesOf(tree, n) /\ pair[1] = i
    <2>1. pair \in RangesOf(tree, n)
      BY <1>1, <1>2, <1>3, RangesOfIs
    <2> QED
      BY <1>3, <2>1
  <1>5. ASSUME NEW r \in RangesOf(tree, n), r[1] = i
        PROVE  r = pair
    <2>1. PICK q \in DOMAIN tree : /\ Holds(tree, n, q) /\ tree[q].name = "reg"
                                   /\ \E j \in DOMAIN RangesAt(tree, q) : r = <<j, RangesAt(tree, q)[j]>>
      BY <1>2, RangesOfIs
    <2>2. q = p
      BY <1>2, <2>1, NamedOnce
    <2>3. PICK j \in DOMAIN R : r = <<j, R[j]>>
      BY <1>1, <2>1, <2>2
    <2>4. j = i
      BY <1>5, <2>3
    <2> QED
      BY <1>3, <2>3, <2>4
  <1>6. PICK c : c = CHOOSE r \in RangesOf(tree, n) : r[1] = i
    OBVIOUS
  <1>7. c \in RangesOf(tree, n) /\ c[1] = i
    BY <1>4, <1>6, Zenon
  <1> QED
    BY <1>1, <1>3, <1>4, <1>5, <1>6, <1>7

\* A node with an i-th range holds a reg with it.
LEMMA HasRange ==
  ASSUME NEW tree, Document(tree), NEW name, NEW n \in Nodes(tree, 2, name), NEW r \in RangesOf(tree, n)
  PROVE  \E p \in DOMAIN tree : Holds(tree, n, p) /\ RegWith(tree, p, name, r[1])
  <1>1. n \in DOMAIN tree /\ tree[n].t = "node"
    BY DEF Nodes
  <1>2. PICK p \in DOMAIN tree : /\ Holds(tree, n, p) /\ tree[p].name = "reg"
                                 /\ \E i \in DOMAIN RangesAt(tree, p) : r = <<i, RangesAt(tree, p)[i]>>
    BY <1>1, RangesOfIs
  <1>3. r[1] \in DOMAIN RangesAt(tree, p)
    BY <1>2
  <1>4. PropOf(tree, p, "reg", name)
    BY <1>2, HeldIs
  <1> QED
    BY <1>2, <1>3, <1>4 DEF RegWith

\* The nodes with a window, and what it is.
LEMMA WindowsAre ==
  ASSUME NEW tree, Document(tree), NEW name
  PROVE  /\ \A n \in Windows(tree, Nodes(tree, 2, name)) :
              /\ n \in DOMAIN tree /\ n \in Nat /\ tree[n].t = "node"
              /\ \E p \in DOMAIN tree : Holds(tree, n, p) /\ RegWith(tree, p, name, 1)
         /\ \A p \in DOMAIN tree : RegWith(tree, p, name, 1) =>
              \E n \in Windows(tree, Nodes(tree, 2, name)) : Holds(tree, n, p)
         /\ \A n, p \in DOMAIN tree : Holds(tree, n, p) /\ RegWith(tree, p, name, 1) =>
              Window(tree, n) = RangesAt(tree, p)[1]
  <1>1. PICK len \in Nat : len = Len(tree) /\ DOMAIN tree = 1 .. len
    BY TreeIs
  <1>2. ASSUME NEW n \in Windows(tree, Nodes(tree, 2, name))
        PROVE  /\ n \in DOMAIN tree /\ n \in Nat /\ tree[n].t = "node"
               /\ \E p \in DOMAIN tree : Holds(tree, n, p) /\ RegWith(tree, p, name, 1)
    <2>1. n \in Nodes(tree, 2, name) /\ \E r \in RangesOf(tree, n) : r[1] = 1
      BY DEF Windows
    <2>2. n \in DOMAIN tree /\ tree[n].t = "node"
      BY <2>1 DEF Nodes
    <2>3. \E p \in DOMAIN tree : Holds(tree, n, p) /\ RegWith(tree, p, name, 1)
      BY <2>1, HasRange
    <2> QED
      BY <1>1, <2>2, <2>3
  <1>3. ASSUME NEW n \in DOMAIN tree, NEW p \in DOMAIN tree, Holds(tree, n, p), RegWith(tree, p, name, 1)
        PROVE  Window(tree, n) = RangesAt(tree, p)[1] /\ \E r \in RangesOf(tree, n) : r[1] = 1
    <2>1. PICK R : R = RangesAt(tree, p)
      OBVIOUS
    <2>2. (CHOOSE r \in RangesOf(tree, n) : r[1] = 1) = <<1, R[1]>> /\ \E r \in RangesOf(tree, n) : r[1] = 1
      BY <1>3, <2>1, ChosenRange
    <2>3. Window(tree, n) = <<1, R[1]>>[2]
      BY <2>2, Zenon DEF Window
    <2> QED
      BY <2>1, <2>2, <2>3
  <1>4. ASSUME NEW p \in DOMAIN tree, RegWith(tree, p, name, 1)
        PROVE  \E n \in Windows(tree, Nodes(tree, 2, name)) : Holds(tree, n, p)
    <2>1. PICK n \in Nodes(tree, 2, name) : Holds(tree, n, p) /\ n \in DOMAIN tree
      BY <1>4, HeldBy DEF RegWith
    <2> QED
      BY <1>3, <1>4, <2>1 DEF Windows
  <1> QED
    BY <1>2, <1>3, <1>4

LEMMA UartIs ==
  ASSUME NEW tree, Document(tree), NEW k, AllRead(tree, k), NEW uart, UartRead(tree, k, uart)
  PROVE  uart = UartOf(tree)
  <1>1. PICK len \in Nat : len = Len(tree) /\ DOMAIN tree = 1 .. len
    BY TreeIs
  <1>2. PICK uarts : uarts = Windows(tree, Nodes(tree, 2, "pl011"))
    OBVIOUS
  <1>3. UartOf(tree) = IF uarts = {} THEN None ELSE <<Window(tree, Min(uarts))[1]>>
    BY <1>2, Zenon DEF UartOf
  <1>4. \A p \in DOMAIN tree : RegWith(tree, p, "pl011", 1) => p \in 1 .. k
    BY DEF AllRead, RegWith, PropOf
  <1>5. CASE uart = None /\ \A p \in 1 .. k : ~RegWith(tree, p, "pl011", 1)
    <2>1. uarts = {}
      BY <1>2, <1>4, <1>5, WindowsAre
    <2> QED
      BY <1>3, <1>5, <2>1
  <1>6. ASSUME NEW p \in 1 .. k, RegWith(tree, p, "pl011", 1), uart = <<RangesAt(tree, p)[1][1]>>,
               \A q \in 1 .. p - 1 : ~RegWith(tree, q, "pl011", 1)
        PROVE  uart = UartOf(tree)
    <2>1. p \in DOMAIN tree /\ p \in Nat
      BY DEF AllRead
    <2>2. PICK n \in uarts : Holds(tree, n, p)
      BY <1>2, <1>6, <2>1, WindowsAre
    <2>3. uarts \in SUBSET Nat /\ uarts # {} /\ uarts \subseteq DOMAIN tree
      BY <1>2, <2>2, WindowsAre
    <2>4. PICK m \in uarts : m = Min(uarts) /\ m <= n
      BY <2>2, <2>3, LeastMember
    <2>5. PICK q \in DOMAIN tree : Holds(tree, m, q) /\ RegWith(tree, q, "pl011", 1)
      BY <1>2, <2>4, WindowsAre
    <2>6. q \in Nat /\ p <= q
      BY <1>1, <1>6, <2>1, <2>5
    <2>7. ~(m < n)
      <3> SUFFICES ASSUME m < n
                   PROVE  FALSE
        OBVIOUS
      <3>1. n \in Nat /\ m \in Nat /\ n \in 1 .. p - 1
        BY <2>2, <2>3, <2>4 DEF Holds
      <3>2. n \in m + 1 .. q
        BY <2>1, <2>6, <3>1
      <3>3. tree[n].t # "node"
        BY <2>5, <3>2 DEF Holds
      <3> QED
        BY <2>2, <3>3 DEF Holds
    <2>8. m = n
      <3>1. m \in Nat /\ n \in Nat
        BY <2>2, <2>3, <2>4
      <3> QED
        BY <2>4, <2>7, <3>1
    <2>9. Window(tree, n) = RangesAt(tree, p)[1]
      BY <1>6, <2>1, <2>2, <2>3, WindowsAre
    <2> QED
      BY <1>3, <1>6, <2>3, <2>4, <2>8, <2>9
  <1> QED
    BY <1>5, <1>6 DEF UartRead

LEMMA SlotIs ==
  ASSUME NEW tree, Document(tree), NEW k, AllRead(tree, k), SlotsApart(tree),
         NEW slot, SlotRead(tree, k, slot)
  PROVE  slot = SlotOf(tree)
  <1> DEFINE has(p) == RegWith(tree, p, "virtio_mmio", 1)
             first(p) == RangesAt(tree, p)[1]
  <1>1. PICK len \in Nat : len = Len(tree) /\ DOMAIN tree = 1 .. len
    BY TreeIs
  <1> DEFINE windows == {Window(tree, n) : n \in Windows(tree, Nodes(tree, 2, "virtio_mmio"))}
  <1>3. SlotOf(tree) = IF windows = {} THEN None
                       ELSE <<CHOOSE w \in windows : \A v \in windows : w[1] <= v[1]>>
    BY Zenon DEF SlotOf
  <1>2. windows = {Window(tree, n) : n \in Windows(tree, Nodes(tree, 2, "virtio_mmio"))}
    OBVIOUS
  <1> HIDE DEF windows
  <1>4. \A p \in DOMAIN tree : has(p) => p \in 1 .. k
    BY DEF AllRead, RegWith, PropOf
  <1>5. \A p : p \in 1 .. k => p \in DOMAIN tree
    BY DEF AllRead
  <1>6. \A w : w \in windows <=> \E p \in DOMAIN tree : has(p) /\ w = first(p)
    <2>1. ASSUME NEW w \in windows
          PROVE  \E p \in DOMAIN tree : has(p) /\ w = first(p)
      <3>1. PICK n \in Windows(tree, Nodes(tree, 2, "virtio_mmio")) : w = Window(tree, n)
        BY <1>2
      <3>2. PICK p \in DOMAIN tree : Holds(tree, n, p) /\ has(p) /\ n \in DOMAIN tree
        BY WindowsAre
      <3>3. Window(tree, n) = first(p)
        BY <3>2, WindowsAre
      <3> QED
        BY <3>1, <3>2, <3>3
    <2>2. ASSUME NEW p \in DOMAIN tree, has(p)
          PROVE  first(p) \in windows
      <3>1. PICK n \in Windows(tree, Nodes(tree, 2, "virtio_mmio")) : Holds(tree, n, p)
        BY <2>2, WindowsAre
      <3>2. n \in DOMAIN tree
        BY WindowsAre
      <3>3. Window(tree, n) = first(p)
        BY <2>2, <3>1, <3>2, WindowsAre
      <3> QED
        BY <1>2, <3>1, <3>3
    <2> HIDE DEF has, first
    <2> QED
      BY <2>1, <2>2
  <1>7. CASE slot = None /\ \A p \in 1 .. k : ~has(p)
    <2>1. windows = {}
      BY <1>4, <1>6, <1>7
    <2> QED
      BY <1>3, <1>7, <2>1
  <1>8. ASSUME NEW p \in 1 .. k, has(p), slot = <<first(p)>>,
               \A q \in 1 .. k : has(q) => first(q)[1] \in Nat /\ first(p)[1] <= first(q)[1]
        PROVE  slot = SlotOf(tree)
    <2>1. \A q \in DOMAIN tree : has(q) /\ first(q)[1] = first(p)[1] => q = p
      BY <1>5, <1>8 DEF SlotsApart
    <2>2. p \in DOMAIN tree
      BY <1>5
    <2> HIDE DEF has, first
    <2>3. first(p) \in windows /\ first(p)[1] \in Nat
      BY <1>6, <1>8, <2>2
    <2>4. \A v \in windows : v[1] \in Nat /\ first(p)[1] <= v[1]
      BY <1>4, <1>6, <1>8
    <2>5. PICK c : c = CHOOSE w \in windows : \A v \in windows : w[1] <= v[1]
      OBVIOUS
    <2>6. c \in windows /\ \A v \in windows : c[1] <= v[1]
      <3>1. \E w \in windows : \A v \in windows : w[1] <= v[1]
        BY <2>3, <2>4
      <3> QED
        BY <2>5, <3>1, Zenon
    <2>7. c[1] = first(p)[1]
      BY <2>3, <2>4, <2>6
    <2>8. c = first(p)
      BY <1>6, <2>1, <2>6, <2>7
    <2> QED
      BY <1>3, <1>8, <2>3, <2>5, <2>8
  <1> QED
    BY <1>7, <1>8 DEF SlotRead

LEMMA ValueIs ==
  ASSUME NEW tree, Document(tree), NEW n \in DOMAIN tree, tree[n].t = "node", NEW name, NEW v
  PROVE  v \in Values(tree, n, name) <=>
           \E p \in DOMAIN tree : Holds(tree, n, p) /\ tree[p].name = name /\ v = tree[p].value
  <1>1. PICK values : values = Values(tree, n, name)
    OBVIOUS
  <1>2. values = {tree[p].value : p \in {q \in DOMAIN tree : Holds(tree, n, q) /\ tree[q].name = name}}
    BY <1>1, ValuesAre
  <1> QED
    BY <1>1, <1>2

LEMMA CountsRead ==
  ASSUME NEW tree, Document(tree), NEW k, AllRead(tree, k)
  PROVE  /\ SlotsTo(tree, k) = {n \in Nodes(tree, 2, "virtio_mmio") : Values(tree, n, "reg") # {}}
         /\ CpusTo(tree, k) = Nodes(tree, 3, "cpu")
  <1>1. /\ \A n : n \in 1 .. k => n \in DOMAIN tree
        /\ \A n \in DOMAIN tree : tree[n].t \in {"prop", "node"} => n \in 1 .. k
    BY DEF AllRead
  <1>2. ASSUME NEW n
        PROVE  n \in SlotsTo(tree, k) <=> n \in Nodes(tree, 2, "virtio_mmio") /\ Values(tree, n, "reg") # {}
    <2>1. CASE n \in SlotsTo(tree, k)
      <3>1. PICK p \in 1 .. k : n \in 1 .. k /\ Holds(tree, n, p) /\ PropOf(tree, p, "reg", "virtio_mmio")
        BY <2>1 DEF SlotsTo
      <3>2. n \in DOMAIN tree /\ p \in DOMAIN tree /\ tree[p].name = "reg"
        BY <1>1, <3>1 DEF PropOf
      <3>3. PICK m \in Nodes(tree, 2, "virtio_mmio") : Holds(tree, m, p) /\ m \in Nat /\ p \in Nat
        BY <3>1, <3>2, HeldBy
      <3>4. m = n
        <4>1. n \in Nat
          BY <3>1
        <4> QED
          BY <3>1, <3>3, <4>1, OneHolder
      <3>5. tree[n].t = "node"
        BY <3>1 DEF Holds
      <3>6. tree[p].value \in Values(tree, n, "reg")
        BY <3>1, <3>2, <3>5, ValuesAre
      <3> QED
        BY <2>1, <3>3, <3>4, <3>6
    <2>2. CASE n \in Nodes(tree, 2, "virtio_mmio") /\ Values(tree, n, "reg") # {}
      <3>1. n \in DOMAIN tree /\ tree[n].t = "node"
        BY <2>2 DEF Nodes
      <3>2. PICK p \in DOMAIN tree : Holds(tree, n, p) /\ tree[p].name = "reg"
        BY <2>2, <3>1, ValuesAre
      <3>3. PropOf(tree, p, "reg", "virtio_mmio")
        BY <2>2, <3>2, HeldIs
      <3>4. p \in 1 .. k /\ n \in 1 .. k
        BY <1>1, <3>1, <3>3 DEF PropOf
      <3> QED
        BY <2>2, <3>2, <3>3, <3>4 DEF SlotsTo
    <2> QED
      BY <2>1, <2>2
  <1>3. CpusTo(tree, k) = Nodes(tree, 3, "cpu")
    BY <1>1 DEF CpusTo, Nodes
  <1> QED
    BY <1>2, <1>3

LEMMA GicIs ==
  ASSUME NEW tree, Document(tree), NEW k, AllRead(tree, k), OneController(tree), NEW reg, GicRead(tree, k, reg),
         NEW v3, V3Read(tree, k, v3)
  PROVE  (IF v3 THEN reg ELSE None) = GicOf(tree)
  <1>1. PICK len \in Nat : len = Len(tree) /\ DOMAIN tree = 1 .. len
    BY TreeIs
  <1> DEFINE nodes == {n \in Nodes(tree, 2, "intc") :
                         /\ \E names \in Values(tree, n, "compatible") : "arm,gic-v3" \in names
                         /\ \E r \in RangesOf(tree, n) : r[1] = 2}
             base(n, i) == (CHOOSE r \in RangesOf(tree, n) : r[1] = i)[2][1]
  <1>2. GicOf(tree) = IF nodes = {} THEN None ELSE <<<<base(Min(nodes), 1), base(Min(nodes), 2)>>>>
    BY Zenon DEF GicOf
  <1>3. \A n : n \in nodes <=>
          /\ n \in Nodes(tree, 2, "intc")
          /\ \E names \in Values(tree, n, "compatible") : "arm,gic-v3" \in names
          /\ \E r \in RangesOf(tree, n) : r[1] = 2
    OBVIOUS
  <1> HIDE DEF nodes
  <1>4. \A p \in DOMAIN tree : tree[p].t = "prop" => p \in 1 .. k
    BY DEF AllRead
  <1>5. \A p : p \in 1 .. k => p \in DOMAIN tree
    BY DEF AllRead
  <1>6. \A n \in Nodes(tree, 2, "intc") : n \in DOMAIN tree /\ tree[n].t = "node" /\ n \in Nat
    BY <1>1 DEF Nodes
  <1>7. \A m, n \in Nodes(tree, 2, "intc") : m = n
    BY <1>6 DEF OneController
  <1>8. ASSUME NEW n \in nodes
        PROVE  /\ \E p \in 1 .. k : IsV3(tree, p)
               /\ \E p \in 1 .. k : RegWith(tree, p, "intc", 2)
    <2>1. n \in Nodes(tree, 2, "intc") /\ n \in DOMAIN tree /\ tree[n].t = "node"
      BY <1>3, <1>6
    <2>2. PICK p \in DOMAIN tree : /\ Holds(tree, n, p) /\ tree[p].name = "compatible"
                                   /\ "arm,gic-v3" \in tree[p].value
      <3>1. PICK names \in Values(tree, n, "compatible") : "arm,gic-v3" \in names
        BY <1>3
      <3>2. \E p \in DOMAIN tree : Holds(tree, n, p) /\ tree[p].name = "compatible" /\ names = tree[p].value
        <4>1. names \in Values(tree, n, "compatible")
          OBVIOUS
        <4> QED
          BY <2>1, <4>1, ValueIs
      <3> QED
        BY <3>1, <3>2, Zenon
    <2>3. IsV3(tree, p)
      BY <2>1, <2>2, HeldIs DEF IsV3
    <2>4. p \in 1 .. k
      BY <1>4, <2>2 DEF Holds
    <2>5. PICK r \in RangesOf(tree, n) : r[1] = 2
      BY <1>3
    <2>6. PICK q \in DOMAIN tree : RegWith(tree, q, "intc", 2)
      BY <2>1, <2>5, HasRange
    <2>7. q \in 1 .. k
      BY <1>4, <2>6 DEF RegWith, PropOf
    <2> QED
      BY <2>3, <2>4, <2>6, <2>7
  <1>9. CASE nodes = {}
    <2>1. ASSUME NEW p \in 1 .. k, RegWith(tree, p, "intc", 2), NEW q \in 1 .. k, IsV3(tree, q)
          PROVE  FALSE
      <3>1. p \in DOMAIN tree /\ q \in DOMAIN tree
        BY <1>5
      <3>2. PICK n \in Nodes(tree, 2, "intc") : Holds(tree, n, p)
        BY <2>1, <3>1, HeldBy DEF RegWith
      <3>3. PICK m \in Nodes(tree, 2, "intc") : Holds(tree, m, q)
        BY <2>1, <3>1, HeldBy DEF IsV3
      <3>4. m = n /\ n \in DOMAIN tree /\ tree[n].t = "node"
        BY <1>6, <1>7
      <3>5. tree[q].value \in Values(tree, n, "compatible") /\ "arm,gic-v3" \in tree[q].value
        <4>1. tree[q].name = "compatible" /\ "arm,gic-v3" \in tree[q].value
          BY <2>1 DEF IsV3, PropOf
        <4>2. Holds(tree, n, q)
          BY <3>3, <3>4
        <4>3. tree[q].value \in Values(tree, n, "compatible")
          BY <3>1, <3>4, <4>1, <4>2, ValueIs, Zenon
        <4> QED
          BY <4>1, <4>3, Zenon
      <3>6. \E r \in RangesOf(tree, n) : r[1] = 2
        BY <2>1, <3>1, <3>2, <3>4, HeldRange
      <3> QED
        BY <1>3, <1>9, <3>5, <3>6
    <2>2. CASE \E p \in 1 .. k : RegWith(tree, p, "intc", 2)
      <3>1. ~v3
        BY <2>1, <2>2 DEF V3Read
      <3> QED
        BY <1>2, <1>9, <3>1
    <2>3. CASE ~\E p \in 1 .. k : RegWith(tree, p, "intc", 2)
      <3>1. reg = None
        BY <2>3 DEF GicRead
      <3> QED
        BY <1>2, <1>9, <3>1
    <2> QED
      BY <2>2, <2>3
  <1>10. CASE nodes # {}
    <2>1. PICK n \in nodes : TRUE
      BY <1>10
    <2>2. v3 /\ \E p \in 1 .. k : RegWith(tree, p, "intc", 2)
      BY <1>8, <2>1 DEF V3Read
    <2>3. PICK p \in 1 .. k : /\ RegWith(tree, p, "intc", 1) /\ RegWith(tree, p, "intc", 2)
                              /\ reg = <<<<RangesAt(tree, p)[1][1], RangesAt(tree, p)[2][1]>>>>
      BY <2>2 DEF GicRead
    <2>4. p \in DOMAIN tree
      BY <1>5
    <2>5. PICK m \in Nodes(tree, 2, "intc") : Holds(tree, m, p)
      BY <2>3, <2>4, HeldBy DEF RegWith
    <2>6. m = n /\ n \in DOMAIN tree
      BY <1>3, <1>6, <1>7, <2>1, <2>5
    <2>7. Min(nodes) = n
      <3>1. nodes \in SUBSET Nat
        BY <1>3, <1>6
      <3>2. Min(nodes) \in nodes
        BY <1>10, <3>1, LeastMember
      <3> QED
        BY <1>3, <1>7, <2>1, <3>2
    <2>8. PICK R : R = RangesAt(tree, p)
      OBVIOUS
    <2>9. /\ (CHOOSE r \in RangesOf(tree, n) : r[1] = 1) = <<1, R[1]>>
          /\ (CHOOSE r \in RangesOf(tree, n) : r[1] = 2) = <<2, R[2]>>
      BY <2>3, <2>4, <2>5, <2>6, <2>8, ChosenRange
    <2>10. base(n, 1) = <<1, R[1]>>[2][1] /\ base(n, 2) = <<2, R[2]>>[2][1]
      BY <2>9, Zenon
    <2> HIDE DEF base
    <2>11. GicOf(tree) = <<<<R[1][1], R[2][1]>>>>
      BY <1>2, <1>10, <2>7, <2>10
    <2> QED
      BY <2>2, <2>3, <2>8, <2>11
  <1> QED
    BY <1>9, <1>10

-----------------------------------------------------------------------------
(* The machine of a tree.                                                    *)

\* The slots the tree describes fit what the lab keeps of them.
TreeSlotsFit(tree) ==
  /\ \A p \in DOMAIN tree : RegWith(tree, p, "virtio_mmio", 1) =>
       RangesAt(tree, p)[1][1] < SlotBases /\ RangesAt(tree, p)[1][2] < 65536
  /\ Cardinality({n \in Nodes(tree, 2, "virtio_mmio") : Values(tree, n, "reg") # {}}) < 256

\* A machine's slots are none, or a lowest one and how many.
SlotKnown(slot, count) ==
  \/ slot = None
  \/ \E b, s, c \in Nat : /\ slot = <<<<b, s>>>> /\ count = c
                          /\ b < SlotBases /\ s < 65536 /\ c # 0 /\ c < 256

TreeSaid(tree, m) ==
  /\ m.uart_base = UartOf(tree)
  /\ SlotsApart(tree) => m.virtio = SlotOf(tree)
  /\ m.virtio_count = Cardinality({n \in Nodes(tree, 2, "virtio_mmio") : Values(tree, n, "reg") # {}})
  /\ OneController(tree) => m.gic = GicOf(tree)
  /\ m.cpu_count = Cardinality(Nodes(tree, 3, "cpu"))
  /\ TreeSlotsFit(tree) => SlotKnown(m.virtio, m.virtio_count)

\* What FromScan takes from the scan as it is.
Taken(s, m) ==
  /\ m.uart_base = s.uart_base /\ m.virtio = s.virtio /\ m.virtio_count = s.virtio_count
  /\ m.cpu_count = s.cpu_count /\ m.gic = IF s.gic_v3 THEN s.gic_reg ELSE None

LEMMA FromScanIs ==
  ASSUME NEW s, NEW regs, NEW m, m = [FromScan(s) EXCEPT !.regions = regs]
  PROVE  Taken(s, m)
  <1>1. PICK carved, args, gic :
          /\ carved = Reserve(s.regions, input.base, input.size, "Reclaimable")
          /\ args = IF s.bootargs = None THEN <<>> ELSE s.bootargs[1]
          /\ gic = IF s.gic_v3 THEN s.gic_reg ELSE None
    OBVIOUS
  <1>2. FromScan(s) =
          [regions |-> carved, cpu_count |-> s.cpu_count, uart_base |-> s.uart_base,
           uart_irq |-> s.uart_irq, virtio |-> s.virtio, virtio_count |-> s.virtio_count,
           args |-> args, gic |-> gic, dropped |-> 0]
    BY <1>1, Zenon DEF FromScan
  <1> QED
    BY <1>1, <1>2 DEF Taken

\* A slot that was read is one of those counted.
LEMMA SlotCounted ==
  ASSUME NEW tree, Document(tree), NEW k, AllRead(tree, k), TreeSlotsFit(tree),
         NEW slot, SlotRead(tree, k, slot), NEW count, count = Cardinality(SlotsTo(tree, k))
  PROVE  SlotKnown(slot, count)
  <1>1. PICK set, c : set = SlotsTo(tree, k) /\ c = Cardinality(set)
    OBVIOUS
  <1>2. CASE slot = None
    BY <1>2 DEF SlotKnown
  <1>3. ASSUME NEW p \in 1 .. k, RegWith(tree, p, "virtio_mmio", 1), slot = <<RangesAt(tree, p)[1]>>,
               RangesAt(tree, p)[1] \in Nat \X Nat
        PROVE  SlotKnown(slot, count)
    <2>1. p \in DOMAIN tree /\ k \in Nat
      BY DEF AllRead
    <2>2. PICK n \in Nodes(tree, 2, "virtio_mmio") : Holds(tree, n, p) /\ n \in Nat /\ n < p /\ n \in DOMAIN tree
      BY <1>3, <2>1, HeldBy DEF RegWith
    <2>3. n \in set
      <3>1. n \in 1 .. k
        BY <2>2 DEF AllRead, Holds
      <3> QED
        BY <1>1, <1>3, <2>2, <3>1 DEF SlotsTo, RegWith
    <2>4. c \in Nat /\ c # 0
      <3>1. IsFiniteSet(1 .. k) /\ set \subseteq 1 .. k
        BY <1>1, <2>1, FS_Interval DEF SlotsTo
      <3>2. IsFiniteSet(set)
        BY <3>1, FS_Subset
      <3> QED
        BY <1>1, <2>3, <3>2, FS_CardinalityType, FS_EmptySet
    <2>5. c < 256
      <3>1. set = {q \in Nodes(tree, 2, "virtio_mmio") : Values(tree, q, "reg") # {}}
        BY <1>1, CountsRead
      <3> QED
        BY <1>1, <3>1 DEF TreeSlotsFit
    <2>6. PICK b \in Nat, s \in Nat : RangesAt(tree, p)[1] = <<b, s>>
      BY <1>3
    <2>7. b < SlotBases /\ s < 65536
      BY <1>3, <2>1, <2>6 DEF TreeSlotsFit
    <2> QED
      BY <1>1, <1>3, <2>4, <2>5, <2>6, <2>7 DEF SlotKnown
  <1> QED
    BY <1>2, <1>3 DEF SlotRead

LEMMA AllIsSaid ==
  ASSUME NEW tree, Document(tree), NEW k, AllRead(tree, k), NEW s, DevicesRead(tree, k, s),
         NEW regs, NEW m, m = [FromScan(s) EXCEPT !.regions = regs]
  PROVE  TreeSaid(tree, m)
  <1>1. /\ m.uart_base = s.uart_base /\ m.virtio = s.virtio /\ m.virtio_count = s.virtio_count
        /\ m.cpu_count = s.cpu_count /\ m.gic = IF s.gic_v3 THEN s.gic_reg ELSE None
    <2>1. Taken(s, m)
      BY FromScanIs
    <2> QED
      BY <2>1, Zenon DEF Taken
  <1>2. /\ UartRead(tree, k, s.uart_base) /\ SlotRead(tree, k, s.virtio)
        /\ s.virtio_count = Cardinality(SlotsTo(tree, k)) /\ s.cpu_count = Cardinality(CpusTo(tree, k))
        /\ OneController(tree) => GicRead(tree, k, s.gic_reg) /\ V3Read(tree, k, s.gic_v3)
    BY DEF DevicesRead
  <1>3. m.uart_base = UartOf(tree)
    BY <1>1, <1>2, UartIs
  <1>4. SlotsApart(tree) => m.virtio = SlotOf(tree)
    BY <1>1, <1>2, SlotIs
  <1>5. /\ m.virtio_count = Cardinality({n \in Nodes(tree, 2, "virtio_mmio") : Values(tree, n, "reg") # {}})
        /\ m.cpu_count = Cardinality(Nodes(tree, 3, "cpu"))
    BY <1>1, <1>2, CountsRead
  <1>6. OneController(tree) => m.gic = GicOf(tree)
    <2> SUFFICES ASSUME OneController(tree)
                 PROVE  m.gic = GicOf(tree)
      OBVIOUS
    <2>1. PICK reg, v3 : reg = s.gic_reg /\ (v3 <=> s.gic_v3) /\ GicRead(tree, k, reg) /\ V3Read(tree, k, v3)
      BY <1>2, Zenon
    <2>2. (IF v3 THEN reg ELSE None) = GicOf(tree)
      BY <2>1, GicIs
    <2> QED
      BY <1>1, <2>1, <2>2
  <1>7. TreeSlotsFit(tree) => SlotKnown(m.virtio, m.virtio_count)
    <2> SUFFICES ASSUME TreeSlotsFit(tree)
                 PROVE  SlotKnown(m.virtio, m.virtio_count)
      OBVIOUS
    <2>1. PICK slot, count : slot = m.virtio /\ count = m.virtio_count
      OBVIOUS
    <2>2. SlotRead(tree, k, slot) /\ count = Cardinality(SlotsTo(tree, k))
      BY <1>1, <1>2, <2>1
    <2>3. SlotKnown(slot, count)
      BY <2>2, SlotCounted
    <2> QED
      BY <2>1, <2>3
  <1> QED
    BY <1>3, <1>4, <1>5, <1>6, <1>7 DEF TreeSaid

\* The walk's next token, of three kinds.
LEMMA WalkDevices ==
  ASSUME Walk, NEW tree, tree = input.tree, Document(tree), NEW k \in Nat, at = k + 1,
         Core(tree, k, scan), DevicesRead(tree, k, scan)
  PROVE  \/ pc' = "halted"
         \/ pc' = "open" /\ TreeSaid(tree, found')
         \/ pc' = "walk" /\ at' = at + 1 /\ DevicesRead(tree, k + 1, scan')
  <1>1. PICK len \in Nat : len = Len(tree) /\ DOMAIN tree = 1 .. len
    BY TreeIs
  <1>2. PICK token : token = IF at > Len(input.tree) THEN [t |-> "bad"] ELSE input.tree[at]
    OBVIOUS
  <1>3. at <= len => token = tree[at] /\ at \in DOMAIN tree
    BY <1>1, <1>2
  <1>4. ~(at <= len) => token.t = "bad"
    BY <1>1, <1>2
  <1>5. CASE token.t = "bad"
    BY <1>2, <1>5 DEF Walk, Halt
  <1>6. CASE token.t = "stop"
    <2>1. at <= len /\ token = tree[at] /\ at \in DOMAIN tree
      BY <1>3, <1>4, <1>6
    <2>2. found' = Reserving(FromScan(scan), Image[1], Image[2]) /\ pc' = "open"
      BY <1>2, <1>6 DEF Walk
    <2>3. PICK regs : found' = [FromScan(scan) EXCEPT !.regions = regs]
      BY <2>2, Zenon DEF Reserving
    <2>4. at = len
      BY <1>1, <1>6, <2>1, TokenIs
    <2>5. AllRead(tree, k)
      <3>1. \A p \in DOMAIN tree : tree[p].t \in {"prop", "node"} => p # at
        BY <1>6, <2>1
      <3> QED
        BY <1>1, <2>4, <3>1 DEF AllRead
    <2>6. TreeSaid(tree, found')
      BY <2>3, <2>5, AllIsSaid
    <2> QED
      BY <2>2, <2>6
  <1>7. CASE token.t \notin {"stop", "bad"}
    <2>1. at <= len /\ token = tree[at] /\ at \in DOMAIN tree
      BY <1>3, <1>4, <1>7
    <2>2. scan' = Event(scan, token) /\ at' = at + 1 /\ pc' = pc /\ pc = "walk"
      BY <1>2, <1>7 DEF Walk
    <2>3. Core(tree, k + 1, scan') /\ Told(tree, k + 1, scan, scan')
      BY <1>7, <2>1, <2>2, TokenTold
    <2>4. DevicesRead(tree, k + 1, scan')
      BY <2>1, <2>3, DevicesNext
    <2> QED
      BY <2>2, <2>4
  <1> QED
    BY <1>5, <1>6, <1>7

-----------------------------------------------------------------------------
(* A command line, word by word.                                             *)

\* What a fold has made of the first k + 1 places is what it makes of the next.
LEMMA Upto ==
  ASSUME NEW n \in Nat, NEW k \in Nat, k < n
  PROVE  /\ 1 .. k + 1 \in SUBSET (1 .. n) /\ 1 .. k + 1 # {}
         /\ Max(1 .. k + 1) = k + 1 /\ (1 .. k + 1) \ {k + 1} = 1 .. k
  <1>1. PICK s : s = 1 .. k + 1
    OBVIOUS
  <1>2. k + 1 \in s /\ s # {}
    BY <1>1
  <1>4. s \in SUBSET (1 .. k + 1)
    BY <1>1
  <1>5. s \in SUBSET (1 .. n)
    BY <1>1
  <1>3. Max(s) = k + 1
    BY <1>2, <1>4, GreatestIs
  <1>6. s \ {k + 1} = 1 .. k
    BY <1>1
  <1> QED
    BY <1>1, <1>2, <1>3, <1>5, <1>6

-----------------------------------------------------------------------------
(* The verbs.                                                                *)

IsVerbs(f, words) ==
  f = [s \in SUBSET (DOMAIN words) |->
         IF s = {} THEN <<>>
         ELSE IF words[Max(s)] = Verb("") THEN f[s \ {Max(s)}] ELSE Append(f[s \ {Max(s)}], words[Max(s)])]

LEMMA VerbsAre ==
  ASSUME NEW words
  PROVE  Verbs(words) = (CHOOSE f : IsVerbs(f, words))[DOMAIN words]
  BY Zenon DEF Verbs, FoldLeft, MapThenFoldSet, IsVerbs

LEMMA VerbsTyped ==
  ASSUME NEW S, NEW words \in Seq(S)
  PROVE  Verbs(words) \in Seq(S)
  <1>1. PICK n \in Nat : DOMAIN words = 1 .. n /\ \A i \in 1 .. n : words[i] \in S
    <2>1. Len(words) \in Nat /\ DOMAIN words = 1 .. Len(words) /\ \A i \in 1 .. Len(words) : words[i] \in S
      OBVIOUS
    <2> QED
      BY <2>1
  <1>2. PICK empty : empty = Verb("")
    BY Zenon
  <1> DEFINE step == [p \in Seq(S) \X S |-> IF p[2] = empty THEN p[1] ELSE Append(p[1], p[2])]
  <1>3. step \in [Seq(S) \X S -> Seq(S)]
    OBVIOUS
  <1>4. \A a \in Seq(S), b \in S : step[<<a, b>>] = IF b = empty THEN a ELSE Append(a, b)
    OBVIOUS
  <1> HIDE DEF step
  <1>5. <<>> \in Seq(S)
    OBVIOUS
  <1>6. PICK f \in [SUBSET (1 .. n) -> Seq(S)] : IsFold(f, n, <<>>, step, words)
    BY <1>1, <1>3, <1>5, FoldExists
  <1>7. ASSUME NEW g \in [SUBSET (1 .. n) -> Seq(S)], NEW s \in SUBSET (1 .. n), s # {}
        PROVE  /\ g[s \ {Max(s)}] \in Seq(S) /\ words[Max(s)] \in S
               /\ step[<<g[s \ {Max(s)}], words[Max(s)]>>] =
                    IF words[Max(s)] = empty THEN g[s \ {Max(s)}] ELSE Append(g[s \ {Max(s)}], words[Max(s)])
    <2>1. Max(s) \in s
      BY <1>7, GreatestMember
    <2>2. s \ {Max(s)} \in SUBSET (1 .. n) /\ Max(s) \in 1 .. n
      BY <2>1
    <2>3. PICK a \in Seq(S), b \in S : TRUE
      BY <1>1, <1>5, <2>2
    <2>4. g[s \ {Max(s)}] \in Seq(S) /\ words[Max(s)] \in S
      BY <1>1, <2>2
    <2> QED
      BY <1>4, <2>4
  <1> DEFINE Body(g) == [s \in SUBSET (1 .. n) |->
                           IF s = {} THEN <<>>
                           ELSE IF words[Max(s)] = empty THEN g[s \ {Max(s)}]
                           ELSE Append(g[s \ {Max(s)}], words[Max(s)])]
  <1>8. \A g : IsVerbs(g, words) <=> g = Body(g)
    BY <1>1, <1>2, Zenon DEF IsVerbs
  <1>9. f = Body(f)
    <2>1. f = [s \in SUBSET (1 .. n) |-> f[s]]
      OBVIOUS
    <2>2. \A s \in SUBSET (1 .. n) :
            f[s] = IF s = {} THEN <<>>
                   ELSE IF words[Max(s)] = empty THEN f[s \ {Max(s)}]
                   ELSE Append(f[s \ {Max(s)}], words[Max(s)])
      <3> TAKE s \in SUBSET (1 .. n)
      <3>1. f[s] = IF s = {} THEN <<>> ELSE step[<<f[s \ {Max(s)}], words[Max(s)]>>]
        BY <1>6 DEF IsFold
      <3> QED
        BY <1>7, <3>1
    <2> QED
      BY <2>1, <2>2
  <1>10. PICK h : h = CHOOSE g : IsVerbs(g, words)
    OBVIOUS
  <1>11. h = Body(h)
    <2>1. IsVerbs(f, words)
      BY <1>8, <1>9
    <2>2. IsVerbs(h, words)
      BY <1>10, <2>1, Zenon
    <2> QED
      BY <1>8, <2>2
  <1>12. h[1 .. 0] = <<>>
    <2>1. 1 .. 0 = {} /\ {} \in SUBSET (1 .. n)
      OBVIOUS
    <2> QED
      BY <1>11, <2>1
  <1>13. ASSUME NEW k \in Nat, k < n, h[1 .. k] \in Seq(S)
         PROVE  h[1 .. k + 1] \in Seq(S)
    <2>1. h[1 .. k + 1] = IF words[k + 1] = empty THEN h[1 .. k] ELSE Append(h[1 .. k], words[k + 1])
      <3>1. PICK s \in SUBSET (1 .. n) : s = 1 .. k + 1 /\ s # {} /\ Max(s) = k + 1 /\ s \ {k + 1} = 1 .. k
        BY <1>13, Upto
      <3>2. h[s] = IF words[Max(s)] = empty THEN h[s \ {Max(s)}] ELSE Append(h[s \ {Max(s)}], words[Max(s)])
        BY <1>11, <3>1
      <3> QED
        BY <3>1, <3>2
    <2>2. words[k + 1] \in S
      BY <1>1, <1>13
    <2> QED
      BY <1>13, <2>1, <2>2
  <1>14. h[1 .. n] \in Seq(S)
    <2> DEFINE bad == {k \in 0 .. n : h[1 .. k] \notin Seq(S)}
    <2>1. CASE bad # {}
      <3>1. PICK k \in bad : \A j \in bad : k <= j
        <4>1. bad \in SUBSET Nat
          OBVIOUS
        <4> QED
          BY <2>1, <4>1, LeastMember
      <3>2. k # 0
        BY <1>5, <1>12, <3>1
      <3>3. PICK j \in Nat : k = j + 1 /\ j < n
        BY <3>1, <3>2
      <3>4. j \notin bad /\ j \in 0 .. n
        BY <3>1, <3>3
      <3> QED
        BY <1>13, <3>1, <3>3, <3>4
    <2>2. CASE bad = {}
      <3>1. n \in 0 .. n
        OBVIOUS
      <3> QED
        BY <2>2, <3>1
    <2> QED
      BY <2>1, <2>2
  <1> QED
    BY <1>1, <1>10, <1>14, VerbsAre

-----------------------------------------------------------------------------
(* The slots of a command line.                                              *)

\* The entries give numbers, and no two are the same.
LinePlain(words) ==
  /\ \A i \in DOMAIN words : IsEntry(words[i]) => words[i].base \in Nat /\ words[i].size \in Nat
  /\ \A i, j \in DOMAIN words : IsEntry(words[i]) /\ words[i] = words[j] => i = j

EntryPlaces(words, k) == {i \in 1 .. k : IsEntry(words[i])}

SlotTo(words, k, slot) ==
  \/ slot = None /\ EntryPlaces(words, k) = {}
  \/ \E p \in EntryPlaces(words, k) :
       /\ slot = <<[base |-> words[p].base, size |-> words[p].size,
                    count |-> Cardinality(EntryPlaces(words, k))]>>
       /\ \A q \in EntryPlaces(words, k) : words[p].base <= words[q].base

LEMMA PlacesNext ==
  ASSUME NEW words, NEW k \in Nat
  PROVE  /\ IsFiniteSet(EntryPlaces(words, k)) /\ Cardinality(EntryPlaces(words, k)) \in Nat
         /\ ~IsEntry(words[k + 1]) => EntryPlaces(words, k + 1) = EntryPlaces(words, k)
         /\ IsEntry(words[k + 1]) =>
              /\ EntryPlaces(words, k + 1) = EntryPlaces(words, k) \cup {k + 1}
              /\ Cardinality(EntryPlaces(words, k + 1)) = Cardinality(EntryPlaces(words, k)) + 1
  <1>1. PICK now, next : now = EntryPlaces(words, k) /\ next = EntryPlaces(words, k + 1)
    OBVIOUS
  <1>2. IsFiniteSet(now)
    <2>1. IsFiniteSet(1 .. k) /\ now \subseteq 1 .. k
      BY <1>1, FS_Interval DEF EntryPlaces
    <2> QED
      BY <2>1, FS_Subset
  <1>3. Cardinality(now) \in Nat
    BY <1>2, FS_CardinalityType
  <1>4. \A i : i \in 1 .. k + 1 <=> i \in 1 .. k \/ i = k + 1
    OBVIOUS
  <1>5. ~IsEntry(words[k + 1]) => next = now
    BY <1>1, <1>4 DEF EntryPlaces
  <1>6. IsEntry(words[k + 1]) => next = now \cup {k + 1}
    BY <1>1, <1>4 DEF EntryPlaces
  <1>7. k + 1 \notin now
    BY <1>1 DEF EntryPlaces
  <1>8. Cardinality(now \cup {k + 1}) = Cardinality(now) + 1
    BY <1>2, <1>7, FS_AddElement
  <1> QED
    BY <1>1, <1>2, <1>3, <1>5, <1>6, <1>8

LEMMA SlotToNext ==
  ASSUME NEW words, NEW k \in Nat, NEW n \in Nat, DOMAIN words = 1 .. n, k < n, LinePlain(words),
         NEW slot, SlotTo(words, k, slot)
  PROVE  SlotTo(words, k + 1, VirtioSlot(slot, words[k + 1]))
  <1>1. PICK w, next, now, places : /\ w = words[k + 1] /\ next = VirtioSlot(slot, w)
                                    /\ now = EntryPlaces(words, k) /\ places = EntryPlaces(words, k + 1)
    OBVIOUS
  <1>2. CASE ~IsEntry(w)
    <2>1. places = now
      BY <1>1, <1>2, PlacesNext
    <2>2. next = slot
      BY <1>1, <1>2 DEF VirtioSlot
    <2> QED
      BY <1>1, <2>1, <2>2 DEF SlotTo
  <1>3. CASE IsEntry(w)
    <2>1. PICK c \in Nat : c = Cardinality(now)
      BY <1>1, PlacesNext
    <2>2. places = now \cup {k + 1} /\ Cardinality(places) = c + 1
      BY <1>1, <1>3, <2>1, PlacesNext
    <2>3. PICK b \in Nat, s \in Nat : b = w.base /\ s = w.size
      <3>1. k + 1 \in DOMAIN words
        OBVIOUS
      <3> QED
        BY <1>1, <1>3, <3>1 DEF LinePlain
    <2>4. \A q \in now : q \in DOMAIN words /\ words[q].base \in Nat
      BY <1>1 DEF LinePlain, EntryPlaces
    <2>5. CASE slot = None /\ now = {}
      <3>1. next = <<[base |-> w.base, size |-> w.size, count |-> 1]>>
        BY <1>1, <1>3, <2>5 DEF VirtioSlot
      <3>2. c = 0
        BY <2>1, <2>5, FS_EmptySet
      <3>3. places = {k + 1} /\ Cardinality(places) = 1
        BY <2>2, <2>5, <3>2
      <3> QED
        BY <1>1, <2>3, <3>1, <3>3 DEF SlotTo
    <2>6. ASSUME NEW p \in now, slot = <<[base |-> words[p].base, size |-> words[p].size, count |-> c]>>,
                 \A q \in now : words[p].base <= words[q].base
          PROVE  SlotTo(words, k + 1, next)
      <3>1. slot # None /\ slot[1].base = words[p].base /\ slot[1].count = c
        BY <2>6 DEF None
      <3>2. words[p].base \in Nat
        BY <2>4
      <3>3. CASE words[p].base < b
        <4>1. next = <<[slot[1] EXCEPT !.count = @ + 1]>>
          BY <1>1, <1>3, <2>3, <3>1, <3>3 DEF VirtioSlot
        <4>2. next = <<[base |-> words[p].base, size |-> words[p].size, count |-> c + 1]>>
          BY <2>6, <4>1
        <4>3. \A q \in places : words[p].base <= words[q].base
          BY <1>1, <2>2, <2>3, <2>6, <3>2, <3>3
        <4> QED
          BY <1>1, <2>2, <4>2, <4>3 DEF SlotTo
      <3>4. CASE ~(words[p].base < b)
        <4>1. next = <<[base |-> w.base, size |-> w.size, count |-> c + 1]>>
          BY <1>1, <1>3, <2>3, <3>1, <3>4 DEF VirtioSlot
        <4>2. \A q \in places : b <= words[q].base
          BY <1>1, <2>2, <2>3, <2>4, <2>6, <3>2, <3>4
        <4> QED
          BY <1>1, <2>2, <2>3, <4>1, <4>2 DEF SlotTo
      <3> QED
        BY <3>3, <3>4
    <2> QED
      BY <1>1, <2>1, <2>5, <2>6 DEF SlotTo
  <1> QED
    BY <1>1, <1>2, <1>3

IsSlots(f, words) ==
  f = [s \in SUBSET (DOMAIN words) |->
         IF s = {} THEN None ELSE VirtioSlot(f[s \ {Max(s)}], words[Max(s)])]

LEMMA SlotsFolded ==
  ASSUME NEW words
  PROVE  VirtioSlots(words) = (CHOOSE f : IsSlots(f, words))[DOMAIN words]
  BY Zenon DEF VirtioSlots, FoldLeft, MapThenFoldSet, IsSlots

\* What a fold of the slots goes through.
SlotValues ==
  {None} \cup {<<[base |-> v[1], size |-> v[2], count |-> v[3]]>> : v \in Nat \X Nat \X Nat}

LEMMA SlotValue ==
  ASSUME NEW slot \in SlotValues, NEW w, IsEntry(w) => w.base \in Nat /\ w.size \in Nat
  PROVE  VirtioSlot(slot, w) \in SlotValues
  <1>1. \A b, s, c \in Nat : <<[base |-> b, size |-> s, count |-> c]>> \in SlotValues
    <2> TAKE b, s, c \in Nat
    <2>1. PICK v \in Nat \X Nat \X Nat : v[1] = b /\ v[2] = s /\ v[3] = c
      <3>1. <<b, s, c>> \in Nat \X Nat \X Nat
        OBVIOUS
      <3> QED
        BY <3>1
    <2> QED
      BY <2>1 DEF SlotValues
  <1>2. CASE ~IsEntry(w)
    BY <1>2 DEF VirtioSlot
  <1>3. CASE IsEntry(w) /\ slot = None
    <2>1. VirtioSlot(slot, w) = <<[base |-> w.base, size |-> w.size, count |-> 1]>>
      BY <1>3 DEF VirtioSlot
    <2> QED
      BY <1>1, <1>3, <2>1
  <1>4. CASE IsEntry(w) /\ slot # None
    <2>1. PICK v \in Nat \X Nat \X Nat : slot = <<[base |-> v[1], size |-> v[2], count |-> v[3]]>>
      BY <1>4 DEF SlotValues
    <2>2. PICK b \in Nat, s \in Nat, c \in Nat : slot = <<[base |-> b, size |-> s, count |-> c]>>
      BY <2>1
    <2>3. slot[1] = [base |-> b, size |-> s, count |-> c] /\ slot[1].base = b /\ slot[1].count = c
      BY <2>2
    <2>4. CASE b < w.base
      <3>1. VirtioSlot(slot, w) = <<[base |-> b, size |-> s, count |-> c + 1]>>
        BY <1>4, <2>3, <2>4 DEF VirtioSlot
      <3> QED
        BY <1>1, <3>1
    <2>5. CASE ~(b < w.base)
      <3>1. VirtioSlot(slot, w) = <<[base |-> w.base, size |-> w.size, count |-> c + 1]>>
        BY <1>4, <2>3, <2>5 DEF VirtioSlot
      <3> QED
        BY <1>1, <1>4, <3>1
    <2> QED
      BY <2>4, <2>5
  <1> QED
    BY <1>2, <1>3, <1>4

LEMMA SlotsFound ==
  ASSUME NEW words, NEW n \in Nat, DOMAIN words = 1 .. n, LinePlain(words)
  PROVE  SlotTo(words, n, VirtioSlots(words))
  <1> DEFINE E == {words[i] : i \in 1 .. n}
  <1>1. \A w \in E : IsEntry(w) => w.base \in Nat /\ w.size \in Nat
    BY DEF LinePlain
  <1>2. \A i \in 1 .. n : words[i] \in E
    OBVIOUS
  <1> HIDE DEF E
  <1> DEFINE step == [p \in SlotValues \X E |-> VirtioSlot(p[1], p[2])]
  <1>3. \A a \in SlotValues, b \in E : VirtioSlot(a, b) \in SlotValues
    BY <1>1, SlotValue
  <1>4. step \in [SlotValues \X E -> SlotValues] /\ \A a \in SlotValues, b \in E : step[<<a, b>>] = VirtioSlot(a, b)
    BY <1>3
  <1> HIDE DEF step
  <1>5. None \in SlotValues
    BY DEF SlotValues
  <1>6. PICK f \in [SUBSET (1 .. n) -> SlotValues] : IsFold(f, n, None, step, words)
    BY <1>2, <1>4, <1>5, FoldExists
  <1> DEFINE Body(g) == [s \in SUBSET (1 .. n) |->
                           IF s = {} THEN None ELSE VirtioSlot(g[s \ {Max(s)}], words[Max(s)])]
  <1>7. \A g : IsSlots(g, words) <=> g = Body(g)
    BY Zenon DEF IsSlots
  <1>8. f = Body(f)
    <2>1. f = [s \in SUBSET (1 .. n) |-> f[s]]
      OBVIOUS
    <2>2. \A s \in SUBSET (1 .. n) :
            f[s] = IF s = {} THEN None ELSE VirtioSlot(f[s \ {Max(s)}], words[Max(s)])
      <3> TAKE s \in SUBSET (1 .. n)
      <3>1. f[s] = IF s = {} THEN None ELSE step[<<f[s \ {Max(s)}], words[Max(s)]>>]
        BY <1>6 DEF IsFold
      <3>2. CASE s # {}
        <4>1. Max(s) \in s
          BY <3>2, GreatestMember
        <4>2. s \ {Max(s)} \in SUBSET (1 .. n) /\ Max(s) \in 1 .. n
          BY <4>1
        <4>3. f[s \ {Max(s)}] \in SlotValues /\ words[Max(s)] \in E
          BY <1>2, <4>2
        <4> QED
          BY <1>4, <3>1, <3>2, <4>3
      <3> QED
        BY <3>1, <3>2
    <2> QED
      BY <2>1, <2>2
  <1>9. PICK h : h = CHOOSE g : IsSlots(g, words)
    OBVIOUS
  <1>10. h = Body(h)
    <2>1. IsSlots(f, words)
      BY <1>7, <1>8
    <2>2. IsSlots(h, words)
      BY <1>9, <2>1, Zenon
    <2> QED
      BY <1>7, <2>2
  <1>11. SlotTo(words, 0, h[1 .. 0])
    <2>1. 1 .. 0 = {} /\ {} \in SUBSET (1 .. n)
      OBVIOUS
    <2>2. h[1 .. 0] = None
      BY <1>10, <2>1
    <2> QED
      BY <2>1, <2>2 DEF SlotTo, EntryPlaces
  <1>12. ASSUME NEW k \in Nat, k < n, SlotTo(words, k, h[1 .. k])
         PROVE  SlotTo(words, k + 1, h[1 .. k + 1])
    <2>1. PICK s \in SUBSET (1 .. n) : s = 1 .. k + 1 /\ s # {} /\ Max(s) = k + 1 /\ s \ {k + 1} = 1 .. k
      BY <1>12, Upto
    <2>2. h[s] = VirtioSlot(h[s \ {Max(s)}], words[Max(s)])
      BY <1>10, <2>1
    <2>3. h[1 .. k + 1] = VirtioSlot(h[1 .. k], words[k + 1])
      BY <2>1, <2>2
    <2> QED
      BY <1>12, <2>3, SlotToNext
  <1>13. SlotTo(words, n, h[1 .. n])
    <2> DEFINE bad == {k \in 0 .. n : ~SlotTo(words, k, h[1 .. k])}
    <2>1. CASE bad # {}
      <3>1. PICK k \in bad : \A j \in bad : k <= j
        <4>1. bad \in SUBSET Nat
          OBVIOUS
        <4> QED
          BY <2>1, <4>1, LeastMember
      <3>2. k # 0
        BY <1>11, <3>1
      <3>3. PICK j \in Nat : k = j + 1 /\ j < n
        BY <3>1, <3>2
      <3>4. j \notin bad /\ j \in 0 .. n
        BY <3>1, <3>3
      <3> QED
        BY <1>12, <3>1, <3>3, <3>4
    <2>2. CASE bad = {}
      <3>1. n \in 0 .. n
        OBVIOUS
      <3> QED
        BY <2>2, <3>1
    <2> QED
      BY <2>1, <2>2
  <1> QED
    BY <1>9, <1>13, SlotsFolded

\* A line has as many entries as places of one.
LEMMA EntriesCounted ==
  ASSUME NEW words, NEW n \in Nat, DOMAIN words = 1 .. n, LinePlain(words)
  PROVE  /\ Entries(words) = {words[i] : i \in EntryPlaces(words, n)}
         /\ Cardinality(Entries(words)) = Cardinality(EntryPlaces(words, n))
  <1>1. PICK places, entries : places = EntryPlaces(words, n) /\ entries = Entries(words)
    OBVIOUS
  <1>2. entries = {words[i] : i \in places}
    <2>1. \A w : w \in entries <=> IsEntry(w) /\ \E i \in 1 .. n : w = words[i]
      BY <1>1 DEF Entries, ToSet
    <2>2. \A i : i \in places <=> i \in 1 .. n /\ IsEntry(words[i])
      BY <1>1 DEF EntryPlaces
    <2>3. ASSUME NEW w
          PROVE  w \in entries <=> \E i \in places : w = words[i]
      BY <2>1, <2>2
    <2> QED
      BY <2>3
  <1> DEFINE f == [i \in places |-> words[i]]
  <1>3. f \in Bijection(places, entries)
    <2>1. f \in [places -> entries]
      BY <1>2
    <2>2. \A a, b \in places : f[a] = f[b] => a = b
      <3>1. \A a, b \in places : words[a] = words[b] => a = b
        BY <1>1 DEF EntryPlaces, LinePlain
      <3> QED
        BY <3>1
    <2>3. \A t \in entries : \E i \in places : f[i] = t
      BY <1>2
    <2> HIDE DEF f
    <2> QED
      BY <2>1, <2>2, <2>3 DEF Bijection, Injection, Surjection, IsInjective
  <1>4. IsFiniteSet(places)
    BY <1>1, PlacesNext
  <1>5. Cardinality(places) = Cardinality(entries)
    <2>1. ExistsBijection(places, entries)
      BY <1>3 DEF ExistsBijection
    <2> QED
      BY <1>4, <2>1, FS_Bijection
  <1> QED
    BY <1>1, <1>2, <1>5

\* The slots a line names fit what the lab keeps of them.
LineSlotsFit(words) ==
  /\ \A i \in DOMAIN words : IsEntry(words[i]) => words[i].base < SlotBases /\ words[i].size < 65536
  /\ Cardinality(Entries(words)) < 256

LineSaid(words, virtio, count) ==
  /\ Entries(words) = {} => virtio = None
  /\ Entries(words) # {} =>
       /\ count = Cardinality(Entries(words))
       /\ \E e \in Entries(words) : /\ virtio = <<<<e.base, e.size>>>>
                                    /\ \A f \in Entries(words) : e.base <= f.base
  /\ LineSlotsFit(words) => SlotKnown(virtio, count)

LEMMA LineSlots ==
  ASSUME NEW words, NEW n \in Nat, DOMAIN words = 1 .. n, LinePlain(words),
         NEW slot, slot = VirtioSlots(words), NEW virtio, NEW count,
         virtio = IF slot = None THEN None ELSE <<<<slot[1].base, slot[1].size>>>>,
         count = IF slot = None THEN 0 ELSE slot[1].count
  PROVE  LineSaid(words, virtio, count)
  <1>1. PICK places, entries : places = EntryPlaces(words, n) /\ entries = Entries(words)
    OBVIOUS
  <1>2. PICK c \in Nat : c = Cardinality(places) /\ c = Cardinality(entries)
    BY <1>1, PlacesNext, EntriesCounted
  <1>3. entries = {words[i] : i \in places}
    BY <1>1, EntriesCounted
  <1>4. SlotTo(words, n, slot)
    BY SlotsFound
  <1>5. CASE slot = None /\ places = {}
    <2>1. entries = {} /\ virtio = None
      BY <1>3, <1>5
    <2> QED
      BY <1>1, <2>1 DEF LineSaid, SlotKnown
  <1>6. ASSUME NEW p \in places, slot = <<[base |-> words[p].base, size |-> words[p].size, count |-> c]>>,
               \A q \in places : words[p].base <= words[q].base
        PROVE  LineSaid(words, virtio, count)
    <2>1. p \in DOMAIN words /\ IsEntry(words[p])
      BY <1>1 DEF EntryPlaces
    <2>2. PICK b \in Nat, s \in Nat : b = words[p].base /\ s = words[p].size
      BY <2>1 DEF LinePlain
    <2>3. slot # None /\ slot[1] = [base |-> b, size |-> s, count |-> c]
      BY <1>6, <2>2 DEF None
    <2>4. virtio = <<<<b, s>>>> /\ count = c
      BY <2>3
    <2>5. words[p] \in entries /\ \A f \in entries : b <= f.base
      BY <1>3, <1>6, <2>2
    <2>6. entries # {} /\ c # 0
      <3>1. IsFiniteSet(places)
        BY <1>1, PlacesNext
      <3>2. c # 0
        BY <1>2, <1>6, <3>1, FS_EmptySet
      <3> QED
        BY <2>5, <3>2
    <2>7. LineSlotsFit(words) => SlotKnown(virtio, count)
      <3> SUFFICES ASSUME LineSlotsFit(words)
                   PROVE  SlotKnown(virtio, count)
        OBVIOUS
      <3>1. b < SlotBases /\ s < 65536 /\ c < 256
        BY <1>1, <1>2, <2>1, <2>2 DEF LineSlotsFit
      <3> QED
        BY <2>4, <2>6, <3>1 DEF SlotKnown
    <2> QED
      BY <1>1, <1>2, <2>2, <2>4, <2>5, <2>6, <2>7 DEF LineSaid
  <1> QED
    BY <1>1, <1>2, <1>4, <1>5, <1>6 DEF SlotTo

-----------------------------------------------------------------------------
(* What the user wrote.                                                      *)

\* The loader appends entries, and after the boot script begins the user has none.
LineEnds(user, appended) ==
  /\ \A i \in DOMAIN appended : IsAppended(appended[i])
  /\ \A i, j \in DOMAIN user : user[i] = Run /\ i < j => ~IsAppended(user[j])

LEMMA NoEntryRuns ==
  ASSUME NEW w, IsAppended(w)
  PROVE  w # Run
  <1>1. Run = [text |-> "mlsh.run="]
    BY Zenon DEF Run, Verb
  <1>2. "base" \notin DOMAIN Run
    BY <1>1
  <1>3. PICK v : v = Verb("virtio_mmio.device=?")
    BY Zenon
  <1>4. v = [text |-> "virtio_mmio.device=?"]
    BY <1>3, Zenon DEF Verb
  <1>5. v.text # Run.text
    BY <1>1, <1>4
  <1> QED
    BY <1>2, <1>3, <1>5, Zenon DEF IsAppended

LEMMA RestOfUser ==
  ASSUME NEW S, NEW user \in Seq(S), NEW appended \in Seq(S), LineEnds(user, appended)
  PROVE  Rest(UserArgs(user \o appended)) = Rest(user)
  <1> DEFINE words == user \o appended
             runs(s) == {i \in DOMAIN s : s[i] = Run}
  <1>1. PICK m \in Nat, n \in Nat : m = Len(user) /\ n = Len(appended)
    OBVIOUS
  <1>2. /\ words \in Seq(S) /\ Len(words) = m + n /\ DOMAIN words = 1 .. m + n /\ DOMAIN user = 1 .. m
        /\ DOMAIN appended = 1 .. n
        /\ \A i \in 1 .. m : words[i] = user[i]
        /\ \A i \in m + 1 .. m + n : words[i] = appended[i - m] /\ i - m \in 1 .. n
    BY <1>1
  <1>3. PICK all, mine : all = runs(words) /\ mine = runs(user)
    OBVIOUS
  <1>4. \A i \in m + 1 .. m + n : IsAppended(words[i])
    BY <1>2 DEF LineEnds
  <1>5. \A i \in m + 1 .. m + n : words[i] # Run
    BY <1>4, NoEntryRuns
  <1> HIDE DEF words
  <1>6. all = mine
    <2>1. \A i : i \in all <=> i \in 1 .. m + n /\ words[i] = Run
      BY <1>2, <1>3
    <2>2. \A i : i \in mine <=> i \in 1 .. m /\ user[i] = Run
      BY <1>2, <1>3
    <2>3. \A i \in 1 .. m + n : i \in 1 .. m \/ i \in m + 1 .. m + n
      OBVIOUS
    <2>4. \A i \in 1 .. m : i \in 1 .. m + n
      OBVIOUS
    <2>5. ASSUME NEW i
          PROVE  i \in all <=> i \in mine
      BY <1>2, <1>5, <2>1, <2>2, <2>3, <2>4
    <2> QED
      BY <2>5
  <1> DEFINE cut == {i \in DOMAIN words : all # {} /\ i > Min(all) /\ IsAppended(words[i])}
  <1>7. UserArgs(words) = IF cut = {} THEN words ELSE SubSeq(words, 1, Min(cut) - 1)
    BY <1>3, Zenon DEF UserArgs
  <1>8. \A s : Rest(s) = IF runs(s) = {} THEN <<>> ELSE SubSeq(s, Min(runs(s)) + 1, Len(s))
    BY Zenon DEF Rest
  <1>9. CASE all = {}
    <2>1. cut = {}
      BY <1>9
    <2>2. UserArgs(words) = words
      BY <1>7, <2>1
    <2>3. Rest(words) = <<>> /\ Rest(user) = <<>>
      BY <1>3, <1>6, <1>8, <1>9
    <2> QED
      BY <2>2, <2>3 DEF words
  <1>10. CASE all # {}
    <2>1. PICK r \in 1 .. m : r = Min(all) /\ user[r] = Run
      <3>1. \A i \in mine : i \in 1 .. m /\ user[i] = Run
        BY <1>2, <1>3
      <3>2. mine \in SUBSET Nat /\ mine # {}
        BY <1>6, <1>10, <3>1
      <3>3. Min(mine) \in mine
        BY <3>2, LeastMember
      <3> QED
        BY <1>6, <3>1, <3>3
    <2>2. \A i : i \in cut <=> i \in m + 1 .. m + n
      <3>1. \A i : i \in cut <=> i \in 1 .. m + n /\ i > r /\ IsAppended(words[i])
        BY <1>2, <1>10, <2>1
      <3> HIDE DEF cut
      <3>2. \A i \in 1 .. m : i > r => ~IsAppended(words[i])
        BY <1>2, <2>1 DEF LineEnds
      <3>3. \A i \in 1 .. m + n : i \in 1 .. m \/ i \in m + 1 .. m + n
        OBVIOUS
      <3>4. \A i \in m + 1 .. m + n : i \in 1 .. m + n /\ i > r
        OBVIOUS
      <3>5. ASSUME NEW i
            PROVE  i \in cut <=> i \in m + 1 .. m + n
        BY <1>4, <3>1, <3>2, <3>3, <3>4
      <3> QED
        BY <3>5
    <2> HIDE DEF cut
    <2>3. UserArgs(words) = user
      <3>1. CASE n = 0
        <4>1. cut = {}
          BY <2>2, <3>1
        <4>2. words = user
          BY <1>1, <1>2, <3>1
        <4> QED
          BY <1>7, <4>1, <4>2
      <3>2. CASE n # 0
        <4>1. m + 1 \in cut /\ cut \in SUBSET Nat
          BY <2>2, <3>2
        <4>2. Min(cut) = m + 1
          <5>1. Min(cut) \in cut /\ Min(cut) <= m + 1
            BY <4>1, LeastMember
          <5>2. Min(cut) \in m + 1 .. m + n
            BY <2>2, <5>1
          <5> QED
            BY <5>1, <5>2
        <4>3. UserArgs(words) = SubSeq(words, 1, m)
          BY <1>7, <4>1, <4>2
        <4>4. SubSeq(words, 1, m) = user
          BY <1>1, <1>2
        <4> QED
          BY <4>3, <4>4
      <3> QED
        BY <3>1, <3>2
    <2> QED
      BY <2>3 DEF words
  <1> QED
    BY <1>9, <1>10

-----------------------------------------------------------------------------
(* The machine, from the loader to the shell.                                *)

\* aarch64: what the scan reads, and then what the machine has.
TreeFound ==
  Arm /\ Document(input.tree) =>
    /\ pc \in {"probe", "walk"} => DevicesRead(input.tree, at - 1, scan)
    /\ pc \notin {"probe", "walk", "halted", "lost"} => TreeSaid(input.tree, found)

LEMMA TreeFoundStep ==
  ASSUME TreeFound, TreeInv, UpInv, [Next]_vars
  PROVE  TreeFound'
  <1>1. UNCHANGED input
    BY DEF Next, BootStep, Type, Expire, Take, Probe, Walk, Open, EnableIdentityMap, Discover,
           CarveNext, Install, Route, ArmTimer, EnableLapic, RouteCom, StartTimer, StartShell, RunScript,
           Poll, vars
  <1> SUFFICES ASSUME Arm, NEW tree, tree = input.tree, tree = input'.tree, Document(tree)
               PROVE  /\ pc' \in {"probe", "walk"} => DevicesRead(tree, at' - 1, scan')
                      /\ pc' \notin {"probe", "walk", "halted", "lost"} => TreeSaid(tree, found')
    BY <1>1 DEF TreeFound, Arm
  <1>2. /\ pc \in {"probe", "walk"} => DevicesRead(tree, at - 1, scan)
        /\ pc \notin {"probe", "walk", "halted", "lost"} => TreeSaid(tree, found)
        /\ pc \in {"probe", "walk"} => Reading(tree, at - 1, scan) /\ at \in Nat
    BY DEF TreeFound, TreeInv
  <1>3. CASE Probe
    <2>1. UNCHANGED <<at, scan>> /\ pc = "probe" /\ (pc' = "walk" \/ pc' = "halted")
      BY <1>3 DEF Probe, Halt
    <2> QED
      BY <1>2, <2>1
  <1>4. CASE Walk
    <2>1. pc = "walk"
      BY <1>4 DEF Walk
    <2>2. PICK k \in Nat : at = k + 1 /\ k = at - 1 /\ DevicesRead(tree, k, scan) /\ Core(tree, k, scan)
      <3>1. at - 1 \in Nat /\ at \in Nat /\ Core(tree, at - 1, scan) /\ DevicesRead(tree, at - 1, scan)
        BY <1>2, <2>1 DEF Reading
      <3> QED
        BY <3>1
    <2>3. \/ pc' = "halted"
          \/ pc' = "open" /\ TreeSaid(tree, found')
          \/ pc' = "walk" /\ at' = at + 1 /\ DevicesRead(tree, k + 1, scan')
      BY <1>4, <2>2, WalkDevices
    <2>4. (at + 1) - 1 = k + 1
      BY <2>2
    <2> QED
      BY <2>3, <2>4
  <1>5. CASE Open \/ EnableIdentityMap \/ Install \/ Route \/ ArmTimer \/ StartShell \/ RunScript
    <2>1. UNCHANGED found
      BY <1>5 DEF Open, EnableIdentityMap, Install, Route, ArmTimer, StartShell, RunScript
    <2>2. pc \notin {"probe", "walk", "halted", "lost"}
      BY <1>5 DEF Open, EnableIdentityMap, Install, Route, ArmTimer, StartShell, RunScript
    <2>3. pc' \notin {"probe", "walk"}
      BY <1>5, <2>2 DEF Open, EnableIdentityMap, Install, Route, ArmTimer, StartShell, RunScript, Halt
    <2> QED
      BY <1>2, <2>1, <2>2, <2>3
  <1>6. CASE Type \/ Expire \/ Take(TimerIrq) \/ Take(UartIrq) \/ UNCHANGED vars
    <2>1. UNCHANGED <<at, scan, found>> /\ (pc' = pc \/ pc' = "lost")
      BY <1>6 DEF Type, Expire, Take, vars
    <2> QED
      BY <1>2, <2>1
  <1>7. pc \in ArmSteps
    BY DEF UpInv, ArmUp
  <1>8. ~(Discover \/ CarveNext \/ EnableLapic \/ RouteCom \/ StartTimer \/ Poll)
    BY <1>7 DEF Discover, CarveNext, EnableLapic, RouteCom, StartTimer, Poll, ArmSteps
  <1> QED
    BY <1>3, <1>4, <1>5, <1>6, <1>8 DEF Next, BootStep

\* x86_64: what discover makes of a command line.
LineMachine(line, m) ==
  \E regions, dropped, slot :
    /\ slot = VirtioSlots(line)
    /\ m = [regions |-> regions, cpu_count |-> 1, uart_base |-> None, uart_irq |-> None,
            virtio |-> IF slot = None THEN None ELSE <<<<slot[1].base, slot[1].size>>>>,
            virtio_count |-> IF slot = None THEN 0 ELSE slot[1].count,
            args |-> UserArgs(line), gic |-> None, dropped |-> dropped]

LineFound ==
  ~Arm =>
    /\ pc \in {"install", "discover"} => found = NoMachine
    /\ pc = "carve" => LineMachine(CommandLine, found)
    /\ found = NoMachine \/ LineMachine(CommandLine, found)

LEMMA DiscoverLine ==
  ASSUME Discover, found = NoMachine
  PROVE  \/ pc' = "carve" /\ LineMachine(CommandLine, found')
         \/ pc' = "arm" /\ found' = found
  <1>1. CASE StartInfo
    <2> DEFINE records == IF Seen(input.memmap, Len(input.records) * EntryLen)
                          THEN PvhRegions(input.records) ELSE <<>>
    <2>1. PICK regs, drop, slot, args :
            /\ regs = Pushed(records) /\ drop = Len(records) - Len(Pushed(records))
            /\ slot = VirtioSlots(CommandLine) /\ args = UserArgs(CommandLine)
      OBVIOUS
    <2>2. found' = [NoMachine EXCEPT
                      !.regions = regs, !.dropped = drop, !.cpu_count = 1,
                      !.virtio = IF slot = None THEN None ELSE <<<<slot[1].base, slot[1].size>>>>,
                      !.virtio_count = IF slot = None THEN 0 ELSE slot[1].count,
                      !.args = args]
      BY <1>1, <2>1, Zenon DEF Discover
    <2> HIDE DEF records
    <2>3. found' = [regions |-> regs, cpu_count |-> 1, uart_base |-> None, uart_irq |-> None,
                    virtio |-> IF slot = None THEN None ELSE <<<<slot[1].base, slot[1].size>>>>,
                    virtio_count |-> IF slot = None THEN 0 ELSE slot[1].count,
                    args |-> args, gic |-> None, dropped |-> drop]
      BY <2>2 DEF NoMachine
    <2>4. pc' = "carve"
      BY <1>1 DEF Discover
    <2> QED
      BY <2>1, <2>3, <2>4, Zenon DEF LineMachine
  <1>2. CASE ~StartInfo
    BY <1>2 DEF Discover
  <1> QED
    BY <1>1, <1>2

LEMMA CarveLine ==
  ASSUME CarveNext, NEW line, LineMachine(line, found)
  PROVE  LineMachine(line, found') /\ pc' \in {"carve", "arm"}
  <1>1. PICK regs : found' = [found EXCEPT !.regions = regs]
    BY Zenon DEF CarveNext
  <1>2. PICK regions, dropped, slot, virtio, count, args :
          /\ slot = VirtioSlots(line)
          /\ virtio = IF slot = None THEN None ELSE <<<<slot[1].base, slot[1].size>>>>
          /\ count = IF slot = None THEN 0 ELSE slot[1].count
          /\ args = UserArgs(line)
          /\ found = [regions |-> regions, cpu_count |-> 1, uart_base |-> None, uart_irq |-> None,
                      virtio |-> virtio, virtio_count |-> count, args |-> args, gic |-> None,
                      dropped |-> dropped]
    BY Zenon DEF LineMachine
  <1>3. found' = [regions |-> regs, cpu_count |-> 1, uart_base |-> None, uart_irq |-> None,
                  virtio |-> virtio, virtio_count |-> count, args |-> args, gic |-> None, dropped |-> dropped]
    BY <1>1, <1>2
  <1>4. pc' \in {"carve", "arm"}
    BY DEF CarveNext
  <1> QED
    BY <1>2, <1>3, <1>4 DEF LineMachine

LEMMA LineFoundStep ==
  ASSUME LineFound, UpInv, [Next]_vars
  PROVE  LineFound'
  <1>1. UNCHANGED input
    BY DEF Next, BootStep, Type, Expire, Take, Probe, Walk, Open, EnableIdentityMap, Discover,
           CarveNext, Install, Route, ArmTimer, EnableLapic, RouteCom, StartTimer, StartShell, RunScript,
           Poll, vars
  <1>2. CommandLine' = CommandLine
    BY <1>1 DEF CommandLine, Seen
  <1> SUFFICES ASSUME ~Arm, NEW line, line = CommandLine
               PROVE  /\ pc' \in {"install", "discover"} => found' = NoMachine
                      /\ pc' = "carve" => LineMachine(line, found')
                      /\ found' = NoMachine \/ LineMachine(line, found')
    BY <1>1, <1>2 DEF LineFound, Arm
  <1>3. /\ pc \in {"install", "discover"} => found = NoMachine
        /\ pc = "carve" => LineMachine(line, found)
        /\ found = NoMachine \/ LineMachine(line, found)
    BY DEF LineFound
  <1>4. CASE Discover
    <2>1. found = NoMachine
      BY <1>3, <1>4 DEF Discover
    <2>3. \/ pc' = "carve" /\ LineMachine(CommandLine, found')
          \/ pc' = "arm" /\ found' = found
      BY <1>4, <2>1, DiscoverLine
    <2>2. \/ pc' = "carve" /\ LineMachine(line, found')
          \/ pc' = "arm" /\ found' = found
      BY <2>3
    <2> QED
      BY <2>1, <2>2
  <1>5. CASE CarveNext
    <2>1. LineMachine(line, found)
      BY <1>3, <1>5 DEF CarveNext
    <2> QED
      BY <1>5, <2>1, CarveLine
  <1>6. CASE Install
    <2>1. UNCHANGED found /\ pc = "install" /\ pc' # "carve"
      BY <1>6 DEF Install
    <2> QED
      BY <1>3, <2>1
  <1>7. CASE EnableLapic \/ RouteCom \/ StartTimer \/ StartShell \/ RunScript \/ Poll
    <2>1. UNCHANGED found
      BY <1>7 DEF EnableLapic, RouteCom, StartTimer, StartShell, RunScript, Poll
    <2>2. pc' \notin {"install", "discover", "carve"}
      BY <1>7 DEF EnableLapic, RouteCom, StartTimer, StartShell, RunScript, Poll
    <2> QED
      BY <1>3, <2>1, <2>2
  <1>8. CASE Type \/ Expire \/ Take(TimerIrq) \/ Take(UartIrq) \/ UNCHANGED vars
    <2>1. UNCHANGED found /\ (pc' = pc \/ pc' = "lost")
      BY <1>8 DEF Type, Expire, Take, vars
    <2> QED
      BY <1>3, <2>1
  <1>9. pc \in X86Steps
    BY DEF UpInv, X86Up
  <1>10. ~(Probe \/ Walk \/ Open \/ EnableIdentityMap \/ Route \/ ArmTimer)
    BY <1>9 DEF Probe, Walk, Open, EnableIdentityMap, Route, ArmTimer, X86Steps
  <1> QED
    BY <1>4, <1>5, <1>6, <1>7, <1>8, <1>10 DEF Next, BootStep

-----------------------------------------------------------------------------
(* The shell.                                                                *)

LEMMA CutTyped ==
  ASSUME NEW S, NEW words \in Seq(S)
  PROVE  UserArgs(words) \in Seq(S) /\ Rest(words) \in Seq(S)
  <1> DEFINE runs == {i \in DOMAIN words : words[i] = Run}
             cut  == {i \in DOMAIN words : runs # {} /\ i > Min(runs) /\ IsAppended(words[i])}
  <1>1. PICK n \in Nat : n = Len(words) /\ DOMAIN words = 1 .. n
    OBVIOUS
  <1>2. runs \subseteq 1 .. n /\ cut \subseteq 1 .. n
    BY <1>1
  <1>3. /\ UserArgs(words) = IF cut = {} THEN words ELSE SubSeq(words, 1, Min(cut) - 1)
        /\ Rest(words) = IF runs = {} THEN <<>> ELSE SubSeq(words, Min(runs) + 1, n)
    BY <1>1, Zenon DEF UserArgs, Rest
  <1> HIDE DEF runs, cut
  <1>4. ASSUME NEW T \in SUBSET (1 .. n), T # {}
        PROVE  Min(T) \in 1 .. n
    <2>1. T \in SUBSET Nat
      OBVIOUS
    <2>2. Min(T) \in T
      BY <1>4, <2>1, LeastMember
    <2> QED
      BY <2>2
  <1>5. UserArgs(words) \in Seq(S)
    <2>1. CASE cut # {}
      <3>1. PICK m \in 1 .. n : m = Min(cut)
        BY <1>2, <1>4, <2>1
      <3>2. SubSeq(words, 1, m - 1) \in Seq(S)
        BY <1>1
      <3> QED
        BY <1>3, <2>1, <3>1, <3>2
    <2> QED
      BY <1>3, <2>1
  <1>6. Rest(words) \in Seq(S)
    <2>1. CASE runs # {}
      <3>1. PICK m \in 1 .. n : m = Min(runs)
        BY <1>2, <1>4, <2>1
      <3>2. SubSeq(words, m + 1, n) \in Seq(S)
        BY <1>1
      <3> QED
        BY <1>3, <2>1, <3>1, <3>2
    <2> QED
      BY <1>3, <2>1
  <1> QED
    BY <1>5, <1>6

LEMMA LineTyped ==
  ASSUME input \in Inputs, ~Arm
  PROVE  \E S : input.user \in Seq(S) /\ input.appended \in Seq(S) /\ CommandLine \in Seq(S)
  <1>1. input.user \in Seq(ToSet(input.user)) /\ input.appended \in Seq(ToSet(input.appended))
    BY InputsAssumption DEF Arm
  <1>2. PICK A, B, u, a : u = input.user /\ a = input.appended /\ u \in Seq(A) /\ a \in Seq(B)
    BY <1>1
  <1>3. PICK S : S = A \cup B
    OBVIOUS
  <1>4. u \in Seq(S) /\ a \in Seq(S)
    BY <1>2, <1>3
  <1>5. u \o a \in Seq(S) /\ <<>> \in Seq(S)
    BY <1>4
  <1>6. CommandLine \in Seq(S)
    BY <1>2, <1>5 DEF CommandLine
  <1> QED
    BY <1>2, <1>4, <1>6

Script == Verbs(Rest(found.args))

LEMMA ScriptTyped ==
  ASSUME input \in Inputs, ~Arm, LineFound
  PROVE  \E S : Script \in Seq(S)
  <1>1. PICK S : CommandLine \in Seq(S)
    BY LineTyped
  <1>2. PICK line, args : line = CommandLine /\ args = found.args
    OBVIOUS
  <1>3. args \in Seq(S)
    <2>1. CASE found = NoMachine
      BY <1>2, <2>1 DEF NoMachine
    <2>2. CASE LineMachine(line, found)
      <3>1. args = UserArgs(line)
        BY <1>2, <2>2 DEF LineMachine
      <3> QED
        BY <1>1, <1>2, <3>1, CutTyped
    <2>3. LineMachine(CommandLine, found) => LineMachine(line, found)
      BY <1>2
    <2> QED
      BY <2>1, <2>2, <2>3 DEF LineFound
  <1>4. Rest(args) \in Seq(S)
    BY <1>3, CutTyped
  <1>5. Verbs(Rest(args)) \in Seq(S)
    BY <1>4, VerbsTyped
  <1> QED
    BY <1>2, <1>5 DEF Script

Packed == Pack(found.virtio[1][1], found.virtio[1][2], found.virtio_count)

\* The lab is told the slots before the script, whose verbs run from the first on.
ShellInv ==
  /\ input \in Inputs
  /\ pc \in {"script", "loop"} /\ found.virtio # None => slots = Packed
  /\ pc \notin {"script", "loop", "lost"} => ran = <<>>
  /\ ~Arm /\ pc = "script" => Len(ran) \in Nat /\ Len(ran) <= Len(Script) /\ ran = SubSeq(Script, 1, Len(ran))
  /\ ~Arm /\ pc = "loop" /\ found # NoMachine => ran = Script

LEMMA ScriptStep ==
  ASSUME RunScript, NEW S, Script \in Seq(S),
         Len(ran) \in Nat, Len(ran) <= Len(Script), ran = SubSeq(Script, 1, Len(ran))
  PROVE  \/ /\ pc' = "script"
            /\ Len(ran') \in Nat /\ Len(ran') <= Len(Script) /\ ran' = SubSeq(Script, 1, Len(ran'))
         \/ pc' = "loop" /\ ran' = Script
  <1>1. PICK script \in Seq(S) : script = Script
    OBVIOUS
  <1>2. PICK k \in Nat, n \in Nat : k = Len(ran) /\ n = Len(script) /\ k <= n
    <2>1. Len(script) \in Nat /\ Len(ran) \in Nat /\ Len(ran) <= Len(script)
      BY <1>1
    <2> QED
      BY <2>1
  <1>3. IF k < n THEN ran' = Append(ran, script[k + 1]) /\ pc' = pc
        ELSE pc' = "loop" /\ ran' = ran
    BY <1>1, <1>2 DEF RunScript, Script
  <1>4. ran = SubSeq(script, 1, k)
    BY <1>1, <1>2
  <1>5. CASE k < n
    <2>1. Append(SubSeq(script, 1, k), script[k + 1]) = SubSeq(script, 1, k + 1)
      BY <1>2, <1>5
    <2>2. ran' = SubSeq(script, 1, k + 1)
      BY <1>3, <1>4, <1>5, <2>1
    <2>3. Len(ran') = k + 1
      BY <1>2, <1>5, <2>2
    <2>4. pc' = "script"
      BY <1>3, <1>5 DEF RunScript
    <2> QED
      BY <1>1, <1>2, <1>5, <2>2, <2>3, <2>4
  <1>6. CASE ~(k < n)
    <2>1. k = n
      <3>1. k <= n
        BY <1>2
      <3> QED
        BY <1>6, <3>1
    <2>2. SubSeq(script, 1, n) = script
      BY <1>2
    <2>3. ran = script
      BY <1>4, <2>1, <2>2
    <2> QED
      BY <1>1, <1>3, <1>6, <2>3
  <1> QED
    BY <1>5, <1>6

LEMMA ShellStep ==
  ASSUME ShellInv, LineFound, UpInv, [Next]_vars
  PROVE  ShellInv'
  <1>1. UNCHANGED input
    BY DEF Next, BootStep, Type, Expire, Take, Probe, Walk, Open, EnableIdentityMap, Discover,
           CarveNext, Install, Route, ArmTimer, EnableLapic, RouteCom, StartTimer, StartShell, RunScript,
           Poll, vars
  <1>2. Arm' <=> Arm
    BY <1>1 DEF Arm
  <1>3. CASE StartShell
    <2>1. UNCHANGED <<found, ran>> /\ pc = "shell" /\ slots' = Facts /\ pc' \in {"script", "loop"}
      BY <1>3 DEF StartShell
    <2>2. found.virtio # None => Facts = Packed
      BY DEF Facts, Packed
    <2>3. Packed' = Packed /\ Script' = Script
      BY <2>1 DEF Packed, Script
    <2>4. ran = <<>>
      BY <2>1 DEF ShellInv
    <2>5. ~Arm => (pc' = "script" \/ found = NoMachine)
      BY <1>3 DEF StartShell
    <2>6. ~Arm => Len(ran) = 0 /\ 0 <= Len(Script) /\ ran = SubSeq(Script, 1, 0)
      <3> SUFFICES ASSUME ~Arm
                   PROVE  Len(ran) = 0 /\ 0 <= Len(Script) /\ ran = SubSeq(Script, 1, 0)
        OBVIOUS
      <3>1. PICK S : Script \in Seq(S)
        BY ScriptTyped DEF ShellInv
      <3>2. PICK script \in Seq(S) : script = Script
        BY <3>1
      <3>3. 0 <= Len(script) /\ SubSeq(script, 1, 0) = <<>>
        OBVIOUS
      <3> QED
        BY <2>4, <3>2, <3>3
    <2>7. ~Arm /\ pc' = "loop" => found' = NoMachine
      BY <1>3 DEF StartShell
    <2>8. pc' \in {"script", "loop"} /\ found'.virtio # None => slots' = Packed'
      BY <2>1, <2>2, <2>3
    <2>9. ~Arm /\ pc' = "script" =>
            Len(ran') \in Nat /\ Len(ran') <= Len(Script') /\ ran' = SubSeq(Script', 1, Len(ran'))
      BY <2>1, <2>3, <2>6
    <2> QED
      BY <1>1, <1>2, <2>1, <2>7, <2>8, <2>9 DEF ShellInv
  <1>4. CASE RunScript
    <2>1. UNCHANGED <<found, slots>> /\ pc = "script" /\ (pc' = "script" \/ pc' = "loop")
      BY <1>4 DEF RunScript
    <2>2. Packed' = Packed /\ Script' = Script
      BY <2>1 DEF Packed, Script
    <2>3. pc' \in {"script", "loop"} /\ found'.virtio # None => slots' = Packed'
      BY <2>1, <2>2 DEF ShellInv
    <2>4. ASSUME ~Arm
          PROVE  \/ /\ pc' = "script"
                    /\ Len(ran') \in Nat /\ Len(ran') <= Len(Script) /\ ran' = SubSeq(Script, 1, Len(ran'))
                 \/ pc' = "loop" /\ ran' = Script
      <3>1. PICK S : Script \in Seq(S)
        BY <2>4, ScriptTyped DEF ShellInv
      <3>2. Len(ran) \in Nat /\ Len(ran) <= Len(Script) /\ ran = SubSeq(Script, 1, Len(ran))
        BY <2>1, <2>4 DEF ShellInv
      <3> QED
        BY <1>4, <3>1, <3>2, ScriptStep
    <2>5. ~Arm /\ pc' = "script" =>
            Len(ran') \in Nat /\ Len(ran') <= Len(Script') /\ ran' = SubSeq(Script', 1, Len(ran'))
      BY <2>2, <2>4
    <2>6. ~Arm /\ pc' = "loop" => ran' = Script'
      BY <2>2, <2>4
    <2> QED
      BY <1>1, <1>2, <2>1, <2>3, <2>5, <2>6 DEF ShellInv
  <1>5. CASE \/ Probe \/ Walk \/ Open \/ EnableIdentityMap \/ Discover \/ CarveNext
             \/ Install \/ Route \/ ArmTimer \/ EnableLapic \/ RouteCom \/ StartTimer
    <2>1. UNCHANGED ran /\ pc \notin {"script", "loop", "lost"}
      BY <1>5 DEF Probe, Walk, Open, EnableIdentityMap, Discover, CarveNext,
                  Install, Route, ArmTimer, EnableLapic, RouteCom, StartTimer
    <2>2. pc' \notin {"script", "loop"}
      BY <1>5, <2>1 DEF Probe, Walk, Open, EnableIdentityMap, Discover, CarveNext,
                  Install, Route, ArmTimer, EnableLapic, RouteCom, StartTimer, Halt
    <2> QED
      BY <1>1, <2>1, <2>2 DEF ShellInv
  <1>6. CASE Poll \/ Type \/ Expire \/ Take(TimerIrq) \/ Take(UartIrq) \/ UNCHANGED vars
    <2>1. UNCHANGED <<found, slots, ran>> /\ (pc' = pc \/ pc' = "lost")
      BY <1>6 DEF Poll, Type, Expire, Take, vars
    <2>2. Packed' = Packed /\ Script' = Script
      BY <2>1 DEF Packed, Script
    <2> QED
      BY <1>1, <1>2, <2>1, <2>2 DEF ShellInv
  <1> QED
    BY <1>3, <1>4, <1>5, <1>6 DEF Next, BootStep

\* Packed and taken apart again.
LEMMA Unpacked ==
  ASSUME NEW b \in Nat, NEW s \in Nat, NEW c \in Nat, b < SlotBases, s < 65536, c # 0, c < 256
  PROVE  SlotsOf(Pack(b, s, c)) = <<<<b, s, c>>>>
  <1>1. PICK high \in Nat : high = b * 65536 + s
    OBVIOUS
  <1>2. PICK packed \in Nat : packed = high * 256 + c
    OBVIOUS
  <1>3. b % SlotBases = b /\ s % 65536 = s /\ c % 256 = c
    <2>1. PICK n \in Nat \ {0} : n = SlotBases
      BY BootAssumption
    <2>2. b % n = b
      BY <2>1
    <2> QED
      BY <2>1, <2>2
  <1>4. Pack(b, s, c) = packed
    <2>1. Pack(b, s, c) = ((b % SlotBases) * 65536 + (s % 65536)) * 256 + (c % 256)
      BY DEF Pack
    <2>2. Pack(b, s, c) = (b * 65536 + s) * 256 + c
      BY <1>3, <2>1
    <2> QED
      BY <1>1, <1>2, <2>2
  <1>5. packed \div 256 = high /\ packed % 256 = c
    BY <1>2
  <1>6. high % 65536 = s /\ high \div 65536 = b
    BY <1>1
  <1>7. packed \div 16777216 = b
    <2>1. packed = b * 16777216 + (s * 256 + c)
      BY <1>1, <1>2
    <2>2. 0 <= s * 256 + c /\ s * 256 + c < 16777216
      OBVIOUS
    <2> QED
      BY <2>1, <2>2
  <1>8. packed # 0
    BY <1>2
  <1> QED
    BY <1>4, <1>5, <1>6, <1>7, <1>8 DEF SlotsOf

LEMMA Joined ==
  ASSUME NEW b \in Nat, NEW s \in Nat, NEW c \in Nat
  PROVE  <<b, s>> \o <<c>> = <<b, s, c>>
  <1>1. <<b, s>> \in Seq(Nat) /\ <<c>> \in Seq(Nat)
    OBVIOUS
  <1>2. PICK pair \in Seq(Nat), one \in Seq(Nat) : pair = <<b, s>> /\ one = <<c>>
    BY <1>1
  <1>3. Len(pair) = 2 /\ pair[1] = b /\ pair[2] = s /\ Len(one) = 1 /\ one[1] = c
    BY <1>2
  <1>4. PICK all \in Seq(Nat) : /\ all = pair \o one /\ Len(all) = Len(pair) + Len(one)
                                /\ \A i \in 1 .. Len(pair) + Len(one) :
                                     all[i] = IF i <= Len(pair) THEN pair[i] ELSE one[i - Len(pair)]
    <2>1. /\ pair \o one \in Seq(Nat) /\ Len(pair \o one) = Len(pair) + Len(one)
          /\ \A i \in 1 .. Len(pair) + Len(one) :
               (pair \o one)[i] = IF i <= Len(pair) THEN pair[i] ELSE one[i - Len(pair)]
      BY ConcatProperties, Zenon
    <2> QED
      BY <2>1, Zenon
  <1>5. Len(all) = 3 /\ all[1] = b /\ all[2] = s /\ all[3] = c
    BY <1>3, <1>4
  <1>6. all = <<b, s, c>>
    BY <1>5
  <1> QED
    BY <1>2, <1>4, <1>6

\* The loader left a tree with one controller, or a line of numbers with the user's
\* words first; no two slots are the same, and they fit what the lab keeps of them.
LoaderPlain ==
  IF Arm THEN /\ Document(input.tree) /\ SlotsApart(input.tree) /\ OneController(input.tree)
              /\ TreeSlotsFit(input.tree)
  ELSE /\ LinePlain(CommandLine) /\ LineSlotsFit(CommandLine)
       /\ LineEnds(input.user, input.appended)

LEMMA LineParts ==
  ASSUME NEW line, NEW m, LineMachine(line, m)
  PROVE  \E slot : /\ slot = VirtioSlots(line)
                   /\ m.virtio = IF slot = None THEN None ELSE <<<<slot[1].base, slot[1].size>>>>
                   /\ m.virtio_count = IF slot = None THEN 0 ELSE slot[1].count
  <1>1. PICK regions, dropped, slot, virtio, count, args :
          /\ slot = VirtioSlots(line)
          /\ virtio = IF slot = None THEN None ELSE <<<<slot[1].base, slot[1].size>>>>
          /\ count = IF slot = None THEN 0 ELSE slot[1].count
          /\ args = UserArgs(line)
          /\ m = [regions |-> regions, cpu_count |-> 1, uart_base |-> None, uart_irq |-> None,
                  virtio |-> virtio, virtio_count |-> count, args |-> args, gic |-> None, dropped |-> dropped]
    BY Zenon DEF LineMachine
  <1>2. m.virtio = virtio /\ m.virtio_count = count
    BY <1>1
  <1> QED
    BY <1>1, <1>2

LEMMA MachineSlots ==
  ASSUME input \in Inputs, ~Arm, LineMachine(CommandLine, found), LinePlain(CommandLine)
  PROVE  LineSaid(CommandLine, found.virtio, found.virtio_count)
  <1>1. PICK S, line : line = CommandLine /\ line \in Seq(S)
    BY LineTyped
  <1>2. PICK n \in Nat : DOMAIN line = 1 .. n
    BY <1>1
  <1>6. LineMachine(line, found)
    BY <1>1
  <1>3. PICK slot : /\ slot = VirtioSlots(line)
                    /\ found.virtio = IF slot = None THEN None ELSE <<<<slot[1].base, slot[1].size>>>>
                    /\ found.virtio_count = IF slot = None THEN 0 ELSE slot[1].count
    BY <1>6, LineParts
  <1>4. LinePlain(line)
    BY <1>1
  <1>5. LineSaid(line, found.virtio, found.virtio_count)
    BY <1>2, <1>3, <1>4, LineSlots
  <1> QED
    BY <1>1, <1>5

\* from_scan, discover and run_shell: what boot finds is what the loader described.
\* Where a tree has one controller and its slots lie apart, or a line names each slot
\* once and ends with what the loader appends, the machine has the console, the slots,
\* the controller and the processors the loader left, the lab is told of its slots,
\* and the script that has run is the user's.
THEOREM BootFinds == Spec => [](LoaderPlain => Discovered)
  <1>1. Init => TreeFound /\ LineFound /\ ShellInv
    <2> SUFFICES ASSUME Init
                 PROVE  TreeFound /\ LineFound /\ ShellInv
      OBVIOUS
    <2>1. /\ input \in Inputs /\ at = 1 /\ scan = ScanDefault /\ found = NoMachine /\ ran = <<>>
          /\ pc = IF Arm THEN "probe" ELSE "install"
      BY DEF Init
    <2>2. Arm => DevicesRead(input.tree, at - 1, scan)
      <3>1. at - 1 = 0
        BY <2>1
      <3> QED
        BY <2>1, <3>1, DevicesFirst
    <2> QED
      BY <2>1, <2>2 DEF TreeFound, LineFound, ShellInv
  <1>2. TreeFound /\ TreeInv /\ UpInv /\ [Next]_vars => TreeFound'
    BY TreeFoundStep
  <1>3. LineFound /\ UpInv /\ [Next]_vars => LineFound'
    BY LineFoundStep
  <1>4. ShellInv /\ LineFound /\ UpInv /\ [Next]_vars => ShellInv'
    BY ShellStep
  <1>5. TreeFound /\ LineFound /\ ShellInv => (LoaderPlain => Discovered)
    <2> SUFFICES ASSUME TreeFound, LineFound, ShellInv, LoaderPlain
                 PROVE  Discovered
      OBVIOUS
    <2>1. PICK tree, line : tree = input.tree /\ line = CommandLine
      OBVIOUS
    <2>2. Arm /\ pc \in {"open", "loop"} => TreeSaid(tree, found)
      BY <2>1 DEF TreeFound, LoaderPlain
    <2>3. ~Arm /\ found # NoMachine => LineSaid(CommandLine, found.virtio, found.virtio_count)
      <3>1. ~Arm /\ found # NoMachine => LineMachine(CommandLine, found) /\ LinePlain(CommandLine)
        BY DEF LineFound, LoaderPlain
      <3> QED
        BY <3>1, MachineSlots DEF ShellInv
    <2>4. Read /\ Arm =>
            /\ found.uart_base = UartOf(input.tree)
            /\ found.virtio = SlotOf(input.tree)
            /\ found.virtio_count =
                 Cardinality({n \in Nodes(input.tree, 2, "virtio_mmio") : Values(input.tree, n, "reg") # {}})
            /\ found.gic = GicOf(input.tree)
            /\ found.cpu_count = Cardinality(Nodes(input.tree, 3, "cpu"))
      BY <2>1, <2>2 DEF Read, TreeSaid, LoaderPlain
    <2>5. ASSUME Read, ~Arm, found # NoMachine
          PROVE  LET entries == Entries(CommandLine)
                 IN  IF entries = {} THEN found.virtio = None
                     ELSE /\ found.virtio_count = Cardinality(entries)
                          /\ \E e \in entries : /\ found.virtio = <<<<e.base, e.size>>>>
                                                /\ \A f \in entries : e.base <= f.base
      BY <2>3, <2>5 DEF LineSaid
    <2>6. ASSUME pc = "loop", ~Arm, CommandLine # <<>>, found # NoMachine
          PROVE  ran = Asked
      <3>1. CommandLine = input.user \o input.appended
        BY <2>6 DEF CommandLine
      <3>2. PICK S : input.user \in Seq(S) /\ input.appended \in Seq(S)
        BY <2>6, LineTyped DEF ShellInv
      <3>3. LineEnds(input.user, input.appended)
        BY <2>6 DEF LoaderPlain
      <3>4. Rest(UserArgs(input.user \o input.appended)) = Rest(input.user)
        BY <3>2, <3>3, RestOfUser
      <3>5. LineMachine(CommandLine, found)
        BY <2>6 DEF LineFound
      <3>6. found.args = UserArgs(CommandLine)
        BY <3>5 DEF LineMachine
      <3>7. ran = Verbs(Rest(found.args))
        BY <2>6 DEF ShellInv, Script
      <3> QED
        BY <3>1, <3>4, <3>6, <3>7 DEF Asked
    <2>7. ASSUME pc = "loop", found.virtio # None
          PROVE  SlotsOf(slots) = <<found.virtio[1] \o <<found.virtio_count>>>>
      <3>1. SlotKnown(found.virtio, found.virtio_count)
        <4>1. CASE Arm
          BY <2>1, <2>2, <2>7, <4>1 DEF TreeSaid, LoaderPlain
        <4>2. CASE ~Arm
          <5>1. found # NoMachine
            BY <2>7 DEF NoMachine
          <5> QED
            BY <2>3, <4>2, <5>1 DEF LineSaid, LoaderPlain
        <4> QED
          BY <4>1, <4>2
      <3>2. PICK b \in Nat, s \in Nat, c \in Nat :
              found.virtio = <<<<b, s>>>> /\ found.virtio_count = c /\ b < SlotBases /\ s < 65536 /\ c # 0 /\ c < 256
        BY <2>7, <3>1 DEF SlotKnown
      <3>3. slots = Pack(b, s, c)
        BY <2>7, <3>2 DEF ShellInv, Packed
      <3>4. found.virtio[1] \o <<found.virtio_count>> = <<b, s, c>>
        <4>1. <<b, s>> \o <<c>> = <<b, s, c>>
          BY <3>2, Joined
        <4>2. found.virtio[1] = <<b, s>>
          BY <3>2
        <4> QED
          BY <3>2, <4>1, <4>2
      <3> QED
        BY <3>2, <3>3, <3>4, Unpacked
    <2> QED
      BY <2>4, <2>5, <2>6, <2>7 DEF Discovered
  <1> QED
    BY <1>1, <1>2, <1>3, <1>4, <1>5, UpInductive, TreeInductive, PTL DEF Spec
=============================================================================
