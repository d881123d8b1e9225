-------------------------------- MODULE Boot --------------------------------
(***************************************************************************)
(* From the loader to the shell, on both kernels: what the machine is, is  *)
(* read from what the loader left; the memory map is carved; interrupts    *)
(* are armed; the boot script runs.  Keys are typed, and the timer expires,*)
(* whenever they like.                                                     *)
(*                                                                         *)
(* What the loader left is the variable input, chosen once:                *)
(*   aarch64  a device tree (is its header good, its tokens, where it      *)
(*            lies), and whether a virtio console comes up (Virtio.tla);   *)
(*   x86_64   an hvm_start_info (is it valid, where it lies), a memory map *)
(*            of <<base, length, e820 type>> records, a command line, and  *)
(*            whether the LAPIC is where it can be used.                   *)
(* A command line is a sequence of words; "mlsh.run=" is one, the verbs    *)
(* after it are others, and a virtio_mmio.device= entry is a record.       *)
(***************************************************************************)
EXTENDS DeviceTree

CONSTANTS Inputs,       \* what loaders leave
          Image,        \* <<base, length>> of the kernel
          BlockSize,    \* of the aarch64 identity map
          Blocks,       \* how many there are
          Mapped,       \* the end of the x86-64 identity map
          HeaderLen, EntryLen,  \* of hvm_start_info, and of a record
          SlotBases,    \* 2^40: the bases that a packed word has room for
          MaxKeys       \* bound: how many keys are typed

ASSUME BootAssumption ==
  /\ {BlockSize, Blocks, Mapped, HeaderLen, EntryLen, SlotBases} \subseteq Nat \ {0}
  /\ MaxKeys \in Nat

\* What firmware and a loader write is numbers, in words and records.
ASSUME InputsAssumption ==
  /\ Image \in Nat \X (Nat \ {0})
  /\ \A i \in Inputs :
       IF i.arch = "aarch64" THEN i.base \in Nat /\ i.size \in Nat \ {0}
       ELSE /\ {i.start, i.memmap, i.cmdline} \subseteq Nat
            /\ i.records \in Seq(Nat \X Nat \X Nat)
            /\ i.user \in Seq(ToSet(i.user)) /\ i.appended \in Seq(ToSet(i.appended))

VARIABLES input,        \* what the loader left
          pc,           \* where boot is
          at, scan,     \* the next token or occupant, and what the walk has folded
          found,        \* the Machine
          console,      \* which console was opened
          valid,        \* the blocks the aarch64 tables map
          slots,        \* mlos_lab's SLOTS
          cpu,          \* vectors loaded? interrupts unmasked? handlers published?
          ctl,          \* the interrupt controller
          timer, rx,    \* is the timer started, and the console's interrupt on?
          typed, fifo,  \* keys typed, and keys the console holds
          raised,       \* interrupts the controller has latched
          active,       \* interrupts taken and not completed
          beat,         \* flips with every tick counted
          ran           \* the verbs of the boot script that have run

hardware == <<cpu, ctl, timer, rx>>
signals  == <<typed, fifo, raised, active, beat>>
vars == <<input, pc, at, scan, found, console, valid, slots, hardware, signals, ran>>

Arm == input.arch = "aarch64"

\* A word of a command line, and the one the boot script follows.
Verb(text) == [text |-> text]
Run == Verb("mlsh.run=")

NoMachine ==
  [regions |-> <<>>, cpu_count |-> 0, uart_base |-> None, uart_irq |-> None,
   virtio |-> None, virtio_count |-> 0, args |-> <<>>, gic |-> None, dropped |-> 0]

Init ==
  /\ input \in Inputs
  /\ pc = IF Arm THEN "probe" ELSE "install"
  /\ at = 1 /\ scan = ScanDefault
  /\ found = NoMachine /\ console = "none"
  /\ valid = {} /\ slots = 0
  /\ cpu = [vectors |-> FALSE, unmasked |-> FALSE, published |-> FALSE]
  /\ ctl = [routing |-> FALSE, awake |-> FALSE, delivering |-> FALSE, enabled |-> {}]
  /\ timer = FALSE /\ rx = FALSE
  /\ typed = 0 /\ fifo = 0
  /\ raised = {} /\ active = {} /\ beat = FALSE
  /\ ran = <<>>

\* mlos_main: what cannot go on parks.
Halt == pc' = "halted"

-----------------------------------------------------------------------------
(* aarch64: the machine from the device tree. *)

\* Fdt::from_ptr
Probe ==
  /\ pc = "probe"
  /\ IF input.header THEN pc' = "walk" ELSE Halt
  /\ UNCHANGED <<input, at, scan, found, console, valid, slots, hardware, signals, ran>>

\* Machine::from_scan
FromScan(s) ==
  [regions |-> Reserve(s.regions, input.base, input.size, "Reclaimable"),
   cpu_count |-> s.cpu_count, uart_base |-> s.uart_base, uart_irq |-> s.uart_irq,
   virtio |-> s.virtio, virtio_count |-> s.virtio_count,
   args |-> IF s.bootargs = None THEN <<>> ELSE s.bootargs[1],
   gic |-> IF s.gic_v3 THEN s.gic_reg ELSE None, dropped |-> 0]

\* Machine::reserving
Reserving(machine, base, len) ==
  [machine EXCEPT !.regions = Reserve(@, base, len, "Kernel")]

\* Fdt::walk, a token at a time: damage ends it with nothing.
Walk ==
  /\ pc = "walk"
  /\ LET token == IF at > Len(input.tree) THEN [t |-> "bad"] ELSE input.tree[at]
     IN  CASE token.t = "bad"  -> Halt /\ UNCHANGED <<at, scan, found>>
           [] token.t = "stop" -> /\ found' = Reserving(FromScan(scan), Image[1], Image[2])
                                  /\ pc' = "open"
                                  /\ UNCHANGED <<at, scan>>
           [] OTHER            -> /\ scan' = Event(scan, token)
                                  /\ at' = at + 1
                                  /\ UNCHANGED <<pc, found>>
  /\ UNCHANGED <<input, console, valid, slots, hardware, signals, ran>>

\* Terminal::open; Virtio.tla has how a virtio console is found.
Open ==
  /\ pc = "open"
  /\ LET wants  == Verb("console=hvc") \in ToSet(found.args)
         virtio == found.virtio # None /\ input.virtioConsole
     IN  console' = IF virtio /\ (wants \/ found.uart_base = None) THEN "virtio"
                    ELSE IF found.uart_base # None THEN "pl011" ELSE "none"
  /\ IF console' = "none" THEN Halt ELSE pc' = "mmu"
  /\ UNCHANGED <<input, at, scan, found, valid, slots, hardware, signals, ran>>

\* Mutant: only a region that begins in the block covers it.
CoveredFrom(regions, base) ==
  \E r \in ToSet(regions) : r.base >= base /\ r.base < base + BlockSize

\* covered
Covered(regions, base) ==
  \E r \in ToSet(regions) :
    r.kind # "Device" /\ r.base < base + BlockSize /\ base < r.base + r.len

\* enable_identity_map: the first block holds devices.
EnableIdentityMap ==
  /\ pc = "mmu"
  /\ valid' = {b \in 0 .. Blocks - 1 : b = 0 \/ Covered(found.regions, b * BlockSize)}
  /\ pc' = "install"
  /\ UNCHANGED <<input, at, scan, found, console, slots, hardware, signals, ran>>

-----------------------------------------------------------------------------
(* x86_64: the machine from the PVH loader. *)

\* hal::bytes can see the range; otherwise it yields nothing.
Seen(addr, len) == addr # 0 /\ addr + len <= Mapped

\* mlos_pvh::regions
PvhRegions(records) ==
  LET kind(type) == CASE type = 1 -> "Usable" [] type = 3 -> "Reclaimable" [] OTHER -> "Reserved"
  IN  FlattenSeq([i \in DOMAIN records |->
        Part(records[i][1], records[i][1] + records[i][2], kind(records[i][3]))])

\* The command line c_str reads: nothing, if it is not mapped.
CommandLine == IF Seen(input.cmdline, 1) THEN input.user \o input.appended ELSE <<>>

\* entry: a word that is no well-formed virtio_mmio.device=.
IsEntry(word) == "base" \in DOMAIN word

\* virtio_slots, of one word: the lowest slot so far, and how many.
VirtioSlot(slot, w) ==
  IF ~IsEntry(w) THEN slot
  ELSE IF slot # None /\ slot[1].base < w.base THEN <<[slot[1] EXCEPT !.count = @ + 1]>>
  ELSE <<[base |-> w.base, size |-> w.size, count |-> IF slot = None THEN 1 ELSE slot[1].count + 1]>>

VirtioSlots(words) == FoldLeft(VirtioSlot, None, words)

IsAppended(word) == "base" \in DOMAIN word \/ word = Verb("virtio_mmio.device=?")

\* user_args: the line up to the first entry after mlsh.run=.
UserArgs(words) ==
  LET runs == {i \in DOMAIN words : words[i] = Run}
      cut  == {i \in DOMAIN words : runs # {} /\ i > Min(runs) /\ IsAppended(words[i])}
  IN  IF cut = {} THEN words ELSE SubSeq(words, 1, Min(cut) - 1)

\* What occupies memory the map calls free.
Carve ==
  LET map_len == Len(input.records) * EntryLen
  IN  << <<Image[1], Image[2], "Kernel">>,
         <<input.start, HeaderLen, "Reclaimable">>,
         <<input.memmap, map_len, "Reclaimable">>,
         <<input.cmdline, Len(CommandLine) + 1, "Reclaimable">> >>

\* Mutant: whatever is asked for is carved.
CarveOneAnyway(map, c) == Reserve(map, c[1], c[2], c[3])

\* Out of usable memory only.
CarveOne(map, c) == IF Free(map, c[1], c[2]) THEN Reserve(map, c[1], c[2], c[3]) ELSE map

\* StartInfo::parse, of what hal::bytes yields.
StartInfo == input.valid /\ Seen(input.start, HeaderLen)

\* discover: the records and the command line.
Discover ==
  /\ pc = "discover"
  /\ LET records == IF Seen(input.memmap, Len(input.records) * EntryLen)
                    THEN PvhRegions(input.records) ELSE <<>>
         slot    == VirtioSlots(CommandLine)
     IN  IF StartInfo
         THEN /\ found' = [NoMachine EXCEPT
                   !.regions = Pushed(records),
                   !.dropped = Len(records) - Len(Pushed(records)),
                   !.cpu_count = 1,
                   !.virtio = IF slot = None THEN None ELSE <<<<slot[1].base, slot[1].size>>>>,
                   !.virtio_count = IF slot = None THEN 0 ELSE slot[1].count,
                   !.args = UserArgs(CommandLine)]
              /\ pc' = "carve"
         ELSE pc' = "arm" /\ UNCHANGED found
  /\ UNCHANGED <<input, at, scan, console, valid, slots, hardware, signals, ran>>

\* discover: one occupant after another is carved out.
CarveNext ==
  /\ pc = "carve"
  /\ found' = [found EXCEPT !.regions = CarveOne(@, Carve[at])]
  /\ IF at < Len(Carve) THEN at' = at + 1 /\ UNCHANGED pc ELSE pc' = "arm" /\ UNCHANGED at
  /\ UNCHANGED <<input, scan, console, valid, slots, hardware, signals, ran>>

-----------------------------------------------------------------------------
(* Interrupts.  The controller is the hardware the kernels program: what it *)
(* does with a write it is not ready for is what their comments say of it.  *)

TimerIrq == IF Arm THEN 30 ELSE 48       \* TIMER_PPI; TIMER_VECTOR
UartIrq  == IF Arm THEN input.irq ELSE 52  \* what the console's line is; COM1_VECTOR

\* install: vectors and handlers, on both.
Install ==
  /\ pc = "install"
  /\ cpu' = [cpu EXCEPT !.vectors = TRUE]
  /\ pc' = IF Arm THEN "route" ELSE "discover"
  /\ UNCHANGED <<input, at, scan, found, console, valid, slots, ctl, timer, rx, signals, ran>>

\* dist::enable, redist::wake and cpuif::enable: each ignored before the last.
Distributor(c)  == [c EXCEPT !.routing = TRUE]
Redistributor(c) == [c EXCEPT !.awake = c.routing]
CpuInterface(c) == [c EXCEPT !.delivering = c.awake]

\* Gic::new
GicNew(c) == CpuInterface(Redistributor(Distributor(c)))

\* Gic::enable: a private interrupt in the redistributor, a shared one in the
\* distributor.
EnablePpi(c, irq) == IF c.awake THEN [c EXCEPT !.enabled = @ \cup {irq}] ELSE c
EnableSpi(c, irq) == IF c.routing THEN [c EXCEPT !.enabled = @ \cup {irq}] ELSE c
GicEnable(c, irq) == IF irq < 32 THEN EnablePpi(c, irq) ELSE EnableSpi(c, irq)

\* publish, and unmask.
Publish(c) == [c EXCEPT !.published = TRUE]
Unmask(c) == [c EXCEPT !.unmasked = TRUE]

\* route, and publish: None without a controller, or without the console's
\* interrupt.
Route ==
  /\ pc = "route"
  /\ \/ found.gic = None /\ Halt /\ UNCHANGED <<ctl, rx, cpu>>
     \/ found.gic # None /\ found.uart_irq = None /\ Halt
        /\ ctl' = GicNew(ctl) /\ UNCHANGED <<rx, cpu>>
     \/ found.gic # None /\ found.uart_irq # None
        /\ ctl' = GicEnable(GicEnable(GicNew(ctl), TimerIrq), found.uart_irq[1])
        /\ rx' = (console = "pl011")
        /\ cpu' = Publish(cpu)
        /\ pc' = "arm"
  /\ UNCHANGED <<input, at, scan, found, console, valid, slots, timer, signals, ran>>

\* GenericTimer.arm, then unmask.
ArmTimer ==
  /\ Arm /\ pc = "arm"
  /\ timer' = TRUE
  /\ cpu' = Unmask(cpu)
  /\ pc' = "shell"
  /\ UNCHANGED <<input, at, scan, found, console, valid, slots, ctl, rx, signals, ran>>

\* disable_pic, Lapic::enable and LAPIC: none outside the device window, and
\* then the kernel polls.
EnableLapic ==
  /\ ~Arm /\ pc = "arm"
  /\ IF input.lapic
     THEN /\ ctl' = [ctl EXCEPT !.delivering = TRUE]
          /\ cpu' = Publish(cpu)
          /\ pc' = "ioapic"
     ELSE pc' = "shell" /\ UNCHANGED <<ctl, cpu>>
  /\ UNCHANGED <<input, at, scan, found, console, valid, slots, timer, rx, signals, ran>>

\* mlos-apic's route: the line is unmasked, and has its vector.
RouteLine(c, vector) == [c EXCEPT !.enabled = @ \cup {vector}]

\* Mutant: the console's interrupt is on before its line is routed.
RouteComLate ==
  /\ pc = "ioapic"
  /\ ctl' = RouteLine(ctl, UartIrq)
  /\ rx' = TRUE
  /\ pc' = "timer"
  /\ UNCHANGED <<input, at, scan, found, console, valid, slots, cpu, timer, signals, ran>>

\* route COM1 to its vector, then turn its interrupt on: a byte that already
\* waits raises it.
RouteCom ==
  /\ pc = "ioapic"
  /\ ctl' = RouteLine(ctl, UartIrq)
  /\ rx' = TRUE
  /\ raised' = IF fifo > 0 THEN raised \cup {UartIrq} ELSE raised
  /\ pc' = "timer"
  /\ UNCHANGED <<input, at, scan, found, console, valid, slots, cpu, timer, typed, fifo, active, beat, ran>>

\* start_timer, then sti.
StartTimer ==
  /\ pc = "timer"
  /\ timer' = TRUE
  /\ ctl' = [ctl EXCEPT !.enabled = @ \cup {TimerIrq}]
  /\ cpu' = Unmask(cpu)
  /\ pc' = "shell"
  /\ UNCHANGED <<input, at, scan, found, console, valid, slots, rx, signals, ran>>

\* A key reaches the console.  COM1's line is an edge, seen only once routed.
Type ==
  /\ typed < MaxKeys
  /\ typed' = typed + 1 /\ fifo' = fifo + 1
  /\ raised' = IF ~Arm /\ rx /\ fifo = 0 THEN raised \cup {UartIrq} ELSE raised
  /\ UNCHANGED <<input, pc, at, scan, found, console, valid, slots, hardware, active, beat, ran>>

\* The timer runs out.
Expire ==
  /\ timer
  /\ raised' = raised \cup {TimerIrq}
  /\ UNCHANGED <<input, pc, at, scan, found, console, valid, slots, hardware, typed, fifo, active, beat, ran>>

\* What the controller has to deliver: the PL011 holds its line up while it
\* holds a byte.
Pending == raised \cup (IF Arm /\ rx /\ fifo > 0 THEN {UartIrq} ELSE {})

\* on_irq of aarch64: claim, dispatch, complete.  The timer is quiet once rearmed.
OnIrqArm(irq) ==
  /\ cpu.published
  /\ raised' = raised \ {irq}
  /\ beat' = IF irq = TimerIrq THEN ~beat ELSE beat
  /\ fifo' = IF irq # TimerIrq /\ <<irq>> = found.uart_irq /\ console = "pl011" THEN 0 ELSE fifo
  /\ UNCHANGED active

\* on_irq of x86_64: dispatch, then the EOI, which needs LAPIC.
OnIrqX86(irq) ==
  /\ raised' = raised \ {irq}
  /\ beat' = IF irq = TimerIrq THEN ~beat ELSE beat
  /\ fifo' = IF irq = UartIrq THEN 0 ELSE fifo
  /\ active' = IF cpu.published THEN {} ELSE {irq}

\* An interrupt is taken, between any two steps; with no vectors it goes nowhere
\* defined.
Take(irq) ==
  /\ cpu.unmasked /\ ctl.delivering /\ active = {}
  /\ irq \in Pending \cap ctl.enabled
  /\ IF Arm THEN OnIrqArm(irq) ELSE OnIrqX86(irq)
  /\ pc' = IF cpu.vectors THEN pc ELSE "lost"
  /\ UNCHANGED <<input, at, scan, found, console, valid, slots, hardware, typed, ran>>

-----------------------------------------------------------------------------
(* The shell. *)

\* set_slots packs the base into 40 bits, the size into 16 and the count into 8;
\* probe unpacks.
Pack(base, size, count) ==
  ((base % SlotBases) * 65536 + (size % 65536)) * 256 + (count % 256)

SlotsOf(packed) ==
  IF packed = 0 THEN None
  ELSE <<<<packed \div 16777216, (packed \div 256) % 65536, packed % 256>>>>

\* facts tells the lab of the slots there are.
Facts == IF found.virtio = None THEN slots
         ELSE Pack(found.virtio[1][1], found.virtio[1][2], found.virtio_count)

\* run_shell; without a start info there is no shell.
StartShell ==
  /\ pc = "shell"
  /\ slots' = Facts
  /\ pc' = IF ~Arm /\ found = NoMachine THEN "loop" ELSE "script"
  /\ UNCHANGED <<input, at, scan, found, console, valid, hardware, signals, ran>>

\* rest: everything after mlsh.run=, to the end.
Rest(words) ==
  LET runs == {i \in DOMAIN words : words[i] = Run}
  IN  IF runs = {} THEN <<>> ELSE SubSeq(words, Min(runs) + 1, Len(words))

\* The verbs to run: none that is empty.
Verbs(words) ==
  FoldLeft(LAMBDA verbs, w : IF w = Verb("") THEN verbs ELSE Append(verbs, w), <<>>, words)

\* Shell::run: the boot script, skipping empty verbs, then the loop.
RunScript ==
  /\ pc = "script"
  /\ LET script == Verbs(Rest(found.args))
     IN  IF Len(ran) < Len(script)
         THEN ran' = Append(ran, script[Len(ran) + 1]) /\ UNCHANGED pc
         ELSE pc' = "loop" /\ UNCHANGED ran
  /\ UNCHANGED <<input, at, scan, found, console, valid, slots, hardware, signals>>

\* idle, where interrupts were never armed.
Poll ==
  /\ pc = "loop" /\ ~Arm /\ ~cpu.published
  /\ fifo > 0
  /\ fifo' = 0
  /\ UNCHANGED <<input, pc, at, scan, found, console, valid, slots, hardware, typed, raised, active, beat, ran>>

BootStep ==
  \/ Probe \/ Walk \/ Open \/ EnableIdentityMap \/ Discover \/ CarveNext
  \/ Install \/ Route \/ ArmTimer \/ EnableLapic \/ RouteCom \/ StartTimer
  \/ StartShell \/ RunScript \/ Poll

Next == BootStep \/ Type \/ Expire \/ Take(TimerIrq) \/ Take(UartIrq)

\* The core runs, the timer runs out, and an interrupt that stays raised is
\* taken: the handlers are short and the timer leaves room between its ticks.
Spec ==
  /\ Init /\ [][Next]_vars
  /\ WF_vars(BootStep) /\ WF_vars(Expire)
  /\ WF_vars(Take(TimerIrq)) /\ WF_vars(Take(UartIrq))

-----------------------------------------------------------------------------
(* Properties. *)

\* The machine has just been read.
Read == pc = IF Arm THEN "open" ELSE "arm"

\* The verbs a user asked for.
Asked == Verbs(Rest(input.user))

\* The slots a command line names.
Entries(words) == {w \in ToSet(words) : IsEntry(w)}

\* What boot finds is what the loader described.  The scan sees one token at a
\* time, yet it reads the tree's first console, lowest slot and v3 controller
\* whatever the order of a node's properties (scan.rs); the command line's
\* lowest slot is found, and the shell runs exactly the user's verbs, not the
\* entries the loader appended (user_args); and the slots survive their packing
\* on the way to the lab (devices.rs).
Discovered ==
  /\ Read /\ Arm =>
       /\ found.uart_base = UartOf(input.tree)
       /\ found.virtio = SlotOf(input.tree)
       /\ found.virtio_count =
            Cardinality({n \in Nodes(input.tree, 2, "virtio_mmio") : Values(input.tree, n, "reg") # {}})
       /\ found.gic = GicOf(input.tree)
       /\ found.cpu_count = Cardinality(Nodes(input.tree, 3, "cpu"))
  /\ Read /\ ~Arm /\ found # NoMachine =>
       LET entries == Entries(CommandLine)
       IN  IF entries = {} THEN found.virtio = None
           ELSE /\ found.virtio_count = Cardinality(entries)
                /\ \E e \in entries : /\ found.virtio = <<<<e.base, e.size>>>>
                                      /\ \A f \in entries : e.base <= f.base
  /\ pc = "loop" =>
       /\ ~Arm /\ CommandLine # <<>> /\ found # NoMachine => ran = Asked
       /\ found.virtio # None =>
            SlotsOf(slots) = <<found.virtio[1] \o <<found.virtio_count>>>>

\* What the loader says of a byte, before anything is carved.
Original == IF Arm THEN {MemoryRegion(b, 1, "Usable") : b \in MemoryOf(input.tree)}
            ELSE ToSet(PvhRegions(input.records))

\* What occupies memory; on x86-64 only what lies inside one usable record.
Inside(extent) ==
  {x \in extent : Arm \/ \E r \in Original : r.kind = "Usable" /\ extent \subseteq Bytes(r)}

Occupied ==
  Inside(IF Arm THEN Extent(input.base, input.size) ELSE Extent(input.start, HeaderLen))
    \cup (IF Arm THEN {} ELSE Inside(Extent(input.memmap, Len(input.records) * EntryLen))
                              \cup Inside(Extent(input.cmdline, Len(CommandLine) + 1)))

Label(byte) ==
  LET kind == (CHOOSE r \in Original : byte \in Bytes(r)).kind
  IN  IF kind # "Usable" THEN kind
      ELSE IF byte \in Inside(Extent(Image[1], Image[2])) THEN "Kernel"
      ELSE IF byte \in Occupied THEN "Reclaimable" ELSE "Usable"

Full == Len(found.regions) = MaxRegions

\* Carving moves no boundary it should not (reserve.rs, discover): every byte the
\* map describes has one label, the one its record and its occupant give it, so
\* the kernel, the tree and the loader's structures are never usable and
\* firmware memory is never reclaimed; and unless the map is full no byte of
\* memory is lost.
MapTrue ==
  Read /\ found # NoMachine =>
    LET memory == UNION {Bytes(r) : r \in Original}
    IN  /\ Disjoint(found.regions)
        /\ Described(found.regions) \subseteq memory
        /\ \A b \in Described(found.regions) : KindsOf(found.regions, b) = {Label(b)}
        /\ Full \/ ~(Arm \/ Seen(input.memmap, Len(input.records) * EntryLen))
             \/ Described(found.regions) = memory

\* Turning translation on keeps what runs: the blocks mapped are the devices'
\* and exactly those with memory in them, the kernel's too, unless the map was
\* too small to say so (enable_identity_map).
StaysMapped ==
  Arm /\ pc = "install" /\ ~Full =>
    valid = {0} \cup {b \div BlockSize : b \in MemoryOf(input.tree)}

\* A key can be heard on this machine: its own interrupt is the one the tree
\* gave, and a virtio console cannot receive yet.
Hears == Arm => console = "pl011" /\ found.uart_irq = <<UartIrq>>

\* Boot ends, in the shell or parked; a shell hears every key, those typed
\* before it listened too, and its timer ticks for ever.  So vectors, controller,
\* routes, handlers and timer came up in an order that loses no interrupt
\* (arm_interrupts, arm), and every interrupt taken is acknowledged (on_irq).
Listens ==
  /\ <>(pc \in {"halted", "loop"})
  /\ [](pc = "loop" /\ Hears => <>(fifo = 0))
  /\ [](pc = "loop" /\ cpu.published => <>beat /\ <>~beat)
=============================================================================
