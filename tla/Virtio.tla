------------------------------- MODULE Virtio -------------------------------
(***************************************************************************)
(* mlos-virtio, its block and console drivers, and who calls them: the     *)
(* terminal opened at boot, the disk the lab finds, the weights and the    *)
(* trace read from it.                                                     *)
(*                                                                         *)
(* The driver is one thread on the boot core, cut at its accesses to what  *)
(* the device shares.  The device is external: it takes a chain that was   *)
(* made available, serves it, and returns it, each in its own time, and it *)
(* may fail.  A byte of the disk is a unit, SECTOR of them a sector.       *)
(***************************************************************************)
EXTENDS Integers, Sequences, FiniteSets

CONSTANTS Size,         \* SIZE, descriptors and ring entries
          IndexMod,     \* 2^16, where a ring's index wraps
          Sector,       \* SECTOR
          Chunk,        \* 256, what the console's buffer holds
          TileSectors,  \* TILE_BYTES / SECTOR
          Tiles,        \* LAYERS * TILES
          TextRoom,     \* TEXT, the bytes a trace is read into
          Header,       \* HEADER, the bytes of length in front of the text
          Machines,     \* what there may be: slots, uart, hvc, length
          Texts,        \* what is written
          Faults        \* how the device may fail

ASSUME VirtioAssumption ==
  /\ Size \in Nat \ {0} /\ IndexMod \in Nat \ {0} /\ IndexMod % Size = 0
  /\ Size < IndexMod
  /\ Sector \in Nat \ {0} /\ Chunk \in Nat \ {0}
  /\ TileSectors \in Nat \ {0} /\ Tiles \in Nat /\ TextRoom \in Nat /\ Header \in Nat \ {0}
  /\ \A m \in Machines : m.length \in Nat
  /\ Texts \subseteq Seq(STRING)
  /\ Faults \subseteq {"error", "unsupported", "silent"}

VARIABLES machine,      \* what this machine is
          terminal,     \* the console, once boot has opened one
          held,         \* held[port]: the slot of the device brought up, or 0
          avail,        \* avail[port]: the ring the driver fills
          used,         \* used[port]: the index of the ring the device fills
          memory,       \* memory[port]: descriptors and buffers
          call,         \* the call that is running
          answer,       \* what the last call returned
          device,       \* device[port]: what the device is doing
          sent          \* what the console's device has shown of this call

vars == <<machine, terminal, held, avail, used, memory, call, answer, device, sent>>
driver == <<terminal, held, avail, memory, call, answer>>

Ports == {"block", "console"}
Id(port) == IF port = "block" THEN 2 ELSE 3

None == [op |-> "none"]
Stale == -1         \* a byte nothing has been read into
Junk == -2          \* a byte of a read that failed
Unwritten == 255
Zeros == [i \in 1 .. Sector |-> 0]

\* The static RINGS of each driver.
Rings ==
  [chain |-> <<>>, header |-> 0, data |-> Zeros, status |-> 0, buffer |-> <<>>]
Available == [index |-> 0, ring |-> [i \in 0 .. Size - 1 |-> 0]]
UsedRing == 0       \* its index; the entries are not looked at
NoDevice == [doing |-> "idle", seen |-> 0, notified |-> FALSE]

Init ==
  /\ machine \in Machines
  /\ terminal = "unopened" /\ held = [port \in Ports |-> 0]
  /\ avail = [port \in Ports |-> Available]
  /\ used = [port \in Ports |-> UsedRing]
  /\ memory = [port \in Ports |-> Rings]
  /\ call = None /\ answer = None
  /\ device = [port \in Ports |-> NoDevice] /\ sent = <<>>

-----------------------------------------------------------------------------
(* Finding a device and bringing it up. *)

\* Device::probe: an empty slot has id zero.
Probe(slot) == IF slot.magic /\ slot.version = 2 THEN slot.id ELSE 0

\* negotiate: only VERSION_1 is answered, and the device may refuse.
Negotiate(slot) == slot.accepts
\* configure.
Configure(slot) == slot.max >= Size

\* Block::new and Console::new, up to ready.
ComesUp(slot) == Negotiate(slot) /\ Configure(slot)

Matching(port) == {i \in DOMAIN machine.slots : Probe(machine.slots[i]) = Id(port)}
Least(S) == CHOOSE i \in S : \A j \in S : i <= j

\* Terminal::virtio tries every console until one comes up; the lab's probe
\* takes the first block device, come up or not.
VirtioConsole == {i \in Matching("console") : ComesUp(machine.slots[i])}
FirstBlock == {i \in Matching("block") : i = Least(Matching("block")) /\ ComesUp(machine.slots[i])}

\* Terminal::open.
Open ==
  /\ terminal = "unopened"
  /\ LET virtio == (machine.hvc \/ ~machine.uart) /\ VirtioConsole # {}
     IN  /\ terminal' = IF virtio THEN "virtio" ELSE IF machine.uart THEN "pl011" ELSE "none"
         /\ held' = [held EXCEPT !["console"] = IF virtio THEN Least(VirtioConsole) ELSE 0]
  /\ UNCHANGED <<machine, avail, used, memory, call, answer, device, sent>>

\* remember_disk: probe again at every call until a disk is found.
Disk == IF held["block"] # 0 \/ FirstBlock = {} THEN held["block"] ELSE Least(FirstBlock)

-----------------------------------------------------------------------------
(* The calls. *)

Running == call # None
Ready == ~Running /\ terminal \in {"virtio", "pl011"}

\* Bytes of the disk from `from`: the weights, then the trace behind its length.
TraceAt == Tiles * TileSectors
OnDisk(unit) == IF unit = TraceAt * Sector THEN machine.length ELSE unit
Contents(from, count) == [i \in 1 .. count |-> OnDisk(from + i - 1)]

Started(op, port, sector, into) ==
  [op |-> op, port |-> port, pc |-> "next", sector |-> sector, first |-> sector, done |-> 0,
   into |-> into, before |-> 0, text |-> <<>>, formatted |-> FALSE, carriage |-> FALSE, failed |-> FALSE]
Return(result, into) ==
  answer' = [op |-> call.op, result |-> result, into |-> into, first |-> call.first, done |-> call.done,
             failed |-> call.failed, text |-> call.text, formatted |-> call.formatted]

\* read_at: anything but a sector's beginning is refused.
ReadAt(op, offset, into) ==
  IF offset % Sector # 0
  THEN call' = None /\ answer' = [op |-> op, result |-> IF op = "tile" THEN "NoProvider" ELSE "BadObject",
                                  into |-> into]
  ELSE call' = Started(op, "block", offset \div Sector, into) /\ answer' = None

\* Disk::read, for a fault on a tile: from where its id says it begins, and no
\* more than the tile.  The manager reads objects from their beginning.
SectorOf(tile) == tile * TileSectors
ReadTile(tile, offset, room) ==
  /\ Ready /\ Disk # 0
  /\ held' = [held EXCEPT !["block"] = Disk]
  /\ ReadAt("tile", SectorOf(tile) * Sector + offset,
            [i \in 1 .. (IF room < TileSectors * Sector THEN room ELSE TileSectors * Sector) |-> Stale])
  /\ UNCHANGED <<machine, terminal, avail, used, memory, device, sent>>

\* replay's read: the first sector, for the length.
ReadTrace ==
  /\ Ready
  /\ held' = [held EXCEPT !["block"] = Disk]
  /\ \/ Disk = 0 /\ call' = None /\ answer' = [op |-> "trace", result |-> "NoProvider", into |-> <<>>]
     \/ Disk # 0 /\ ReadAt("length", TraceAt * Sector, [i \in 1 .. Sector |-> Stale])
  /\ UNCHANGED <<machine, terminal, avail, used, memory, device, sent>>

WriteText(text, formatted) ==
  /\ Ready /\ terminal = "virtio"
  /\ call' = [Started("write", "console", 0, <<>>) EXCEPT !.text = text, !.formatted = formatted]
  /\ answer' = None /\ sent' = <<>>
  /\ UNCHANGED <<machine, terminal, held, avail, used, memory, device>>

\* Mutant: bytes that are not text get carriage returns too.
CarriageDueAlways(c) == c.text[c.done + 1] = "LF" /\ ~c.carriage

\* Console::write goes in chunks of what the buffer holds.  write_str calls it
\* a byte at a time, and for a carriage return before each newline.
ChunkLength(c) ==
  IF c.formatted THEN 1 ELSE IF Len(c.text) - c.done < Chunk THEN Len(c.text) - c.done ELSE Chunk
CarriageDue(c) == c.formatted /\ c.text[c.done + 1] = "LF" /\ ~c.carriage
NextChunk(c) ==
  IF CarriageDue(c) THEN <<"CR">> ELSE SubSeq(c.text, c.done + 1, c.done + ChunkLength(c))

-----------------------------------------------------------------------------
(* One request: build the chain, submit, wait, collect. *)

At(pc) == Running /\ call.pc = pc
Port == call.port
Goto(pc) == call' = [call EXCEPT !.pc = pc]

Descriptor(buffer, writes, next) == [buffer |-> buffer, writes |-> writes, next |-> next]
ReadChain == <<Descriptor("header", FALSE, TRUE), Descriptor("data", TRUE, TRUE),
               Descriptor("status", TRUE, FALSE)>>

\* Mutant: the status byte is cleared to what means success.
PrepareCleared ==
  /\ At("next") /\ Port = "block" /\ call.done < Len(call.into)
  /\ memory' = [memory EXCEPT !["block"] =
       [@ EXCEPT !.header = call.sector, !.status = 0, !.chain = ReadChain]]
  /\ Goto("submit")
  /\ UNCHANGED <<machine, terminal, held, avail, used, answer, device, sent>>

\* read_sector, up to submit.
Prepare ==
  /\ At("next") /\ Port = "block" /\ call.done < Len(call.into)
  /\ memory' = [memory EXCEPT !["block"] =
       [@ EXCEPT !.header = call.sector, !.status = Unwritten, !.chain = ReadChain]]
  /\ Goto("submit")
  /\ UNCHANGED <<machine, terminal, held, avail, used, answer, device, sent>>

\* Console::write, one chunk.
Stage ==
  /\ At("next") /\ Port = "console" /\ call.done < Len(call.text)
  /\ memory' = [memory EXCEPT !["console"] =
       [@ EXCEPT !.buffer = NextChunk(call), !.chain = <<Descriptor("buffer", FALSE, FALSE)>>]]
  /\ call' = [call EXCEPT !.done = IF CarriageDue(call) THEN @ ELSE @ + ChunkLength(call),
                          !.carriage = CarriageDue(call), !.pc = "submit"]
  /\ UNCHANGED <<machine, terminal, held, avail, used, answer, device, sent>>

\* submit reads where the used ring stands, and puts chain 0 in its slot.
SubmitSlot ==
  /\ At("submit")
  /\ avail' = [avail EXCEPT ![Port].ring[avail[Port].index % Size] = 0]
  /\ call' = [call EXCEPT !.before = used[Port], !.pc = "index"]
  /\ UNCHANGED <<machine, terminal, held, used, memory, answer, device, sent>>

SubmitIndex ==
  /\ At("index")
  /\ avail' = [avail EXCEPT ![Port].index = (@ + 1) % IndexMod]
  /\ Goto("notify")
  /\ UNCHANGED <<machine, terminal, held, used, memory, answer, device, sent>>

\* Mutant: where the used ring stands is read after the device was told.
SubmitNotifyLate ==
  /\ At("notify")
  /\ device' = [device EXCEPT ![Port].notified = TRUE]
  /\ call' = [call EXCEPT !.before = used[Port], !.pc = "wait"]
  /\ UNCHANGED <<machine, terminal, held, avail, used, memory, answer, sent>>

SubmitNotify ==
  /\ At("notify")
  /\ device' = [device EXCEPT ![Port].notified = TRUE]
  /\ Goto("wait")
  /\ UNCHANGED <<machine, terminal, held, avail, used, memory, answer, sent>>

\* Mutant: the driver goes on as soon as the device was told.
WaitNot ==
  /\ At("wait")
  /\ Goto(IF Port = "block" THEN "collect" ELSE "next")
  /\ UNCHANGED <<machine, terminal, held, avail, used, memory, answer, device, sent>>

\* wait: until the used ring has moved.  What it says was written is not used.
Wait ==
  /\ At("wait")
  /\ used[Port] # call.before
  /\ call' = [call EXCEPT !.before = 0, !.pc = IF Port = "block" THEN "collect" ELSE "next"]
  /\ UNCHANGED <<machine, terminal, held, avail, used, memory, answer, device, sent>>

\* Status::from_u8.
StatusOf(byte) == CASE byte = 0 -> "Ok" [] byte = 2 -> "Unsupported" [] OTHER -> "Error"

\* collect, and read_at's copy of what it wanted; or the error, at once.
Collect ==
  LET take == IF Len(call.into) - call.done < Sector THEN Len(call.into) - call.done ELSE Sector
      data == memory["block"].data
  IN  /\ At("collect")
      /\ \/ /\ StatusOf(memory["block"].status) = "Ok"
            /\ call' = [call EXCEPT !.pc = "next", !.done = @ + take, !.sector = @ + 1,
                          !.into = [i \in DOMAIN @ |-> IF i - call.done \in 1 .. take
                                                       THEN data[i - call.done] ELSE @[i]]]
            /\ UNCHANGED answer
         \/ /\ StatusOf(memory["block"].status) # "Ok"
            /\ call' = None /\ Return("NoProvider", call.into)
      /\ UNCHANGED <<machine, terminal, held, avail, used, memory, device, sent>>

\* A read or a write is done.  With the length known, the whole trace is read
\* over again, if there is room for it.
Whole(length) == ((Header + length + Sector - 1) \div Sector) * Sector
Done ==
  /\ At("next") /\ call.done >= Len(call.into) /\ call.done >= Len(call.text)
  /\ \/ /\ call.op \in {"tile", "write"}
        /\ call' = None /\ Return("Ok", call.into)
     \/ /\ call.op = "length" /\ Whole(call.into[1]) <= TextRoom
        /\ LET into == [i \in 1 .. Whole(call.into[1]) |->
                          IF i \in DOMAIN call.into THEN call.into[i] ELSE Stale]
           IN  call' = [Started("trace", "block", TraceAt, into) EXCEPT !.failed = call.failed]
        /\ UNCHANGED answer
     \/ /\ call.op = "length" /\ Whole(call.into[1]) > TextRoom
        /\ call' = None /\ Return("NoBudget", <<>>)
     \/ /\ call.op = "trace"
        /\ call' = None /\ Return("Ok", SubSeq(call.into, Header + 1, Header + call.into[1]))
  /\ UNCHANGED <<machine, terminal, held, avail, used, memory, device, sent>>

Drive == Prepare \/ Stage \/ SubmitSlot \/ SubmitIndex \/ SubmitNotify \/ Wait \/ Collect \/ Done

-----------------------------------------------------------------------------
(* The device. *)

\* It looks when it is told to, or whenever it likes.
Take(port) ==
  /\ held[port] # 0 /\ device[port].doing = "idle"
  /\ avail[port].index # device[port].seen
  /\ device' = [device EXCEPT ![port].doing = "serving", ![port].seen = (@ + 1) % IndexMod]
  /\ UNCHANGED <<driver, machine, used, sent>>

\* It follows the chain: reads what it may read, writes what it may write.
Chain(port) == memory[port].chain
MayWrite(port, buffer) ==
  \E i \in DOMAIN Chain(port) : Chain(port)[i].buffer = buffer /\ Chain(port)[i].writes

StatusByte(port, fault) ==
  CASE fault = "none" -> 0 [] fault = "error" -> 1 [] fault = "unsupported" -> 2
    [] fault = "silent" -> memory[port].status

Serve(port, fault) ==
  /\ device[port].doing = "serving"
  /\ \/ /\ port = "console" /\ fault = "none"
        /\ sent' = sent \o memory[port].buffer
        /\ UNCHANGED <<memory, call>>
     \/ /\ port = "block"
        /\ memory' = [memory EXCEPT ![port] =
             [@ EXCEPT !.data = IF fault = "none" /\ MayWrite(port, "data")
                                THEN Contents(memory[port].header * Sector, Sector)
                                ELSE [i \in 1 .. Sector |-> Junk],
                       !.status = IF MayWrite(port, "status") THEN StatusByte(port, fault)
                                  ELSE memory[port].status]]
        /\ call' = IF Running THEN [call EXCEPT !.failed = @ \/ fault # "none"] ELSE call
        /\ UNCHANGED sent
  /\ device' = [device EXCEPT ![port].doing = "returning"]
  /\ UNCHANGED <<machine, terminal, held, avail, used, answer>>

GiveBack(port) ==
  /\ device[port].doing = "returning"
  /\ used' = [used EXCEPT ![port] = (@ + 1) % IndexMod]
  /\ device' = [device EXCEPT ![port].doing = "idle", ![port].notified = FALSE]
  /\ UNCHANGED <<driver, machine, sent>>

Works(port) ==
  \/ Take(port) /\ device[port].notified
  \/ \E fault \in Faults \cup {"none"} : Serve(port, fault)
  \/ GiveBack(port)

Next ==
  \/ Open \/ Drive \/ ReadTrace
  \/ /\ Ready
     /\ \/ \E tile \in 0 .. Tiles - 1, room \in {Sector, TileSectors * Sector - 1} : ReadTile(tile, 0, room)
        \/ \E text \in Texts, formatted \in BOOLEAN : WriteText(text, formatted)
  \/ \E port \in Ports :
       \/ Take(port) \/ GiveBack(port)
       \/ \E fault \in Faults \cup {"none"} : Serve(port, fault)

\* The boot core runs, and a device that was told of a chain gets to it.
Spec == Init /\ [][Next]_vars /\ WF_vars(Drive) /\ \A port \in Ports : WF_vars(Works(port))
-----------------------------------------------------------------------------
(* Properties. *)

InFlight(port) == avail[port].index # used[port]

\* range.rs and request.rs: a read answers Ok exactly when the device failed
\* none of its sectors, and then with the bytes of the disk it asked for, never
\* with what an earlier request left in the shared buffer; one that fails has
\* the sectors before the failure and leaves the rest alone.  A trace that does
\* not fit is refused.
ReadExact ==
  answer # None /\ answer.op \in {"tile", "length", "trace"} /\ held["block"] # 0 =>
    /\ answer.result = "Ok" =>
         /\ ~answer.failed
         /\ answer.into = IF answer.op = "tile" THEN Contents(answer.first * Sector, Len(answer.into))
                          ELSE Contents(TraceAt * Sector + Header, machine.length)
    /\ answer.result = "NoProvider" =>
         /\ answer.failed
         /\ \A i \in DOMAIN answer.into :
              answer.into[i] = IF i <= answer.done \/ (answer.op = "trace" /\ i <= Sector)
                               THEN OnDisk(answer.first * Sector + i - 1) ELSE Stale
    /\ answer.result = "NoBudget" => Whole(machine.length) > TextRoom

\* Where byte i of a text is shown, behind a carriage return for each newline
\* up to it.
ShownAt(what, i) ==
  IF what.formatted THEN i + Cardinality({j \in 1 .. i : what.text[j] = "LF"}) ELSE i

\* out is as much as it holds of what a text is to look like: its bytes, and a
\* carriage return before each newline of one that is formatted.
Shows(what, out) ==
  \A k \in DOMAIN out : \E i \in DOMAIN what.text :
    \/ k = ShownAt(what, i) /\ out[k] = what.text[i]
    \/ what.formatted /\ what.text[i] = "LF" /\ k = ShownAt(what, i) - 1 /\ out[k] = "CR"

\* virtio-console: everything written is shown once and in order, however it is
\* cut into chunks, and nothing else but the carriage returns of write_str.
OutputExact ==
  LET ended == answer # None /\ answer.op = "write"
      what  == IF ended THEN answer ELSE call
  IN  ended \/ (Running /\ call.op = "write") =>
        /\ Shows(what, sent)
        /\ ended => Len(sent) = ShownAt(what, Len(what.text))

\* The invariant both drivers state: a chain and the buffers the device reads
\* are not touched until the device has returned them.
FlightUntouched ==
  [][\A port \in Ports : InFlight(port) =>
       /\ memory'[port].chain = memory[port].chain
       /\ memory'[port].header = memory[port].header
       /\ memory'[port].buffer = memory[port].buffer]_vars

\* queue.rs, wait: the driver spins without a limit, on an index that wraps;
\* while the device gets to what it was told of, every call returns.
CallsEnd == Running ~> ~Running
=============================================================================
