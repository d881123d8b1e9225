---------------------------- MODULE DeviceProofs ----------------------------
(***************************************************************************)
(* The console's input path and the virtio drivers.                        *)
(*                                                                         *)
(* For every machine, geometry of the disk, ring size and way the device   *)
(* may fail: a chain and the buffers the device reads are not touched      *)
(* while the device has them, a read answers with exactly the bytes it     *)
(* asked for, or with an error exactly when the device failed it, and a    *)
(* write is shown once, in order and to its end.                           *)
(*                                                                         *)
(* For a queue of any size, a line of any length and any keys: what the    *)
(* handler accepts is what the shell runs, once each and in order; a       *)
(* halted core has run everything queued; a guest that polls runs all that *)
(* was typed before Ctrl-D; and the row shown is the line Enter would run. *)
(***************************************************************************)
EXTENDS Virtio, InputPath, SequenceTheorems, FiniteSetTheorems, TLAPS

-----------------------------------------------------------------------------
(* The drivers: their inductive invariant. *)

Indices == 0 .. IndexMod - 1

\* What is written and shown: the provers do not know that "CR" is a string.
Byte == STRING \cup {"CR"}
Pcs == {"next", "submit", "index", "notify", "wait", "collect"}
CallRecord ==
  [op : {"tile", "length", "trace", "write"}, port : Ports, pc : Pcs,
   sector : Nat, first : Nat, done : Nat, into : Seq(Int), before : Indices,
   text : Seq(Byte), formatted : BOOLEAN, carriage : BOOLEAN, failed : BOOLEAN]
IsCall(c) == c \in CallRecord
MemoryRecord(any) ==
  [chain : any, header : Nat, data : any, status : 0 .. 255, buffer : any]
IsMemory(m) == \E any : m \in MemoryRecord(any)
AvailRecord(any) == [index : Indices, ring : any]
IsAvail(a) == \E any : a \in AvailRecord(any)
DeviceRecord == [doing : {"idle", "serving", "returning"}, seen : Indices, notified : BOOLEAN]

Typed ==
  /\ machine \in Machines
  /\ used \in [Ports -> Indices]
  /\ device \in [Ports -> DeviceRecord]
  /\ avail = [port \in Ports |-> avail[port]] /\ \A port \in Ports : IsAvail(avail[port])
  /\ memory = [port \in Ports |-> memory[port]] /\ \A port \in Ports : IsMemory(memory[port])
  /\ held = [port \in Ports |-> held[port]]
  /\ call = None \/ IsCall(call)

\* The rings of a port: at rest, or one chain on its way.
After(n) == (n + 1) % IndexMod
Waiting(port) == Running /\ call.port = port /\ call.pc \in {"notify", "wait"}
Quiet(port) ==
  device[port].doing = "idle" /\ avail[port].index = used[port] /\ device[port].seen = used[port]
Offered(port) ==
  device[port].doing = "idle" /\ used[port] = call.before /\ device[port].seen = call.before
Taken(port) ==
  /\ device[port].doing \in {"serving", "returning"}
  /\ used[port] = call.before /\ device[port].seen = After(call.before)
Returned(port) ==
  device[port].doing = "idle" /\ used[port] = After(call.before) /\ device[port].seen = used[port]
Posted(port) ==
  avail[port].index = After(call.before) /\ (Offered(port) \/ Taken(port) \/ Returned(port))
Chained ==
  /\ \A port \in Ports : (Waiting(port) => Posted(port)) /\ (~Waiting(port) => Quiet(port))
  /\ At("index") => call.before = used[call.port]

\* A read: how far it is, and what it has copied so far.
Reads == Running /\ call.op # "write"
Expected(i) ==
  IF i <= call.done \/ (call.op = "trace" /\ i <= Sector)
  THEN OnDisk(call.first * Sector + i - 1) ELSE Stale
Reading ==
  /\ Running => (call.op = "write" <=> call.port = "console")
  /\ At("collect") => call.port = "block"
  /\ Reads =>
       /\ call.done <= Len(call.into)
       /\ call.done < Len(call.into) => call.sector * Sector = call.first * Sector + call.done
       /\ call.pc # "next" => call.done < Len(call.into)
       /\ \A i \in 1 .. Len(call.into) : call.into[i] = Expected(i)
       /\ call.op = "length" => call.first = TraceAt /\ Len(call.into) = Sector
       /\ call.op = "trace" => call.first = TraceAt /\ Len(call.into) = Whole(machine.length)

\* The request a read has out: what it asks for, and, once the device has
\* served it, that the status says whether it failed and the data is the disk's.
Served ==
  \/ call.pc = "collect"
  \/ /\ call.pc \in {"notify", "wait"}
     /\ device["block"].doing = "returning" \/ used["block"] # call.before
Request ==
  Reads =>
    /\ call.pc # "next" => memory["block"].header = call.sector /\ memory["block"].chain = ReadChain
    /\ call.pc # "next" /\ ~Served => ~call.failed /\ memory["block"].status = Unwritten
    /\ call.pc = "next" => ~call.failed
    /\ Served => /\ call.failed <=> StatusOf(memory["block"].status) # "Ok"
                 /\ ~call.failed => memory["block"].data = Contents(call.sector * Sector, Sector)

VInv == Typed /\ Chained /\ Reading /\ Request /\ ReadExact

-----------------------------------------------------------------------------
(* Arithmetic: sectors and bytes, and an index that wraps. *)

USE VirtioAssumption

LEMMA WholeSectors ==
  ASSUME NEW n \in Nat
  PROVE  (n * Sector) % Sector = 0 /\ (n * Sector) \div Sector = n /\ n * Sector \in Nat
  OBVIOUS

LEMMA WholeCovers ==
  ASSUME NEW length \in Nat
  PROVE  Whole(length) \in Nat /\ Whole(length) >= Header + length
  <1> DEFINE n == Header + length
  <1>1. n \in Nat
    OBVIOUS
  <1> HIDE DEF n
  <1>2. ((n + Sector - 1) \div Sector) * Sector >= n /\ ((n + Sector - 1) \div Sector) * Sector \in Nat
    BY <1>1
  <1> QED
    BY <1>2 DEF Whole, n

LEMMA AfterDiffers ==
  ASSUME NEW n \in Indices
  PROVE  After(n) \in Indices /\ After(n) # n
  BY DEF After, Indices

-----------------------------------------------------------------------------
(* The running call, and what setting its fields leaves. *)

LEMMA CallFields ==
  ASSUME NEW c, IsCall(c)
  PROVE  /\ c # None /\ c.op \in {"tile", "length", "trace", "write"} /\ c.port \in Ports /\ c.pc \in Pcs
         /\ c.sector \in Nat /\ c.first \in Nat /\ c.done \in Nat /\ c.into \in Seq(Int)
         /\ c.before \in Indices /\ c.failed \in BOOLEAN
         /\ c.text \in Seq(Byte) /\ c.formatted \in BOOLEAN /\ c.carriage \in BOOLEAN
  <1>1. c \in CallRecord
    BY DEF IsCall
  <1> QED
    BY <1>1 DEF CallRecord, None

LEMMA RunningCall ==
  ASSUME Typed
  PROVE  Running <=> IsCall(call)
  BY CallFields DEF Typed, Running

\* The request c makes and how far it is.
SameRequest(c, d) ==
  /\ c.op = d.op /\ c.port = d.port /\ c.sector = d.sector /\ c.first = d.first
  /\ c.done = d.done /\ c.into = d.into
  /\ c.text = d.text /\ c.formatted = d.formatted /\ c.carriage = d.carriage

LEMMA CallGoes ==
  ASSUME NEW c, IsCall(c), NEW to \in Pcs, NEW d, d = [c EXCEPT !.pc = to]
  PROVE  IsCall(d) /\ SameRequest(c, d) /\ d.pc = to /\ d.before = c.before /\ d.failed = c.failed
  <1>1. c \in CallRecord
    BY DEF IsCall
  <1>2. d \in CallRecord
    BY <1>1 DEF CallRecord
  <1> QED
    BY <1>1, <1>2 DEF CallRecord, SameRequest, IsCall

Marked(c, before, to) == [c EXCEPT !.before = before, !.pc = to]

LEMMA CallMarks ==
  ASSUME NEW c, IsCall(c), NEW to \in Pcs, NEW before \in Indices, NEW d, d = Marked(c, before, to)
  PROVE  IsCall(d) /\ SameRequest(c, d) /\ d.pc = to /\ d.before = before /\ d.failed = c.failed
  <1>1. c \in CallRecord
    BY DEF IsCall
  <1>2. d \in CallRecord /\ d = [c EXCEPT !.before = before, !.pc = to]
    BY <1>1 DEF CallRecord, Marked
  <1> QED
    BY <1>1, <1>2 DEF CallRecord, SameRequest, IsCall

Failing(c, failed) == [c EXCEPT !.failed = failed]

LEMMA CallFails ==
  ASSUME NEW c, IsCall(c), NEW failed \in BOOLEAN, NEW d, d = Failing(c, failed)
  PROVE  IsCall(d) /\ SameRequest(c, d) /\ d.pc = c.pc /\ d.before = c.before /\ d.failed = failed
  <1>1. c \in CallRecord
    BY DEF IsCall
  <1>2. d \in CallRecord /\ d = [c EXCEPT !.failed = failed]
    BY <1>1 DEF CallRecord, Failing
  <1> QED
    BY <1>1, <1>2 DEF CallRecord, SameRequest, IsCall

\* A call with done bytes of its text handed over, and its next chunk staged.
Staged(c, done, carriage) == [c EXCEPT !.done = done, !.carriage = carriage, !.pc = "submit"]

LEMMA CallStages ==
  ASSUME NEW c, IsCall(c), NEW done \in Nat, NEW carriage \in BOOLEAN, NEW d, d = Staged(c, done, carriage)
  PROVE  /\ IsCall(d) /\ d.op = c.op /\ d.port = c.port /\ d.text = c.text /\ d.formatted = c.formatted
         /\ d.done = done /\ d.carriage = carriage /\ d.pc = "submit"
  <1>1. c \in CallRecord
    BY DEF IsCall
  <1>2. d \in CallRecord
    BY <1>1 DEF CallRecord, Pcs, Staged
  <1> QED
    BY <1>1, <1>2 DEF CallRecord, Staged, IsCall

\* A call that starts.
Begun(c, op, port, sector, into) ==
  /\ IsCall(c) /\ c.op = op /\ c.port = port /\ c.pc = "next" /\ c.sector = sector
  /\ c.first = sector /\ c.done = 0 /\ c.into = into /\ ~c.failed

LEMMA CallStarts ==
  ASSUME NEW op \in {"tile", "length", "trace", "write"}, NEW port \in Ports, NEW sector \in Nat,
         NEW into \in Seq(Int)
  PROVE  Begun(Started(op, port, sector, into), op, port, sector, into)
  <1> DEFINE c == Started(op, port, sector, into)
  <1>1. c \in CallRecord
    BY DEF CallRecord, Started, Pcs, Indices
  <1> QED
    BY <1>1 DEF IsCall, Started, Begun

-----------------------------------------------------------------------------
(* What steps leave alone. *)

LEMMA AnswerKept ==
  ASSUME ReadExact, answer' = answer, machine' = machine, held'["block"] = held["block"]
  PROVE  ReadExact'
  BY DEF ReadExact, Contents, OnDisk

LEMMA Unanswered ==
  ASSUME answer' = None
  PROVE  ReadExact'
  BY DEF ReadExact

\* The same request, further on.
LEMMA ReadingKept ==
  ASSUME Typed, Reading, Running, IsCall(call'), SameRequest(call, call'), machine' = machine,
         call'.pc # "next" => call.pc # "next" \/ call.done < Len(call.into),
         call'.pc = "collect" => call.port = "block"
  PROVE  Reading' /\ Running' /\ (Reads' <=> Reads)
  <1>1. IsCall(call) /\ Running'
    BY RunningCall, CallFields DEF Running
  <1>2. Reads' <=> Reads
    BY <1>1 DEF Reads, SameRequest
  <1>3. ASSUME Reads PROVE \A i \in 1 .. Len(call'.into) : call'.into[i] = Expected(i)'
    <2>1. \A i : Expected(i)' = Expected(i)
      BY DEF Expected, OnDisk, SameRequest
    <2> QED
      BY <1>3, <2>1 DEF Reading, SameRequest
  <1> QED
    BY <1>1, <1>2, <1>3 DEF Reading, At, SameRequest, Whole

LEMMA QuietAt ==
  ASSUME Chained, NEW port \in Ports, ~Waiting(port)
  PROVE  Quiet(port)
  BY DEF Chained

\* The rings and the device are as they were, and no chain is on its way.
LEMMA QueuedAtRest ==
  ASSUME Chained, \A port \in Ports : ~Waiting(port) /\ ~Waiting(port)',
         UNCHANGED <<avail, used, device>>, ~At("index")'
  PROVE  Chained'
  BY DEF Chained, Quiet

-----------------------------------------------------------------------------
(* Calls that begin. *)

LEMMA Idling ==
  ASSUME VInv, ~Running
  PROVE  \A port \in Ports : ~Waiting(port) /\ Quiet(port)
  BY DEF VInv, Chained, Waiting

LEMMA OpenKeeps ==
  ASSUME VInv, Open
  PROVE  VInv'
  <1>1. /\ UNCHANGED <<machine, avail, used, memory, call, answer, device>>
        /\ held'["block"] = held["block"] /\ held' = [port \in Ports |-> held'[port]]
    BY DEF Open, VInv, Typed, Ports
  <1>2. Typed'
    BY <1>1 DEF VInv, Typed
  <1>3. Chained'
    BY <1>1 DEF VInv, Chained, Waiting, Running, Posted, Quiet, Offered, Taken, Returned, At
  <1>4. Reading'
    BY <1>1 DEF VInv, Reading, Reads, Running, At, Expected, OnDisk, Whole
  <1>5. Request'
    BY <1>1 DEF VInv, Request, Reads, Running, Served, Contents, OnDisk
  <1>6. ReadExact'
    BY <1>1, AnswerKept DEF VInv
  <1> QED
    BY <1>2, <1>3, <1>4, <1>5, <1>6 DEF VInv

\* A read starts where a sector begins, into bytes nothing was read into.
LEMMA ReadStarts ==
  ASSUME VInv, ~Running, NEW op \in {"tile", "length"}, NEW sector \in Nat, NEW count \in Nat,
         call' = Started(op, "block", sector, [i \in 1 .. count |-> Stale]), answer' = None,
         op = "length" => sector = TraceAt /\ count = Sector,
         held' = [held EXCEPT !["block"] = Disk],
         UNCHANGED <<machine, avail, used, memory, device>>
  PROVE  VInv'
  <1> DEFINE into == [i \in 1 .. count |-> Stale]
  <1>1. into \in Seq(Int) /\ Len(into) = count /\ \A i \in 1 .. count : into[i] = Stale
    BY DEF Stale
  <1> HIDE DEF into
  <1>2. /\ IsCall(call') /\ call'.op = op /\ call'.port = "block" /\ call'.pc = "next"
        /\ call'.sector = sector /\ call'.first = sector /\ call'.done = 0
        /\ call'.into = into /\ ~call'.failed
    <2>1. call' = Started(op, "block", sector, into) /\ "block" \in Ports
      BY DEF into, Ports
    <2>2. op \in {"tile", "length", "trace", "write"} /\ into \in Seq(Int)
      BY <1>1
    <2>3. Begun(Started(op, "block", sector, into), op, "block", sector, into)
      BY <2>1, <2>2, CallStarts
    <2> QED
      BY <2>1, <2>3 DEF Begun
  <1>3. Running'
    BY <1>2, CallFields DEF Running
  <1>4. Typed'
    BY <1>2 DEF VInv, Typed
  <1>5. Chained'
    <2>1. \A port \in Ports : ~Waiting(port)' /\ ~Waiting(port)
      BY <1>2, Idling DEF Waiting
    <2> QED
      BY <1>2, <2>1, QueuedAtRest DEF VInv, At
  <1>6. Reading'
    <2>1. \A i \in 1 .. count : Expected(i)' = Stale
      BY <1>2 DEF Expected
    <2> QED
      BY <1>1, <1>2, <2>1 DEF Reading, At, Reads
  <1>7. Request'
    BY <1>2 DEF Request, Served
  <1>8. ReadExact'
    BY Unanswered
  <1> QED
    BY <1>4, <1>5, <1>6, <1>7, <1>8 DEF VInv

LEMMA ReadTileKeeps ==
  ASSUME VInv, NEW tile \in 0 .. Tiles - 1, NEW room \in {Sector, TileSectors * Sector - 1},
         ReadTile(tile, 0, room)
  PROVE  VInv'
  <1>1. PICK bytes \in Nat : bytes = TileSectors * Sector /\ bytes >= 1
    OBVIOUS
  <1>2. PICK count \in Nat : count = IF room < TileSectors * Sector THEN room ELSE TileSectors * Sector
    BY <1>1
  <1>3. PICK sector \in Nat : sector = SectorOf(tile)
    BY DEF SectorOf
  <1>4. sector * Sector + 0 = sector * Sector
    BY <1>3
  <1>5. (sector * Sector) % Sector = 0 /\ (sector * Sector) \div Sector = sector
    BY WholeSectors
  <1>6. /\ ~Running /\ held' = [held EXCEPT !["block"] = Disk]
        /\ UNCHANGED <<machine, avail, used, memory, device>>
        /\ call' = Started("tile", "block", sector, [i \in 1 .. count |-> Stale]) /\ answer' = None
    BY <1>2, <1>3, <1>4, <1>5 DEF ReadTile, ReadAt, Ready
  <1> QED
    BY <1>6, ReadStarts

LEMMA ReadTraceKeeps ==
  ASSUME VInv, ReadTrace
  PROVE  VInv'
  <1>1. /\ ~Running /\ held' = [held EXCEPT !["block"] = Disk]
        /\ UNCHANGED <<machine, avail, used, memory, device>>
    BY DEF ReadTrace, Ready
  <1>2. CASE Disk # 0
    <2>1. PICK sector \in Nat : sector = TraceAt
      BY DEF TraceAt
    <2>2. (sector * Sector) % Sector = 0 /\ (sector * Sector) \div Sector = sector
      BY WholeSectors
    <2>3. call' = Started("length", "block", sector, [i \in 1 .. Sector |-> Stale]) /\ answer' = None
      BY <1>2, <2>1, <2>2 DEF ReadTrace, ReadAt
    <2> QED
      BY <1>1, <2>1, <2>3, ReadStarts
  <1>3. CASE Disk = 0
    <2>1. call' = None /\ held'["block"] = 0
      BY <1>1, <1>3 DEF ReadTrace, VInv, Typed, Ports
    <2>2. ~Running' /\ call' = call
      BY <1>1, <2>1 DEF Running
    <2>3. Typed'
      BY <1>1, <2>1 DEF VInv, Typed
    <2>4. Chained'
      <3>1. \A port \in Ports : ~Waiting(port)' /\ ~Waiting(port)
        BY <1>1, <2>2 DEF Waiting
      <3> QED
        BY <1>1, <2>2, <3>1, QueuedAtRest DEF VInv, At
    <2>5. Reading' /\ Request'
      BY <2>2 DEF Reading, Request, Reads, At
    <2>6. ReadExact'
      BY <2>1 DEF ReadExact
    <2> QED
      BY <2>3, <2>4, <2>5, <2>6 DEF VInv
  <1> QED
    BY <1>2, <1>3

LEMMA WriteTextKeeps ==
  ASSUME VInv, NEW text \in Texts, NEW formatted \in BOOLEAN, WriteText(text, formatted)
  PROVE  VInv'
  <1> DEFINE start == Started("write", "console", 0, <<>>)
  <1>1. /\ ~Running /\ answer' = None
        /\ UNCHANGED <<machine, held, avail, used, memory, device>>
        /\ call' = [start EXCEPT !.text = text, !.formatted = formatted]
    BY DEF WriteText, Ready
  <1>2. start \in CallRecord /\ text \in Seq(Byte)
    <2>1. <<>> \in Seq(Int)
      OBVIOUS
    <2>2. text \in Seq(Byte)
      <3>1. text \in Seq(STRING)
        OBVIOUS
      <3> QED
        BY <3>1 DEF Byte
    <2> QED
      BY <2>1, <2>2 DEF CallRecord, Started, Pcs, Indices, Ports
  <1>3. start.op = "write" /\ start.port = "console" /\ start.pc = "next"
    BY DEF Started
  <1> HIDE DEF start
  <1>4. call' \in CallRecord
    BY <1>1, <1>2 DEF CallRecord
  <1>5. IsCall(call') /\ call'.op = "write" /\ call'.port = "console" /\ call'.pc = "next"
    <2>1. IsCall(call')
      BY <1>4 DEF IsCall
    <2>2. call'.op = start.op /\ call'.port = start.port /\ call'.pc = start.pc
      BY <1>1, <1>2 DEF CallRecord
    <2> QED
      BY <1>3, <2>1, <2>2
  <1>6. Typed'
    BY <1>1, <1>5 DEF VInv, Typed
  <1>7. Chained'
    <2>1. \A port \in Ports : ~Waiting(port)' /\ ~Waiting(port)
      BY <1>1, <1>5, Idling DEF Waiting
    <2> QED
      BY <1>1, <1>5, <2>1, QueuedAtRest DEF VInv, At
  <1>8. Reading' /\ Request'
    BY <1>5 DEF Reading, Request, Reads, At
  <1> QED
    BY <1>1, <1>6, <1>7, <1>8, Unanswered DEF VInv

-----------------------------------------------------------------------------
(* The driver's steps of one request. *)

LEMMA DriverCall ==
  ASSUME VInv, NEW to, At(to)
  PROVE  /\ Running /\ IsCall(call) /\ call.pc = to
         /\ call.op \in {"tile", "length", "trace", "write"} /\ call.port \in Ports
         /\ call.sector \in Nat /\ call.first \in Nat /\ call.done \in Nat /\ call.into \in Seq(Int)
         /\ call.before \in Indices /\ call.failed \in BOOLEAN
         /\ call.op = "write" <=> call.port = "console"
  <1>1. Running /\ IsCall(call) /\ call.pc = to
    BY RunningCall DEF At, VInv
  <1> QED
    BY <1>1, CallFields DEF VInv, Reading

LEMMA NoneWaits ==
  ASSUME call.pc \notin {"notify", "wait"}
  PROVE  \A port \in Ports : ~Waiting(port)
  BY DEF Waiting

LEMMA MemoryWritten ==
  ASSUME Typed, NEW port \in Ports, NEW e, IsMemory(e), memory' = [memory EXCEPT ![port] = e]
  PROVE  /\ memory' = [p \in Ports |-> memory'[p]] /\ \A p \in Ports : IsMemory(memory'[p])
         /\ memory'[port] = e /\ \A p \in Ports : p # port => memory'[p] = memory[p]
  <1>1. memory' = [p \in Ports |-> IF p = port THEN e ELSE memory[p]]
    BY DEF Typed
  <1> QED
    BY <1>1 DEF Typed

LEMMA MemoryFields ==
  ASSUME NEW m, IsMemory(m)
  PROVE  m.header \in Nat /\ m.status \in 0 .. 255
  <1>1. PICK any : m \in MemoryRecord(any)
    BY DEF IsMemory
  <1> QED
    BY <1>1 DEF MemoryRecord

\* The rings as read_sector leaves them, asking for a sector.
Asking(m, header) == [m EXCEPT !.header = header, !.status = Unwritten, !.chain = ReadChain]

LEMMA MemoryPrepared ==
  ASSUME NEW m, IsMemory(m), NEW header, header \in Nat
  PROVE  /\ IsMemory(Asking(m, header)) /\ Asking(m, header).header = header
         /\ Asking(m, header).status = Unwritten /\ Asking(m, header).chain = ReadChain
  <1>1. PICK any : m \in MemoryRecord(any)
    BY DEF IsMemory
  <1>2. Unwritten \in 0 .. 255
    BY DEF Unwritten
  <1>3. /\ Asking(m, header) \in MemoryRecord(any \cup {ReadChain})
        /\ Asking(m, header).header = header
        /\ Asking(m, header).status = Unwritten /\ Asking(m, header).chain = ReadChain
    BY <1>1, <1>2 DEF MemoryRecord, Asking
  <1> QED
    BY <1>3 DEF IsMemory

LEMMA MemoryStaged ==
  ASSUME NEW m, IsMemory(m), NEW buffer, NEW chain, NEW e,
         e = [m EXCEPT !.buffer = buffer, !.chain = chain]
  PROVE  IsMemory(e)
  <1>1. PICK any : m \in MemoryRecord(any)
    BY DEF IsMemory
  <1>2. e \in MemoryRecord(any \cup {buffer, chain})
    BY <1>1 DEF MemoryRecord
  <1> QED
    BY <1>2 DEF IsMemory

\* The rings as the device leaves them.
Answered(m, data, status) == [m EXCEPT !.data = data, !.status = status]

LEMMA MemoryServed ==
  ASSUME NEW m, IsMemory(m), NEW data, NEW status, status \in 0 .. 255, NEW e,
         e = Answered(m, data, status)
  PROVE  /\ IsMemory(e) /\ e.data = data /\ e.status = status
         /\ e.chain = m.chain /\ e.header = m.header /\ e.buffer = m.buffer
  <1>1. PICK any : m \in MemoryRecord(any)
    BY DEF IsMemory
  <1>2. /\ e \in MemoryRecord(any \cup {data}) /\ e.data = data /\ e.status = status
        /\ e.chain = m.chain /\ e.header = m.header /\ e.buffer = m.buffer
    BY <1>1 DEF MemoryRecord, Answered
  <1> QED
    BY <1>2 DEF IsMemory

LEMMA PrepareKeeps ==
  ASSUME VInv, Prepare
  PROVE  VInv'
  <1>1. /\ At("next") /\ call.port = "block" /\ call.done < Len(call.into)
        /\ call' = [call EXCEPT !.pc = "submit"]
        /\ UNCHANGED <<machine, held, avail, used, answer, device>>
    BY DEF Prepare, Goto, Port
  <1> DEFINE e == Asking(memory["block"], call.sector)
  <1>2. memory' = [memory EXCEPT !["block"] = e]
    BY DEF Prepare, Asking
  <1>3. /\ Running /\ IsCall(call) /\ call.pc = "next" /\ call.sector \in Nat
    BY <1>1, DriverCall
  <1>4. IsCall(call') /\ SameRequest(call, call') /\ call'.pc = "submit" /\ call'.failed = call.failed
    <2>1. "submit" \in Pcs
      BY DEF Pcs
    <2> QED
      BY <1>1, <1>3, <2>1, CallGoes
  <1>5. IsMemory(memory["block"]) /\ "block" \in Ports
    BY DEF VInv, Typed, Ports
  <1>6. IsMemory(e) /\ e.header = call.sector /\ e.status = Unwritten /\ e.chain = ReadChain
    BY <1>3, <1>5, MemoryPrepared
  <1> HIDE DEF e
  <1>7. /\ memory' = [p \in Ports |-> memory'[p]] /\ \A p \in Ports : IsMemory(memory'[p])
        /\ memory'["block"] = e
    BY <1>2, <1>5, <1>6, MemoryWritten DEF VInv
  <1>8. Typed'
    BY <1>1, <1>4, <1>7 DEF VInv, Typed
  <1>9. Chained'
    <2>1. \A port \in Ports : ~Waiting(port) /\ ~Waiting(port)'
      BY <1>3, <1>4, NoneWaits DEF Waiting
    <2> QED
      BY <1>1, <1>4, <2>1, QueuedAtRest DEF VInv, At
  <1>10. Reading' /\ (Reads' <=> Reads)
    BY <1>1, <1>3, <1>4, ReadingKept DEF VInv
  <1>11. Request'
    <2>1. ~Served'
      BY <1>4 DEF Served
    <2>2. Reads => ~call.failed
      BY <1>3 DEF VInv, Request
    <2> QED
      BY <1>4, <1>6, <1>7, <1>10, <2>1, <2>2 DEF Request, SameRequest
  <1>12. ReadExact'
    BY <1>1, AnswerKept DEF VInv
  <1> QED
    BY <1>8, <1>9, <1>10, <1>11, <1>12 DEF VInv

\* How far a write is with its next chunk staged: a carriage return is a chunk
\* that takes nothing of the text.
Further(c) == IF CarriageDue(c) THEN c.done ELSE c.done + ChunkLength(c)

LEMMA ChunkFits ==
  ASSUME NEW c, IsCall(c), c.done < Len(c.text)
  PROVE  /\ ChunkLength(c) \in Nat /\ ChunkLength(c) >= 1 /\ CarriageDue(c) \in BOOLEAN
         /\ c.done + ChunkLength(c) <= Len(c.text) /\ (c.formatted => ChunkLength(c) = 1)
         /\ Further(c) \in Nat /\ Further(c) <= Len(c.text)
  <1>1. c.text \in Seq(Byte) /\ c.done \in Nat /\ c.formatted \in BOOLEAN /\ c.carriage \in BOOLEAN
    BY CallFields
  <1>2. CarriageDue(c) \in BOOLEAN
    BY <1>1 DEF CarriageDue
  <1>3. PICK len \in Nat, done \in Nat, size \in Nat :
          len = Len(c.text) /\ done = c.done /\ size = Chunk /\ size >= 1
    BY <1>1
  <1>4. ChunkLength(c) = IF c.formatted THEN 1 ELSE IF len - done < size THEN len - done ELSE size
    BY <1>3 DEF ChunkLength
  <1>5. ChunkLength(c) \in Nat /\ ChunkLength(c) >= 1 /\ done + ChunkLength(c) <= len
    BY <1>3, <1>4
  <1> QED
    BY <1>2, <1>3, <1>4, <1>5 DEF Further

LEMMA StagedCall ==
  ASSUME IsCall(call), call.done < Len(call.text),
         call' = [call EXCEPT !.done = IF CarriageDue(call) THEN @ ELSE @ + ChunkLength(call),
                              !.carriage = CarriageDue(call), !.pc = "submit"]
  PROVE  /\ IsCall(call') /\ call'.op = call.op /\ call'.port = call.port /\ call'.pc = "submit"
         /\ call'.text = call.text /\ call'.formatted = call.formatted
         /\ call'.done = Further(call) /\ call'.carriage = CarriageDue(call)
  <1>1. PICK done \in Nat, carriage \in BOOLEAN : done = Further(call) /\ carriage = CarriageDue(call)
    BY ChunkFits
  <1>2. call' = Staged(call, done, carriage)
    BY <1>1 DEF Staged, Further
  <1>3. /\ IsCall(call') /\ call'.op = call.op /\ call'.port = call.port /\ call'.pc = "submit"
        /\ call'.text = call.text /\ call'.formatted = call.formatted
        /\ call'.done = done /\ call'.carriage = carriage
    <2>1. IsCall(call) /\ IsCall(Staged(call, done, carriage))
      BY CallStages, Zenon
    <2> QED
      BY <1>2, <2>1 DEF IsCall, CallRecord, Staged
  <1> QED
    BY <1>1, <1>3

LEMMA StageKeeps ==
  ASSUME VInv, Stage
  PROVE  VInv'
  <1> DEFINE m == memory["console"]
             chain == <<Descriptor("buffer", FALSE, FALSE)>>
             e == [m EXCEPT !.buffer = NextChunk(call), !.chain = chain]
  <1>1. /\ At("next") /\ call.port = "console" /\ call.done < Len(call.text)
        /\ UNCHANGED <<machine, held, avail, used, answer, device>>
        /\ memory' = [memory EXCEPT !["console"] = e]
    BY DEF Stage, Port
  <1>2. Running /\ IsCall(call) /\ call.pc = "next" /\ call.op = "write"
    BY <1>1, DriverCall
  <1>3. /\ IsCall(call') /\ call'.op = call.op /\ call'.port = call.port /\ call'.pc = "submit"
    BY <1>1, <1>2, StagedCall DEF Stage
  <1>4. IsMemory(m) /\ "console" \in Ports
    BY DEF VInv, Typed, Ports
  <1>5. IsMemory(e)
    <2> DEFINE buffer == NextChunk(call)
    <2>1. e = [m EXCEPT !.buffer = buffer, !.chain = chain]
      OBVIOUS
    <2> HIDE DEF e, m, buffer, chain
    <2> QED
      BY <1>4, <2>1, MemoryStaged
  <1> HIDE DEF e, m
  <1>6. memory' = [p \in Ports |-> memory'[p]] /\ \A p \in Ports : IsMemory(memory'[p])
    BY <1>1, <1>4, <1>5, MemoryWritten DEF VInv
  <1>7. Typed'
    BY <1>1, <1>3, <1>6 DEF VInv, Typed
  <1>8. Chained'
    <2>1. \A port \in Ports : ~Waiting(port) /\ ~Waiting(port)'
      BY <1>2, <1>3, NoneWaits DEF Waiting
    <2> QED
      BY <1>1, <1>3, <2>1, QueuedAtRest DEF VInv, At
  <1>9. Reading' /\ Request'
    BY <1>1, <1>2, <1>3 DEF Reading, Request, Reads, At
  <1>10. ReadExact'
    BY <1>1, AnswerKept DEF VInv
  <1> QED
    BY <1>7, <1>8, <1>9, <1>10 DEF VInv
\* The available ring with a slot filled, or one entry longer.
Filled(a, i) == [a EXCEPT !.ring[i] = 0]
Longer(a) == [a EXCEPT !.index = After(a.index)]

LEMMA RingFilled ==
  ASSUME NEW a, IsAvail(a), NEW i
  PROVE  IsAvail(Filled(a, i)) /\ Filled(a, i).index = a.index
  <1>1. PICK any : a \in AvailRecord(any)
    BY DEF IsAvail
  <1> DEFINE ring == [a.ring EXCEPT ![i] = 0]
  <1>2. Filled(a, i) = [a EXCEPT !.ring = ring]
    BY DEF Filled
  <1> HIDE DEF ring
  <1>3. Filled(a, i) \in AvailRecord(any \cup {ring}) /\ Filled(a, i).index = a.index
    BY <1>1, <1>2 DEF AvailRecord
  <1> QED
    BY <1>3 DEF IsAvail

LEMMA RingLonger ==
  ASSUME NEW a, IsAvail(a)
  PROVE  IsAvail(Longer(a)) /\ Longer(a).index = After(a.index) /\ a.index \in Indices
  <1>1. PICK any : a \in AvailRecord(any)
    BY DEF IsAvail
  <1>2. a.index \in Indices /\ After(a.index) \in Indices
    BY <1>1, AfterDiffers DEF AvailRecord
  <1>3. Longer(a) \in AvailRecord(any) /\ Longer(a).index = After(a.index)
    BY <1>1, <1>2 DEF AvailRecord, Longer
  <1> QED
    BY <1>2, <1>3 DEF IsAvail

LEMMA AvailWritten ==
  ASSUME Typed, NEW port \in Ports, NEW e, IsAvail(e), avail' = [avail EXCEPT ![port] = e]
  PROVE  /\ avail' = [p \in Ports |-> avail'[p]] /\ \A p \in Ports : IsAvail(avail'[p])
         /\ avail'[port] = e /\ \A p \in Ports : p # port => avail'[p] = avail[p]
  <1>1. avail' = [p \in Ports |-> IF p = port THEN e ELSE avail[p]]
    BY DEF Typed
  <1> QED
    BY <1>1 DEF Typed

\* A read's request, untouched while the driver moves on.
LEMMA RequestKept ==
  ASSUME Request, IsCall(call), SameRequest(call, call'), Reads' <=> Reads, machine' = machine,
         memory' = memory, call'.failed = call.failed, call.pc # "next", call'.pc # "next",
         Reads => (Served' <=> Served)
  PROVE  Request'
  <1>1. \A from, count : Contents(from, count)' = Contents(from, count)
    BY DEF Contents, OnDisk
  <1> QED
    BY <1>1 DEF Request, SameRequest

LEMMA SubmitSlotKeeps ==
  ASSUME VInv, SubmitSlot
  PROVE  VInv'
  <1>1. At("submit") /\ UNCHANGED <<machine, held, used, memory, answer, device>>
    BY DEF SubmitSlot
  <1>2. PICK port \in Ports : port = call.port
    BY <1>1, DriverCall
  <1>3. Running /\ IsCall(call) /\ call.pc = "submit" /\ used[port] \in Indices
    BY <1>1, DriverCall DEF VInv, Typed
  <1>4. PICK i : i = avail[port].index % Size
    OBVIOUS
  <1> DEFINE e == Filled(avail[port], i)
  <1>5. avail' = [avail EXCEPT ![port] = e] /\ call' = Marked(call, used[port], "index")
    BY <1>2, <1>4 DEF SubmitSlot, Port, Filled, Marked
  <1>6. IsAvail(e) /\ e.index = avail[port].index
    BY RingFilled DEF VInv, Typed
  <1>7. /\ IsCall(call') /\ SameRequest(call, call') /\ call'.pc = "index"
        /\ call'.before = used[port] /\ call'.failed = call.failed
    <2>1. "index" \in Pcs
      BY DEF Pcs
    <2> QED
      BY <1>3, <1>5, <2>1, CallMarks
  <1> HIDE DEF e
  <1>8. /\ avail' = [p \in Ports |-> avail'[p]] /\ \A p \in Ports : IsAvail(avail'[p])
        /\ \A p \in Ports : avail'[p].index = avail[p].index
    BY <1>5, <1>6, AvailWritten DEF VInv
  <1>9. Typed'
    BY <1>1, <1>7, <1>8 DEF VInv, Typed
  <1>10. Chained'
    <2>1. \A p \in Ports : ~Waiting(p) /\ ~Waiting(p)'
      BY <1>3, <1>7, NoneWaits DEF Waiting
    <2>2. \A p \in Ports : Quiet(p)'
      BY <1>1, <1>8, <2>1, QuietAt DEF VInv, Quiet
    <2> QED
      BY <1>1, <1>2, <1>7, <2>1, <2>2 DEF Chained, SameRequest
  <1>11. Reading' /\ (Reads' <=> Reads)
    BY <1>1, <1>3, <1>7, ReadingKept DEF VInv
  <1>12. Request'
    <2>1. ~Served /\ ~Served'
      BY <1>3, <1>7 DEF Served
    <2> QED
      BY <1>1, <1>3, <1>7, <1>11, <2>1, RequestKept DEF VInv
  <1>13. ReadExact'
    BY <1>1, AnswerKept DEF VInv
  <1> QED
    BY <1>9, <1>10, <1>11, <1>12, <1>13 DEF VInv

LEMMA SubmitIndexKeeps ==
  ASSUME VInv, SubmitIndex
  PROVE  VInv'
  <1>1. /\ At("index") /\ call' = [call EXCEPT !.pc = "notify"]
        /\ UNCHANGED <<machine, held, used, memory, answer, device>>
    BY DEF SubmitIndex, Goto
  <1>2. PICK port \in Ports : port = call.port
    BY <1>1, DriverCall
  <1>3. Running /\ IsCall(call) /\ call.pc = "index" /\ call.before = used[port]
    BY <1>1, <1>2, DriverCall DEF VInv, Chained
  <1> DEFINE e == Longer(avail[port])
  <1>4. avail' = [avail EXCEPT ![port] = e]
    BY <1>2 DEF SubmitIndex, Port, Longer, After
  <1>5. IsAvail(e) /\ e.index = After(avail[port].index)
    BY RingLonger DEF VInv, Typed
  <1>6. /\ IsCall(call') /\ SameRequest(call, call') /\ call'.pc = "notify"
        /\ call'.before = call.before /\ call'.failed = call.failed
    <2>1. "notify" \in Pcs
      BY DEF Pcs
    <2> QED
      BY <1>1, <1>3, <2>1, CallGoes
  <1> HIDE DEF e
  <1>7. /\ avail' = [p \in Ports |-> avail'[p]] /\ \A p \in Ports : IsAvail(avail'[p])
        /\ avail'[port] = e /\ \A p \in Ports : p # port => avail'[p] = avail[p]
    BY <1>4, <1>5, AvailWritten DEF VInv
  <1>8. Typed'
    BY <1>1, <1>6, <1>7 DEF VInv, Typed
  <1>9. \A p \in Ports : Quiet(p)
    BY <1>3, NoneWaits, QuietAt DEF VInv
  <1>10. Chained'
    <2>1. \A p \in Ports : p # port => ~Waiting(p)' /\ Quiet(p)'
      BY <1>1, <1>2, <1>6, <1>7, <1>9 DEF Waiting, Quiet, SameRequest
    <2>2. Running'
      BY <1>6, CallFields DEF Running
    <2>3. Waiting(port)' /\ Posted(port)'
      BY <1>1, <1>2, <1>3, <1>5, <1>6, <1>7, <1>9, <2>2 DEF Waiting, Quiet, SameRequest, Posted, Offered
    <2> QED
      BY <1>6, <2>1, <2>3 DEF Chained, At
  <1>11. Reading' /\ (Reads' <=> Reads)
    BY <1>1, <1>3, <1>6, ReadingKept DEF VInv
  <1>12. Request'
    <2>1. ~Served
      BY <1>3 DEF Served
    <2>2. ASSUME Reads PROVE ~Served'
      <3>1. port = "block"
        BY <1>2, <2>2 DEF VInv, Reading, Reads, Ports
      <3> QED
        BY <1>1, <1>3, <1>6, <1>9, <3>1 DEF Served, Quiet
    <2> QED
      BY <1>1, <1>3, <1>6, <1>11, <2>1, <2>2, RequestKept DEF VInv
  <1>13. ReadExact'
    BY <1>1, AnswerKept DEF VInv
  <1> QED
    BY <1>8, <1>10, <1>11, <1>12, <1>13 DEF VInv
LEMMA SubmitNotifyKeeps ==
  ASSUME VInv, SubmitNotify
  PROVE  VInv'
  <1>1. /\ At("notify") /\ call' = [call EXCEPT !.pc = "wait"]
        /\ UNCHANGED <<machine, held, avail, used, memory, answer>>
    BY DEF SubmitNotify, Goto
  <1>2. PICK port \in Ports : port = call.port
    BY <1>1, DriverCall
  <1>3. Running /\ IsCall(call) /\ call.pc = "notify"
    BY <1>1, DriverCall
  <1>4. device' = [device EXCEPT ![port].notified = TRUE] /\ device \in [Ports -> DeviceRecord]
    BY <1>2 DEF SubmitNotify, Port, VInv, Typed
  <1>5. /\ device' \in [Ports -> DeviceRecord]
        /\ \A p \in Ports : device'[p].doing = device[p].doing /\ device'[p].seen = device[p].seen
    BY <1>4 DEF DeviceRecord
  <1>6. /\ IsCall(call') /\ SameRequest(call, call') /\ call'.pc = "wait"
        /\ call'.before = call.before /\ call'.failed = call.failed
    <2>1. "wait" \in Pcs
      BY DEF Pcs
    <2> QED
      BY <1>1, <1>3, <2>1, CallGoes
  <1>7. Typed'
    BY <1>1, <1>5, <1>6 DEF VInv, Typed
  <1>8. Reading' /\ Running' /\ (Reads' <=> Reads)
    BY <1>1, <1>3, <1>6, ReadingKept DEF VInv
  <1>9. Chained'
    <2>1. ASSUME NEW p \in Ports
          PROVE  /\ Waiting(p)' <=> Waiting(p)
                 /\ Posted(p)' <=> Posted(p)
                 /\ Quiet(p)' <=> Quiet(p)
      <3>1. Waiting(p)' <=> Waiting(p)
        BY <1>3, <1>6, <1>8 DEF Waiting, SameRequest
      <3>2. Posted(p)' <=> Posted(p)
        BY <1>1, <1>5, <1>6 DEF Posted, Offered, Taken, Returned
      <3>3. Quiet(p)' <=> Quiet(p)
        BY <1>1, <1>5 DEF Quiet
      <3> QED
        BY <3>1, <3>2, <3>3
    <2> QED
      BY <1>6, <2>1 DEF VInv, Chained, At
  <1>10. Request'
    <2>1. Served' <=> Served
      BY <1>1, <1>3, <1>5, <1>6 DEF Served, Ports
    <2> QED
      BY <1>1, <1>3, <1>6, <1>8, <2>1, RequestKept DEF VInv
  <1>11. ReadExact'
    BY <1>1, AnswerKept DEF VInv
  <1> QED
    BY <1>7, <1>8, <1>9, <1>10, <1>11 DEF VInv

LEMMA WaitKeeps ==
  ASSUME VInv, Wait
  PROVE  VInv'
  <1>1. At("wait") /\ UNCHANGED <<machine, held, avail, used, memory, answer, device>>
    BY DEF Wait
  <1>2. PICK port \in Ports : port = call.port
    BY <1>1, DriverCall
  <1>3. Running /\ IsCall(call) /\ call.pc = "wait" /\ (call.op = "write" <=> port = "console")
    BY <1>1, <1>2, DriverCall
  <1>4. PICK to \in Pcs : to = IF port = "block" THEN "collect" ELSE "next"
    BY DEF Pcs
  <1>5. used[port] # call.before /\ call' = Marked(call, 0, to)
    BY <1>2, <1>4 DEF Wait, Port, Marked
  <1>6. /\ IsCall(call') /\ SameRequest(call, call') /\ call'.pc = to
        /\ call'.failed = call.failed
    <2>1. 0 \in Indices
      BY DEF Indices
    <2> QED
      BY <1>3, <1>5, <2>1, CallMarks
  <1>7. Typed'
    BY <1>1, <1>6 DEF VInv, Typed
  <1>8. Reading' /\ Running' /\ (Reads' <=> Reads)
    <2>1. call'.pc = "collect" => call.port = "block"
      BY <1>2, <1>4, <1>6
    <2> QED
      BY <1>1, <1>3, <1>6, <2>1, ReadingKept DEF VInv
  <1>9. Chained'
    <2>1. \A p \in Ports : ~Waiting(p)'
      BY <1>4, <1>6 DEF Waiting
    <2>2. Waiting(port) /\ Returned(port) /\ avail[port].index = After(call.before)
      BY <1>2, <1>3, <1>5 DEF VInv, Chained, Waiting, Posted, Offered, Taken
    <2>3. \A p \in Ports : Quiet(p)
      <3>1. \A p \in Ports : p # port => Quiet(p)
        BY <1>2, QuietAt DEF VInv, Waiting
      <3> QED
        BY <2>2, <3>1 DEF Quiet, Returned
    <2>4. \A p \in Ports : Quiet(p)'
      BY <1>1, <2>3 DEF Quiet
    <2> QED
      BY <1>4, <1>6, <2>1, <2>4 DEF Chained, At
  <1>10. Request'
    <2> SUFFICES ASSUME Reads PROVE Request'
      BY <1>8 DEF Request
    <2>1. port = "block"
      BY <1>3 DEF Reads, Ports
    <2>2. Served /\ Served' /\ to = "collect"
      BY <1>3, <1>4, <1>5, <1>6, <2>1 DEF Served
    <2> QED
      BY <1>1, <1>3, <1>6, <1>8, <2>2, RequestKept DEF VInv
  <1>11. ReadExact'
    BY <1>1, AnswerKept DEF VInv
  <1> QED
    BY <1>7, <1>8, <1>9, <1>10, <1>11 DEF VInv

-----------------------------------------------------------------------------
(* The device's steps. *)

\* A device that is not idle has the chain of the running call.
LEMMA Busy ==
  ASSUME VInv, NEW port \in Ports,
         device[port].doing # "idle" \/ avail[port].index # device[port].seen
  PROVE  /\ Waiting(port) /\ Posted(port) /\ Running /\ IsCall(call)
         /\ call.port = port /\ call.pc \in {"notify", "wait"} /\ call.before \in Indices
         /\ \A p \in Ports : p # port => ~Waiting(p) /\ Quiet(p)
  <1>1. Waiting(port) /\ Posted(port)
    BY DEF VInv, Chained, Quiet
  <1>2. Running /\ IsCall(call) /\ call.port = port /\ call.pc \in {"notify", "wait"}
    BY <1>1, RunningCall DEF Waiting, VInv
  <1>3. call.before \in Indices
    BY <1>2, CallFields
  <1>4. \A p \in Ports : p # port => ~Waiting(p) /\ Quiet(p)
    BY <1>2, QuietAt DEF VInv, Waiting
  <1> QED
    BY <1>1, <1>2, <1>3, <1>4

LEMMA TakeKeeps ==
  ASSUME VInv, NEW port \in Ports, Take(port)
  PROVE  VInv'
  <1>1. /\ UNCHANGED <<machine, held, avail, used, memory, call, answer>>
        /\ device[port].doing = "idle" /\ avail[port].index # device[port].seen
        /\ device' = [device EXCEPT ![port].doing = "serving", ![port].seen = After(@)]
    BY DEF Take, driver, After
  <1>2. /\ Waiting(port) /\ Posted(port) /\ Running /\ IsCall(call) /\ call.port = port
        /\ call.pc \in {"notify", "wait"} /\ call.before \in Indices
        /\ \A p \in Ports : p # port => ~Waiting(p) /\ Quiet(p)
    BY <1>1, Busy
  <1>3. Offered(port) /\ avail[port].index = After(call.before)
    BY <1>1, <1>2 DEF Posted, Taken, Returned
  <1>4. /\ device' \in [Ports -> DeviceRecord] /\ device'[port].doing = "serving"
        /\ device'[port].seen = After(call.before)
        /\ \A p \in Ports : p # port => device'[p] = device[p]
    <2>1. device \in [Ports -> DeviceRecord] /\ device[port].seen = call.before
      BY <1>3 DEF VInv, Typed, Offered
    <2>2. device[port].seen \in Indices /\ After(device[port].seen) \in Indices
      BY <1>2, <2>1, AfterDiffers
    <2> QED
      BY <1>1, <2>1, <2>2 DEF DeviceRecord
  <1>5. Typed'
    BY <1>1, <1>4 DEF VInv, Typed
  <1>6. Chained'
    <2>1. Waiting(port)' /\ Posted(port)'
      BY <1>1, <1>2, <1>3, <1>4 DEF Waiting, Running, Posted, Taken, Offered
    <2>2. \A p \in Ports : p # port => ~Waiting(p)' /\ Quiet(p)'
      BY <1>1, <1>2, <1>4 DEF Waiting, Running, Quiet
    <2> QED
      BY <1>1, <1>2, <2>1, <2>2 DEF Chained, At, Running
  <1>7. Reading'
    BY <1>1 DEF VInv, Reading, Reads, Running, At, Expected, OnDisk, Whole
  <1>8. Request'
    <2>1. Served' <=> Served
      BY <1>1, <1>2, <1>4 DEF Served, Ports
    <2>2. Reads' <=> Reads
      BY <1>1 DEF Reads, Running
    <2>3. \A from, count : Contents(from, count)' = Contents(from, count)
      BY <1>1 DEF Contents, OnDisk
    <2> QED
      BY <1>1, <2>1, <2>2, <2>3 DEF VInv, Request
  <1>9. ReadExact'
    BY <1>1, AnswerKept DEF VInv
  <1> QED
    BY <1>5, <1>6, <1>7, <1>8, <1>9 DEF VInv

LEMMA GiveBackKeeps ==
  ASSUME VInv, NEW port \in Ports, GiveBack(port)
  PROVE  VInv'
  <1>1. /\ UNCHANGED <<machine, held, avail, memory, call, answer>>
        /\ device[port].doing = "returning" /\ used' = [used EXCEPT ![port] = After(@)]
        /\ device' = [device EXCEPT ![port].doing = "idle", ![port].notified = FALSE]
    BY DEF GiveBack, driver, After
  <1>2. /\ Waiting(port) /\ Posted(port) /\ Running /\ IsCall(call) /\ call.port = port
        /\ call.pc \in {"notify", "wait"} /\ call.before \in Indices
        /\ \A p \in Ports : p # port => ~Waiting(p) /\ Quiet(p)
    BY <1>1, Busy
  <1>3. Taken(port) /\ avail[port].index = After(call.before)
    BY <1>1, <1>2 DEF Posted, Offered, Returned
  <1>4. /\ device' \in [Ports -> DeviceRecord] /\ device'[port].doing = "idle"
        /\ device'[port].seen = After(call.before)
        /\ \A p \in Ports : p # port => device'[p] = device[p]
    <2>1. device \in [Ports -> DeviceRecord] /\ device[port].seen = After(call.before)
      BY <1>3 DEF VInv, Typed, Taken
    <2> QED
      BY <1>1, <2>1 DEF DeviceRecord
  <1>5. /\ used' \in [Ports -> Indices] /\ used'[port] = After(call.before) /\ After(call.before) # call.before
        /\ \A p \in Ports : p # port => used'[p] = used[p]
    <2>1. used \in [Ports -> Indices] /\ used[port] = call.before
      BY <1>3 DEF VInv, Typed, Taken
    <2>2. After(call.before) \in Indices /\ After(call.before) # call.before
      BY <1>2, AfterDiffers
    <2> QED
      BY <1>1, <2>1, <2>2
  <1>6. Typed'
    BY <1>1, <1>4, <1>5 DEF VInv, Typed
  <1>7. Chained'
    <2>1. Waiting(port)' /\ Posted(port)'
      BY <1>1, <1>2, <1>3, <1>4, <1>5 DEF Waiting, Running, Posted, Returned
    <2>2. \A p \in Ports : p # port => ~Waiting(p)' /\ Quiet(p)'
      BY <1>1, <1>2, <1>4, <1>5 DEF Waiting, Running, Quiet
    <2> QED
      BY <1>1, <1>2, <2>1, <2>2 DEF Chained, At, Running
  <1>8. Reading'
    BY <1>1 DEF VInv, Reading, Reads, Running, At, Expected, OnDisk, Whole
  <1>9. Request'
    <2>1. ASSUME Reads PROVE Served' <=> Served
      <3>1. port = "block"
        BY <1>2, <2>1 DEF VInv, Reading, Reads, Ports
      <3> QED
        BY <1>1, <1>2, <1>4, <1>5, <3>1 DEF Served
    <2>2. Reads' <=> Reads
      BY <1>1 DEF Reads, Running
    <2>3. \A from, count : Contents(from, count)' = Contents(from, count)
      BY <1>1 DEF Contents, OnDisk
    <2> QED
      BY <1>1, <2>1, <2>2, <2>3 DEF VInv, Request
  <1>10. ReadExact'
    BY <1>1, AnswerKept DEF VInv
  <1> QED
    BY <1>6, <1>7, <1>8, <1>9, <1>10 DEF VInv
\* A chain a device serves on the console changes neither memory nor the call.
LEMMA ServeConsoleKeeps ==
  ASSUME VInv, NEW fault, Serve("console", fault)
  PROVE  VInv'
  <1> DEFINE port == "console"
  <1>1. /\ UNCHANGED <<machine, held, avail, used, memory, call, answer>>
        /\ device[port].doing = "serving" /\ port \in Ports
        /\ device' = [device EXCEPT ![port].doing = "returning"]
    BY DEF Serve, Ports
  <1> HIDE DEF port
  <1>2. /\ Waiting(port) /\ Posted(port) /\ Running /\ IsCall(call) /\ call.port = port
        /\ call.pc \in {"notify", "wait"} /\ call.before \in Indices
        /\ \A p \in Ports : p # port => ~Waiting(p) /\ Quiet(p)
    BY <1>1, Busy
  <1>3. /\ device' \in [Ports -> DeviceRecord] /\ device'[port].doing = "returning"
        /\ device'[port].seen = device[port].seen
        /\ \A p \in Ports : p # port => device'[p] = device[p]
    <2>1. device \in [Ports -> DeviceRecord]
      BY DEF VInv, Typed
    <2> QED
      BY <1>1, <2>1 DEF DeviceRecord
  <1>4. Typed'
    BY <1>1, <1>3 DEF VInv, Typed
  <1>5. Chained'
    <2>1. Waiting(port)' /\ Posted(port)'
      BY <1>1, <1>2, <1>3 DEF Waiting, Running, Posted, Taken, Offered, Returned
    <2>2. \A p \in Ports : p # port => ~Waiting(p)' /\ Quiet(p)'
      BY <1>1, <1>2, <1>3 DEF Waiting, Running, Quiet
    <2> QED
      BY <1>1, <1>2, <2>1, <2>2 DEF Chained, At, Running
  <1>6. Reading'
    BY <1>1 DEF VInv, Reading, Reads, Running, At, Expected, OnDisk, Whole
  <1>7. Request'
    <2>1. ~Reads'
      BY <1>1, <1>2 DEF VInv, Reading, Reads, Running, port
    <2> QED
      BY <2>1 DEF Request
  <1>8. ReadExact'
    BY <1>1, AnswerKept DEF VInv
  <1> QED
    BY <1>4, <1>5, <1>6, <1>7, <1>8 DEF VInv

\* What the device writes: the sector asked for and success, or that it failed.
LEMMA FaultShown ==
  ASSUME NEW fault \in Faults \cup {"none"}, memory["block"].status = Unwritten
  PROVE  /\ StatusByte("block", fault) \in 0 .. 255
         /\ StatusOf(StatusByte("block", fault)) = "Ok" <=> fault = "none"
  <1>1. fault \in {"none", "error", "unsupported", "silent"}
    OBVIOUS
  <1>2. CASE fault = "none"
    <2>1. StatusByte("block", fault) = 0
      BY <1>2 DEF StatusByte
    <2> QED
      BY <1>2, <2>1 DEF StatusOf
  <1>3. CASE fault = "error"
    <2>1. StatusByte("block", fault) = 1
      BY <1>3 DEF StatusByte
    <2> QED
      BY <1>3, <2>1 DEF StatusOf
  <1>4. CASE fault = "unsupported"
    <2>1. StatusByte("block", fault) = 2
      BY <1>4 DEF StatusByte
    <2> QED
      BY <1>4, <2>1 DEF StatusOf
  <1>5. CASE fault = "silent"
    <2>1. StatusByte("block", fault) = 255
      BY <1>5 DEF StatusByte, Unwritten
    <2> QED
      BY <1>5, <2>1 DEF StatusOf
  <1> QED
    BY <1>1, <1>2, <1>3, <1>4, <1>5

LEMMA ReadChainWrites ==
  ASSUME memory["block"].chain = ReadChain
  PROVE  MayWrite("block", "data") /\ MayWrite("block", "status")
  <1>1. Chain("block") = ReadChain /\ 2 \in DOMAIN ReadChain /\ 3 \in DOMAIN ReadChain
    BY DEF Chain, ReadChain
  <1>2. /\ ReadChain[2].buffer = "data" /\ ReadChain[2].writes
        /\ ReadChain[3].buffer = "status" /\ ReadChain[3].writes
    BY DEF ReadChain, Descriptor
  <1> QED
    BY <1>1, <1>2 DEF MayWrite

LEMMA ServeBlockKeeps ==
  ASSUME VInv, NEW fault \in Faults \cup {"none"}, Serve("block", fault)
  PROVE  VInv'
  <1>1. /\ UNCHANGED <<machine, held, avail, used, answer>>
        /\ device["block"].doing = "serving" /\ "block" \in Ports
        /\ device' = [device EXCEPT !["block"].doing = "returning"]
    BY DEF Serve, Ports
  <1>2. /\ Waiting("block") /\ Posted("block") /\ Running /\ IsCall(call) /\ call.port = "block"
        /\ call.pc \in {"notify", "wait"} /\ call.before \in Indices
        /\ \A p \in Ports : p # "block" => ~Waiting(p) /\ Quiet(p)
    BY <1>1, Busy
  <1>3. Taken("block") /\ avail["block"].index = After(call.before)
    BY <1>1, <1>2 DEF Posted, Offered, Returned
  <1>4. Reads /\ ~Served
    <2>1. Reads
      BY <1>2, CallFields DEF VInv, Reading, Reads
    <2> QED
      BY <1>1, <1>2, <1>3, <2>1 DEF Served, Taken
  <1>5. /\ ~call.failed /\ memory["block"].status = Unwritten /\ memory["block"].chain = ReadChain
        /\ memory["block"].header = call.sector
    BY <1>2, <1>4 DEF VInv, Request
  <1>6. MayWrite("block", "data") /\ MayWrite("block", "status")
    BY <1>5, ReadChainWrites
  <1>7. PICK status : status = StatusByte("block", fault)
    OBVIOUS
  <1>8. status \in 0 .. 255 /\ (StatusOf(status) = "Ok" <=> fault = "none")
    BY <1>5, <1>7, FaultShown
  <1>9. PICK data : /\ data = IF fault = "none" THEN Contents(memory["block"].header * Sector, Sector)
                              ELSE [i \in 1 .. Sector |-> Junk]
    OBVIOUS
  <1>10. PICK e : e = Answered(memory["block"], data, status)
    OBVIOUS
  <1>11. memory' = [memory EXCEPT !["block"] = e]
    BY <1>6, <1>7, <1>9, <1>10 DEF Serve, Answered
  <1>12. PICK failed \in BOOLEAN : failed = (fault # "none")
    OBVIOUS
  <1>13. call' = Failing(call, failed)
    BY <1>2, <1>5, <1>12 DEF Serve, Failing
  <1>14. /\ IsMemory(e) /\ e.data = data /\ e.status = status
         /\ e.chain = memory["block"].chain /\ e.header = memory["block"].header
    BY <1>1, <1>8, <1>10, MemoryServed DEF VInv, Typed
  <1>15. /\ IsCall(call') /\ SameRequest(call, call') /\ call'.pc = call.pc
         /\ call'.before = call.before /\ call'.failed = failed
    BY <1>2, <1>13, CallFails
  <1>16. /\ memory' = [p \in Ports |-> memory'[p]] /\ \A p \in Ports : IsMemory(memory'[p])
         /\ memory'["block"] = e
    BY <1>1, <1>11, <1>14, MemoryWritten DEF VInv
  <1>17. /\ device' \in [Ports -> DeviceRecord] /\ device'["block"].doing = "returning"
         /\ device'["block"].seen = device["block"].seen
         /\ \A p \in Ports : p # "block" => device'[p] = device[p]
    <2>1. device \in [Ports -> DeviceRecord]
      BY DEF VInv, Typed
    <2> QED
      BY <1>1, <2>1 DEF DeviceRecord
  <1>18. Typed'
    BY <1>1, <1>15, <1>16, <1>17 DEF VInv, Typed
  <1>19. Reading' /\ Running' /\ (Reads' <=> Reads)
    BY <1>1, <1>2, <1>15, ReadingKept DEF VInv
  <1>20. Chained'
    <2>1. Waiting("block")' /\ Posted("block")'
      BY <1>1, <1>2, <1>3, <1>15, <1>17, <1>19 DEF Waiting, SameRequest, Posted, Taken
    <2>2. \A p \in Ports : p # "block" => ~Waiting(p)' /\ Quiet(p)'
      BY <1>1, <1>2, <1>15, <1>17, <1>19 DEF Waiting, SameRequest, Quiet
    <2> QED
      BY <1>2, <1>15, <2>1, <2>2 DEF Chained, At
  <1>21. Request'
    <2>1. Served' /\ call'.pc # "next"
      BY <1>2, <1>15, <1>17 DEF Served
    <2>2. call'.sector = call.sector
      BY <1>15 DEF SameRequest
    <2>3. fault = "none" => data = Contents(call.sector * Sector, Sector)'
      BY <1>1, <1>5, <1>9, <2>2 DEF Contents, OnDisk
    <2> QED
      BY <1>5, <1>8, <1>12, <1>14, <1>15, <1>16, <2>1, <2>2, <2>3 DEF Request
  <1>22. ReadExact'
    BY <1>1, AnswerKept DEF VInv
  <1> QED
    BY <1>18, <1>19, <1>20, <1>21, <1>22 DEF VInv
-----------------------------------------------------------------------------
(* What a sector's arrival and the end of a read leave. *)

LEMMA DiskBytes ==
  ASSUME Typed, NEW unit \in Nat
  PROVE  OnDisk(unit) \in Nat
  BY DEF Typed, OnDisk

Arrived(c, done, sector, into) ==
  [c EXCEPT !.pc = "next", !.done = done, !.sector = sector, !.into = into]

Onward(c, d, done, sector, into) ==
  /\ IsCall(d) /\ d.op = c.op /\ d.port = c.port /\ d.first = c.first /\ d.pc = "next"
  /\ d.done = done /\ d.sector = sector /\ d.into = into /\ d.failed = c.failed

LEMMA CallArrived ==
  ASSUME NEW c, IsCall(c), NEW done \in Nat, NEW sector \in Nat, NEW into \in Seq(Int)
  PROVE  Onward(c, Arrived(c, done, sector, into), done, sector, into)
  <1>1. c \in CallRecord
    BY DEF IsCall
  <1> DEFINE d == Arrived(c, done, sector, into)
  <1>2. d \in CallRecord
    BY <1>1 DEF CallRecord, Arrived, Pcs
  <1>3. /\ d.op = c.op /\ d.port = c.port /\ d.first = c.first /\ d.pc = "next"
        /\ d.done = done /\ d.sector = sector /\ d.into = into /\ d.failed = c.failed
    BY <1>1 DEF CallRecord, Arrived
  <1> QED
    BY <1>2, <1>3 DEF IsCall, Onward

\* What is copied of a sector.
Taking(length, done) == IF length - done < Sector THEN length - done ELSE Sector
Copied(into, done, take, data) ==
  [i \in DOMAIN into |-> IF i - done \in 1 .. take THEN data[i - done] ELSE into[i]]

\* A read further by one sector has the bytes of the disk up to there.
LEMMA CopiedExact ==
  ASSUME VInv, Reads, call.pc = "collect", ~call.failed, NEW take,
         take = Taking(Len(call.into), call.done), NEW into,
         into = Copied(call.into, call.done, take, memory["block"].data)
  PROVE  /\ into \in Seq(Int) /\ Len(into) = Len(call.into) /\ take \in 1 .. Sector
         /\ call.done + take <= Len(into)
         /\ call.done + take < Len(into) =>
              (call.sector + 1) * Sector = call.first * Sector + (call.done + take)
         /\ \A i \in 1 .. Len(into) :
              into[i] = IF i <= call.done + take \/ (call.op = "trace" /\ i <= Sector)
                        THEN OnDisk(call.first * Sector + i - 1) ELSE Stale
  <1>1. IsCall(call) /\ Typed
    BY RunningCall DEF VInv, Reads
  <1>2. PICK len \in Nat : len = Len(call.into)
    BY <1>1, CallFields
  <1>3. PICK done \in Nat : done = call.done
    BY <1>1, CallFields
  <1>4. PICK base \in Nat : base = call.first * Sector
    <2>1. call.first \in Nat
      BY <1>1, CallFields
    <2> QED
      BY <2>1
  <1>5. done < len /\ call.sector * Sector = base + done
    BY <1>2, <1>3, <1>4 DEF VInv, Reading
  <1>6. take \in 1 .. Sector /\ done + take <= len /\ (done + take < len => take = Sector)
    BY <1>2, <1>3, <1>5 DEF Taking
  <1>7. call.into \in Seq(Int) /\ DOMAIN call.into = 1 .. len
    BY <1>1, <1>2, CallFields
  <1>8. memory["block"].data = [j \in 1 .. Sector |-> OnDisk(base + done + j - 1)]
    <2>1. memory["block"].data = Contents(call.sector * Sector, Sector)
      BY DEF VInv, Request, Served
    <2> QED
      BY <1>5, <2>1 DEF Contents
  <1>9. into = [i \in 1 .. len |-> IF i - done \in 1 .. take THEN memory["block"].data[i - done]
                                   ELSE call.into[i]]
    BY <1>3, <1>7 DEF Copied
  <1>10. ASSUME NEW i \in 1 .. len
         PROVE  /\ into[i] \in Int
                /\ into[i] = IF i <= done + take \/ (call.op = "trace" /\ i <= Sector)
                             THEN OnDisk(base + i - 1) ELSE Stale
    <2>1. call.into[i] = IF i <= done \/ (call.op = "trace" /\ i <= Sector)
                         THEN OnDisk(base + i - 1) ELSE Stale
      BY <1>2, <1>3, <1>4 DEF VInv, Reading, Expected
    <2>2. CASE i - done \in 1 .. take
      <3>1. PICK j \in 1 .. Sector : j = i - done
        BY <1>6, <2>2
      <3>2. PICK unit \in Nat : unit = base + i - 1
        OBVIOUS
      <3>3. base + done + j - 1 = unit
        BY <3>1, <3>2
      <3>4. memory["block"].data[j] = OnDisk(unit)
        BY <1>8, <3>3
      <3>5. into[i] = memory["block"].data[i - done]
        BY <1>9, <2>2
      <3>6. into[i] = OnDisk(unit)
        BY <3>1, <3>4, <3>5
      <3>7. OnDisk(unit) \in Nat
        BY <1>1, DiskBytes
      <3>8. i <= done + take
        BY <1>6, <2>2
      <3> QED
        BY <3>2, <3>6, <3>7, <3>8
    <2>3. CASE i - done \notin 1 .. take
      <3>1. into[i] = call.into[i] /\ into[i] \in Int
        BY <1>7, <1>9, <2>3
      <3>2. i <= done \/ i > done + take
        BY <1>6, <2>3
      <3>3. i <= done <=> i <= done + take
        BY <1>6, <3>2
      <3> QED
        BY <2>1, <3>1, <3>3
    <2> QED
      BY <2>2, <2>3
  <1>11. into \in Seq(Int) /\ Len(into) = len
    <2>1. into \in [1 .. len -> Int]
      BY <1>9, <1>10
    <2> QED
      BY <2>1
  <1>12. ASSUME done + take < len
         PROVE  (call.sector + 1) * Sector = base + (done + take)
    <2>1. PICK sector \in Nat : sector = call.sector
      BY <1>1, CallFields
    <2>2. (sector + 1) * Sector = sector * Sector + Sector
      BY <2>1
    <2> QED
      BY <1>5, <1>6, <1>12, <2>1, <2>2
  <1> QED
    BY <1>2, <1>3, <1>4, <1>6, <1>10, <1>11, <1>12
\* A call that returns with nothing on its way.
LEMMA CallReturns ==
  ASSUME VInv, call.pc \notin {"notify", "wait"}, call' = None,
         UNCHANGED <<machine, held, avail, used, memory, device>>, ReadExact'
  PROVE  VInv'
  <1>1. ~Running'
    BY DEF Running
  <1>2. Typed'
    BY DEF VInv, Typed
  <1>3. Chained'
    <2>1. \A port \in Ports : ~Waiting(port) /\ ~Waiting(port)'
      BY <1>1, NoneWaits DEF Waiting
    <2> QED
      BY <1>1, <2>1, QueuedAtRest DEF VInv, At
  <1>4. Reading' /\ Request'
    BY <1>1 DEF Reading, Request, Reads, At
  <1> QED
    BY <1>2, <1>3, <1>4 DEF VInv

LEMMA CollectKeeps ==
  ASSUME VInv, Collect
  PROVE  VInv'
  <1>1. At("collect") /\ UNCHANGED <<machine, held, avail, used, memory, device>>
    BY DEF Collect
  <1>2. /\ Running /\ IsCall(call) /\ call.pc = "collect" /\ call.done \in Nat /\ call.sector \in Nat
        /\ call.op \in {"tile", "length", "trace", "write"} /\ call.into \in Seq(Int)
        /\ call.failed \in BOOLEAN
    BY <1>1, DriverCall
  <1>3. Reads /\ call.port = "block" /\ Served
    <2>1. call.port = "block"
      BY <1>1 DEF VInv, Reading
    <2> QED
      BY <1>1, <1>2, <2>1, DriverCall DEF Reads, Served
  <1>4. call.failed <=> StatusOf(memory["block"].status) # "Ok"
    BY <1>3 DEF VInv, Request
  <1>5. CASE StatusOf(memory["block"].status) = "Ok"
    <2>1. PICK take : take = Taking(Len(call.into), call.done)
      OBVIOUS
    <2>2. PICK into : into = Copied(call.into, call.done, take, memory["block"].data)
      OBVIOUS
    <2>3. call' = Arrived(call, call.done + take, call.sector + 1, into) /\ answer' = answer
      BY <1>5, <2>1, <2>2 DEF Collect, Taking, Copied, Arrived
    <2>4. /\ into \in Seq(Int) /\ Len(into) = Len(call.into) /\ take \in 1 .. Sector
          /\ call.done + take <= Len(into)
          /\ call.done + take < Len(into) =>
               (call.sector + 1) * Sector = call.first * Sector + (call.done + take)
          /\ \A i \in 1 .. Len(into) :
               into[i] = IF i <= call.done + take \/ (call.op = "trace" /\ i <= Sector)
                         THEN OnDisk(call.first * Sector + i - 1) ELSE Stale
      BY <1>2, <1>3, <1>4, <1>5, <2>1, <2>2, CopiedExact
    <2>5. PICK done \in Nat : done = call.done + take
      BY <1>2, <2>4
    <2>6. PICK sector \in Nat : sector = call.sector + 1
      BY <1>2
    <2>7. /\ IsCall(call') /\ call'.op = call.op /\ call'.port = "block" /\ call'.first = call.first
          /\ call'.pc = "next" /\ call'.done = done /\ call'.sector = sector /\ call'.into = into
          /\ call'.failed = call.failed
      <3>1. call' = Arrived(call, done, sector, into) /\ into \in Seq(Int) /\ IsCall(call)
        BY <1>2, <2>3, <2>4, <2>5, <2>6
      <3>2. Onward(call, call', done, sector, into)
        BY <3>1, CallArrived
      <3> QED
        BY <1>3, <3>2 DEF Onward
    <2>8. Typed'
      BY <1>1, <2>7 DEF VInv, Typed
    <2>9. Chained'
      <3>1. \A port \in Ports : ~Waiting(port) /\ ~Waiting(port)'
        BY <1>2, <2>7, NoneWaits DEF Waiting
      <3> QED
        BY <1>1, <2>7, <3>1, QueuedAtRest DEF VInv, At
    <2>10. Reading'
      <3>1. ASSUME NEW i \in 1 .. Len(into) PROVE into[i] = Expected(i)'
        BY <1>1, <2>4, <2>5, <2>7 DEF Expected, OnDisk
      <3>2. call.op # "write" /\ (call.op = "length" => call.first = TraceAt /\ Len(call.into) = Sector)
            /\ (call.op = "trace" => call.first = TraceAt /\ Len(call.into) = Whole(machine.length))
        BY <1>3 DEF VInv, Reading, Reads
      <3> QED
        BY <1>1, <2>4, <2>5, <2>6, <2>7, <3>1, <3>2 DEF Reading, At, Reads, Whole
    <2>11. Request'
      BY <1>4, <1>5, <2>7 DEF Request, Served
    <2>12. ReadExact'
      BY <1>1, <2>3, AnswerKept DEF VInv
    <2> QED
      BY <2>8, <2>9, <2>10, <2>11, <2>12 DEF VInv
  <1>6. CASE StatusOf(memory["block"].status) # "Ok"
    <2>1. call' = None /\ Return("NoProvider", call.into)
      BY <1>6 DEF Collect
    <2>2. /\ answer'.op = call.op /\ answer'.result = "NoProvider" /\ answer'.failed = call.failed
          /\ answer'.into = call.into /\ answer'.done = call.done /\ answer'.first = call.first
      BY <2>1 DEF Return
    <2>3. \A i \in DOMAIN call.into :
            call.into[i] = IF i <= call.done \/ (call.op = "trace" /\ i <= Sector)
                           THEN OnDisk(call.first * Sector + i - 1) ELSE Stale
      <3>1. \A i \in 1 .. Len(call.into) : call.into[i] = Expected(i)
        BY <1>3 DEF VInv, Reading
      <3>2. DOMAIN call.into = 1 .. Len(call.into)
        BY <1>2
      <3> QED
        BY <3>1, <3>2 DEF Expected
    <2>4. ReadExact'
      BY <1>1, <1>4, <1>6, <2>2, <2>3 DEF ReadExact, OnDisk
    <2> QED
      BY <1>1, <1>2, <2>1, <2>4, CallReturns
  <1> QED
    BY <1>5, <1>6
\* A read that is done has every byte of the disk it asked for.
LEMMA ReadDone ==
  ASSUME VInv, Reads, call.pc = "next", call.done >= Len(call.into)
  PROVE  /\ ~call.failed /\ call.first \in Nat /\ call.into \in Seq(Int)
         /\ \A i \in 1 .. Len(call.into) : call.into[i] = OnDisk(call.first * Sector + i - 1)
         /\ call.op \in {"length", "trace"} => call.into[1] = machine.length /\ machine.length \in Nat
  <1>1. IsCall(call) /\ Typed
    BY RunningCall DEF VInv, Reads
  <1>2. /\ call.done \in Nat /\ call.into \in Seq(Int) /\ call.first \in Nat
        /\ Len(call.into) \in Nat
    BY <1>1, CallFields
  <1>3. ~call.failed
    BY DEF VInv, Request
  <1>4. \A i \in 1 .. Len(call.into) : call.into[i] = OnDisk(call.first * Sector + i - 1)
    BY <1>2 DEF VInv, Reading, Expected
  <1>5. ASSUME call.op \in {"length", "trace"}
        PROVE  call.into[1] = machine.length /\ machine.length \in Nat
    <2>1. machine.length \in Nat
      BY <1>1 DEF Typed
    <2>2. Whole(machine.length) \in Nat /\ Whole(machine.length) >= Header + machine.length
      BY <2>1, WholeCovers
    <2>3. Len(call.into) >= 1 /\ call.first = TraceAt
      BY <1>5, <2>1, <2>2 DEF VInv, Reading
    <2>4. PICK base \in Nat : base = TraceAt * Sector
      <3>1. TraceAt \in Nat
        BY DEF TraceAt
      <3> QED
        BY <3>1
    <2>5. 1 \in 1 .. Len(call.into) /\ base + 1 - 1 = TraceAt * Sector
      BY <1>2, <2>3, <2>4
    <2>6. call.into[1] = OnDisk(TraceAt * Sector)
      BY <1>4, <2>3, <2>4, <2>5
    <2> QED
      BY <2>1, <2>6 DEF OnDisk
  <1> QED
    BY <1>2, <1>3, <1>4, <1>5

LEMMA SequenceOf ==
  ASSUME NEW n \in Nat, NEW s \in [1 .. n -> Int]
  PROVE  s \in Seq(Int) /\ Len(s) = n
  OBVIOUS

\* With its length read, the trace is read over again from its first sector.
LEMMA TraceStarts ==
  ASSUME VInv, At("next"), call.done >= Len(call.into), call.op = "length", NEW into,
         into = [i \in 1 .. Whole(call.into[1]) |-> IF i \in DOMAIN call.into THEN call.into[i] ELSE Stale],
         call' = [Started("trace", "block", TraceAt, into) EXCEPT !.failed = call.failed],
         answer' = answer, UNCHANGED <<machine, held, avail, used, memory, device>>
  PROVE  VInv'
  <1>1. Reads /\ call.pc = "next"
    BY DriverCall DEF Reads
  <1>2. /\ ~call.failed /\ call.into \in Seq(Int) /\ call.into[1] = machine.length /\ machine.length \in Nat
        /\ \A i \in 1 .. Len(call.into) : call.into[i] = OnDisk(call.first * Sector + i - 1)
    BY <1>1, ReadDone
  <1>3. call.first = TraceAt /\ Len(call.into) = Sector
    BY <1>1 DEF VInv, Reading
  <1>4. PICK size \in Nat : size = Whole(machine.length)
    BY <1>2, WholeCovers
  <1>5. into \in Seq(Int) /\ Len(into) = size
    <2>1. into \in [1 .. size -> Int]
      BY <1>2, <1>4 DEF Stale
    <2> QED
      BY <2>1, SequenceOf
  <1>6. \A i \in 1 .. size : into[i] = IF i <= Sector THEN OnDisk(TraceAt * Sector + i - 1) ELSE Stale
    <2>1. DOMAIN call.into = 1 .. Sector
      BY <1>2, <1>3
    <2> QED
      BY <1>2, <1>3, <1>4, <2>1
  <1>7. TraceAt \in Nat /\ "block" \in Ports
    BY DEF TraceAt, Ports
  <1> DEFINE start == Started("trace", "block", TraceAt, into)
  <1>8. Begun(start, "trace", "block", TraceAt, into)
    BY <1>5, <1>7, CallStarts
  <1>9. call' = Failing(start, FALSE)
    BY <1>2, DriverCall DEF Failing
  <1> HIDE DEF start
  <1>10. /\ IsCall(call') /\ call'.op = "trace" /\ call'.port = "block" /\ call'.pc = "next"
         /\ call'.sector = TraceAt /\ call'.first = TraceAt /\ call'.done = 0 /\ call'.into = into
         /\ ~call'.failed
    <2>1. IsCall(start)
      BY <1>8 DEF Begun
    <2>2. IsCall(call') /\ SameRequest(start, call') /\ call'.pc = start.pc /\ call'.failed = FALSE
      BY <1>9, <2>1, CallFails
    <2> QED
      BY <1>8, <2>2 DEF Begun, SameRequest
  <1>11. Typed'
    BY <1>10 DEF VInv, Typed
  <1>12. Chained'
    <2>1. \A port \in Ports : ~Waiting(port) /\ ~Waiting(port)'
      BY <1>1, <1>10, NoneWaits DEF Waiting
    <2> QED
      BY <1>10, <2>1, QueuedAtRest DEF VInv, At
  <1>13. Reading'
    <2>1. \A i \in 1 .. size : into[i] = Expected(i)'
      <3> TAKE i \in 1 .. size
      <3>1. Expected(i)' = IF i <= 0 \/ i <= Sector THEN OnDisk(TraceAt * Sector + i - 1)' ELSE Stale
        BY <1>10 DEF Expected
      <3>2. ~(i <= 0)
        OBVIOUS
      <3>3. OnDisk(TraceAt * Sector + i - 1)' = OnDisk(TraceAt * Sector + i - 1)
        BY DEF OnDisk, TraceAt
      <3> QED
        BY <1>6, <3>1, <3>2, <3>3
    <2>2. TraceAt * Sector = TraceAt * Sector + 0
      BY <1>7
    <2>3. size = Whole(machine.length)'
      BY <1>4 DEF Whole
    <2>4. 0 <= size
      OBVIOUS
    <2> QED
      BY <1>5, <1>10, <2>1, <2>2, <2>3, <2>4 DEF Reading, At, Reads
  <1>14. Request'
    BY <1>10 DEF Request, Served
  <1>15. ReadExact'
    BY AnswerKept DEF VInv
  <1> QED
    BY <1>11, <1>12, <1>13, <1>14, <1>15 DEF VInv

LEMMA DoneKeeps ==
  ASSUME VInv, Done
  PROVE  VInv'
  <1>1. At("next") /\ call.done >= Len(call.into) /\ UNCHANGED <<machine, held, avail, used, memory, device>>
    BY DEF Done
  <1>2. Running /\ call.pc = "next" /\ call.op \in {"tile", "length", "trace", "write"}
    BY <1>1, DriverCall
  <1>3. \A result, into : Return(result, into) =>
          /\ answer'.op = call.op /\ answer'.result = result /\ answer'.into = into
          /\ answer'.first = call.first /\ answer'.failed = call.failed
    BY DEF Return
  <1>4. CASE call.op = "write"
    <2>1. call' = None /\ Return("Ok", call.into)
      BY <1>4 DEF Done
    <2>2. ReadExact'
      BY <1>3, <1>4, <2>1 DEF ReadExact
    <2> QED
      BY <1>1, <1>2, <2>1, <2>2, CallReturns
  <1>5. CASE call.op = "tile"
    <2>1. call' = None /\ Return("Ok", call.into)
      BY <1>5 DEF Done
    <2>2. /\ ~call.failed /\ call.into \in Seq(Int)
          /\ \A i \in 1 .. Len(call.into) : call.into[i] = OnDisk(call.first * Sector + i - 1)
      BY <1>1, <1>2, <1>5, ReadDone DEF Reads
    <2>3. call.into = Contents(call.first * Sector, Len(call.into))
      <3>1. call.into = [i \in 1 .. Len(call.into) |-> call.into[i]]
        BY <2>2
      <3> QED
        BY <2>2, <3>1 DEF Contents
    <2>4. /\ answer'.op = "tile" /\ answer'.result = "Ok" /\ ~answer'.failed
          /\ answer'.into = call.into /\ answer'.first = call.first
      BY <1>3, <1>5, <2>1, <2>2
    <2>5. answer'.into = Contents(answer.first * Sector, Len(answer.into))'
      BY <1>1, <2>3, <2>4 DEF Contents, OnDisk
    <2>6. ReadExact'
      BY <2>4, <2>5 DEF ReadExact
    <2> QED
      BY <1>1, <1>2, <2>1, <2>6, CallReturns
  <1>6. CASE call.op = "length"
    <2>1. call.into[1] = machine.length /\ machine.length \in Nat
      BY <1>1, <1>2, <1>6, ReadDone DEF Reads
    <2>2. CASE Whole(call.into[1]) <= TextRoom
      <3>1. ~(Whole(call.into[1]) > TextRoom)
        <4>1. PICK whole \in Nat : whole = Whole(call.into[1])
          BY <2>1, WholeCovers
        <4> QED
          BY <2>2, <4>1
      <3>2. PICK into : into = [i \in 1 .. Whole(call.into[1]) |->
                                  IF i \in DOMAIN call.into THEN call.into[i] ELSE Stale]
        OBVIOUS
      <3>3. /\ call' = [Started("trace", "block", TraceAt, into) EXCEPT !.failed = call.failed]
            /\ answer' = answer
        BY <1>6, <3>1, <3>2 DEF Done
      <3> QED
        BY <1>1, <1>6, <3>2, <3>3, TraceStarts
    <2>3. CASE ~(Whole(call.into[1]) <= TextRoom)
      <3>1. Whole(call.into[1]) > TextRoom
        BY <2>1, <2>3, WholeCovers
      <3>2. call' = None /\ Return("NoBudget", <<>>)
        BY <1>6, <2>3 DEF Done
      <3>3. ReadExact'
        BY <1>1, <1>3, <2>1, <3>1, <3>2 DEF ReadExact, Whole
      <3> QED
        BY <1>1, <1>2, <3>2, <3>3, CallReturns
    <2> QED
      BY <2>2, <2>3
  <1>7. CASE call.op = "trace"
    <2>1. /\ ~call.failed /\ call.into \in Seq(Int) /\ call.into[1] = machine.length /\ machine.length \in Nat
          /\ \A i \in 1 .. Len(call.into) : call.into[i] = OnDisk(call.first * Sector + i - 1)
      BY <1>1, <1>2, <1>7, ReadDone DEF Reads
    <2>2. PICK length \in Nat : length = machine.length
      BY <2>1
    <2> DEFINE text == SubSeq(call.into, Header + 1, Header + length)
    <2>3. call' = None /\ Return("Ok", text)
      BY <1>7, <2>1, <2>2 DEF Done
    <2>4. call.first = TraceAt /\ Len(call.into) = Whole(length)
      BY <1>2, <1>7, <2>2 DEF VInv, Reading, Reads
    <2>5. Header + length <= Len(call.into) /\ Len(call.into) \in Nat
      BY <2>4, WholeCovers
    <2>6. text = Contents(TraceAt * Sector + Header, length)
      <3>1. text = [i \in 1 .. length |-> call.into[Header + i]]
        BY <2>1, <2>5
      <3>2. ASSUME NEW i \in 1 .. length
            PROVE  call.into[Header + i] = OnDisk(TraceAt * Sector + Header + i - 1)
        <4>1. PICK j \in 1 .. Len(call.into) : j = Header + i
          BY <2>5
        <4>2. call.into[j] = OnDisk(TraceAt * Sector + j - 1)
          BY <2>1, <2>4
        <4>3. PICK base \in Nat : base = TraceAt * Sector
          <5>1. TraceAt \in Nat
            BY DEF TraceAt
          <5> QED
            BY <5>1
        <4>4. base + j - 1 = base + Header + i - 1
          BY <4>1
        <4> QED
          BY <4>1, <4>2, <4>3, <4>4
      <3> QED
        BY <3>1, <3>2 DEF Contents
    <2> HIDE DEF text
    <2>7. ReadExact'
      BY <1>1, <1>3, <1>7, <2>1, <2>2, <2>3, <2>6 DEF ReadExact, Contents, OnDisk
    <2> QED
      BY <1>1, <1>2, <2>3, <2>7, CallReturns
  <1> QED
    BY <1>2, <1>4, <1>5, <1>6, <1>7
-----------------------------------------------------------------------------
(* The invariant, and the theorems. *)

LEMMA VirtioInit ==
  ASSUME Init
  PROVE  VInv
  <1>1. call = None /\ answer = None /\ ~Running
    BY DEF Init, Running
  <1>2. Typed
    <2>1. IsMemory(Rings)
      <3>1. Rings \in MemoryRecord({<<>>, Zeros})
        BY DEF Rings, MemoryRecord
      <3> QED
        BY <3>1 DEF IsMemory
    <2>2. IsAvail(Available)
      <3> DEFINE ring == [i \in 0 .. Size - 1 |-> 0]
      <3>1. Available = [index |-> 0, ring |-> ring] /\ 0 \in Indices
        BY DEF Available, Indices
      <3> HIDE DEF ring
      <3>2. Available \in AvailRecord({ring})
        BY <3>1 DEF AvailRecord
      <3> QED
        BY <3>2 DEF IsAvail
    <2>3. device \in [Ports -> DeviceRecord] /\ used \in [Ports -> Indices]
      BY DEF Init, NoDevice, DeviceRecord, UsedRing, Indices
    <2>4. /\ avail = [port \in Ports |-> avail[port]] /\ \A port \in Ports : IsAvail(avail[port])
      BY <2>2 DEF Init
    <2>5. /\ memory = [port \in Ports |-> memory[port]] /\ \A port \in Ports : IsMemory(memory[port])
      BY <2>1 DEF Init
    <2>6. held = [port \in Ports |-> held[port]] /\ machine \in Machines
      BY DEF Init
    <2> QED
      BY <1>1, <2>3, <2>4, <2>5, <2>6 DEF Typed
  <1>3. Chained
    <2>1. \A port \in Ports : Quiet(port) /\ ~Waiting(port)
      BY <1>1 DEF Init, Quiet, NoDevice, Available, UsedRing, Waiting
    <2> QED
      BY <1>1, <2>1 DEF Chained, At
  <1>4. Reading /\ Request /\ ReadExact
    BY <1>1 DEF Reading, Request, ReadExact, Reads, At
  <1> QED
    BY <1>2, <1>3, <1>4 DEF VInv

LEMMA VirtioIdle ==
  ASSUME VInv, UNCHANGED vars
  PROVE  VInv'
  <1>1. UNCHANGED <<machine, held, avail, used, memory, call, answer, device>>
    BY DEF vars
  <1>2. Typed'
    BY <1>1 DEF VInv, Typed
  <1>3. Chained'
    BY <1>1 DEF VInv, Chained, Waiting, Running, Posted, Quiet, Offered, Taken, Returned, At
  <1>4. Reading'
    BY <1>1 DEF VInv, Reading, Reads, Running, At, Expected, OnDisk, Whole
  <1>5. Request'
    BY <1>1 DEF VInv, Request, Reads, Running, Served, Contents, OnDisk
  <1>6. ReadExact'
    BY <1>1, AnswerKept DEF VInv
  <1> QED
    BY <1>2, <1>3, <1>4, <1>5, <1>6 DEF VInv

\* A port is the console's or the disk's.
LEMMA ServeKeeps ==
  ASSUME VInv, NEW port \in Ports, NEW fault \in Faults \cup {"none"}, Serve(port, fault)
  PROVE  VInv'
  <1>1. CASE port = "console"
    BY <1>1, ServeConsoleKeeps
  <1>2. CASE port = "block"
    BY <1>2, ServeBlockKeeps
  <1> QED
    BY <1>1, <1>2 DEF Ports

LEMMA VirtioStep ==
  ASSUME VInv, [Next]_vars
  PROVE  VInv'
  <1>1. CASE Open
    BY <1>1, OpenKeeps
  <1>2. CASE Drive
    BY <1>2, PrepareKeeps, StageKeeps, SubmitSlotKeeps, SubmitIndexKeeps, SubmitNotifyKeeps, WaitKeeps,
       CollectKeeps, DoneKeeps DEF Drive
  <1>3. CASE ReadTrace
    BY <1>3, ReadTraceKeeps
  <1>4. ASSUME NEW tile \in 0 .. Tiles - 1, NEW room \in {Sector, TileSectors * Sector - 1},
               ReadTile(tile, 0, room)
        PROVE  VInv'
    BY <1>4, ReadTileKeeps
  <1>5. ASSUME NEW text \in Texts, NEW formatted \in BOOLEAN, WriteText(text, formatted)
        PROVE  VInv'
    BY <1>5, WriteTextKeeps
  <1>6. ASSUME NEW port \in Ports, Take(port) PROVE VInv'
    BY <1>6, TakeKeeps
  <1>7. ASSUME NEW port \in Ports, GiveBack(port) PROVE VInv'
    BY <1>7, GiveBackKeeps
  <1>8. ASSUME NEW port \in Ports, NEW fault \in Faults \cup {"none"}, Serve(port, fault) PROVE VInv'
    BY <1>8, ServeKeeps
  <1>9. CASE UNCHANGED vars
    BY <1>9, VirtioIdle
  <1> QED
    BY <1>1, <1>2, <1>3, <1>4, <1>5, <1>6, <1>7, <1>8, <1>9 DEF Next

LEMMA VirtioInvariant == Spec => []VInv
  <1>1. Init => VInv
    BY VirtioInit
  <1>2. VInv /\ [Next]_vars => VInv'
    BY VirtioStep
  <1> QED
    BY <1>1, <1>2, PTL DEF Spec

\* read_at and read_sector, whatever the device does and whenever it does it:
\* an answered read has the bytes of the disk it asked for exactly when the
\* device failed none of its sectors, a failed one has the sectors before the
\* failure, and only a trace that does not fit is refused.
THEOREM ReadsExact == Spec => []ReadExact
  <1>1. VInv => ReadExact
    BY DEF VInv
  <1> QED
    BY <1>1, VirtioInvariant, PTL

\* What a chain holds, of a port: the descriptors and what the device reads.
SameChain(port) ==
  /\ memory'[port].chain = memory[port].chain
  /\ memory'[port].header = memory[port].header
  /\ memory'[port].buffer = memory[port].buffer

\* The driver writes a port's memory only with nothing on its way there.
LEMMA WritesAtRest ==
  ASSUME VInv, Prepare \/ Stage, NEW port \in Ports
  PROVE  ~InFlight(port)
  <1>1. call.pc = "next"
    BY DEF Prepare, Stage, At
  <1> QED
    BY <1>1, NoneWaits, QuietAt DEF VInv, Quiet, InFlight

\* The device writes only the data and the status.
LEMMA DeviceWrites ==
  ASSUME VInv, NEW served \in Ports, NEW fault \in Faults \cup {"none"}, Serve(served, fault),
         NEW port \in Ports
  PROVE  SameChain(port)
  <1>1. CASE served = "console"
    BY <1>1 DEF Serve, SameChain
  <1>2. CASE served = "block"
    <2>1. PICK data, status :
            memory' = [memory EXCEPT !["block"] = [@ EXCEPT !.data = data, !.status = status]]
      BY <1>2 DEF Serve
    <2>2. PICK any : memory["block"] \in MemoryRecord(any)
      BY DEF VInv, Typed, IsMemory, Ports
    <2>3. DOMAIN memory = Ports
      BY DEF VInv, Typed
    <2>4. CASE port = "block"
      BY <2>1, <2>2, <2>3, <2>4 DEF SameChain, MemoryRecord
    <2>5. CASE port # "block"
      BY <2>1, <2>3, <2>5 DEF SameChain
    <2> QED
      BY <2>4, <2>5
  <1> QED
    BY <1>1, <1>2 DEF Ports

LEMMA FlightStep ==
  ASSUME VInv, [Next]_vars, NEW port \in Ports, InFlight(port)
  PROVE  SameChain(port)
  <1>1. CASE UNCHANGED memory
    BY <1>1 DEF SameChain
  <1>2. CASE Prepare \/ Stage
    BY <1>2, WritesAtRest
  <1>3. ASSUME NEW served \in Ports, NEW fault \in Faults \cup {"none"}, Serve(served, fault)
        PROVE  SameChain(port)
    BY <1>3, DeviceWrites
  <1>4. Drive => Prepare \/ Stage \/ UNCHANGED memory
    BY DEF Drive, SubmitSlot, SubmitIndex, SubmitNotify, Wait, Collect, Done
  <1>5. Open \/ ReadTrace => UNCHANGED memory
    BY DEF Open, ReadTrace
  <1>6. \A tile, room : ReadTile(tile, 0, room) => UNCHANGED memory
    BY DEF ReadTile
  <1>7. \A text, formatted : WriteText(text, formatted) => UNCHANGED memory
    BY DEF WriteText
  <1>8. \A p : Take(p) \/ GiveBack(p) => UNCHANGED memory
    BY DEF Take, GiveBack, driver
  <1>9. UNCHANGED vars => UNCHANGED memory
    BY DEF vars
  <1> QED
    BY <1>1, <1>2, <1>3, <1>4, <1>5, <1>6, <1>7, <1>8, <1>9 DEF Next

\* The invariant both drivers state: from the step that makes a chain available
\* to the one that returns it, no step changes the chain or what the device
\* reads through it.
THEOREM ChainsUntouched == Spec => FlightUntouched
  <1> DEFINE A == \A port \in Ports : InFlight(port) => SameChain(port)
  <1>1. VInv /\ [Next]_vars => [A]_vars
    BY FlightStep
  <1>2. Spec => [][A]_vars
    BY <1>1, VirtioInvariant, PTL DEF Spec
  <1> QED
    BY <1>2 DEF FlightUntouched, SameChain
-----------------------------------------------------------------------------
(* What the console shows of a write. *)

\* Where the next byte is shown: behind the last one, and behind a carriage
\* return if it is a newline of a formatted text.
LEMMA ShownNext ==
  ASSUME NEW c, c.text \in Seq(Byte), c.formatted \in BOOLEAN, NEW i \in Nat
  PROVE  /\ ShownAt(c, i) \in Nat
         /\ ShownAt(c, i + 1) = ShownAt(c, i) + 1 + IF c.formatted /\ c.text[i + 1] = "LF" THEN 1 ELSE 0
  <1>1. CASE ~c.formatted
    BY <1>1 DEF ShownAt
  <1>2. CASE c.formatted
    <2> DEFINE S(k) == {j \in 1 .. k : c.text[j] = "LF"}
    <2>1. IsFiniteSet(S(i)) /\ Cardinality(S(i)) \in Nat
      <3>1. IsFiniteSet(1 .. i) /\ S(i) \in SUBSET (1 .. i)
        BY FS_Interval
      <3> QED
        BY <3>1, FS_Subset, FS_CardinalityType
    <2>2. Cardinality(S(i + 1)) = Cardinality(S(i)) + IF c.text[i + 1] = "LF" THEN 1 ELSE 0
      <3>1. CASE c.text[i + 1] = "LF"
        <4>1. S(i + 1) = S(i) \cup {i + 1} /\ i + 1 \notin S(i)
          BY <3>1
        <4> HIDE DEF S
        <4> QED
          BY <2>1, <3>1, <4>1, FS_AddElement
      <3>2. CASE c.text[i + 1] # "LF"
        <4>1. S(i + 1) = S(i)
          BY <3>2
        <4> HIDE DEF S
        <4> QED
          BY <2>1, <3>2, <4>1
      <3> QED
        BY <3>1, <3>2
    <2>3. ShownAt(c, i) = i + Cardinality(S(i)) /\ ShownAt(c, i + 1) = i + 1 + Cardinality(S(i + 1))
      BY <1>2 DEF ShownAt
    <2>4. PICK n \in Nat, more \in {0, 1} :
            /\ n = Cardinality(S(i)) /\ more = IF c.text[i + 1] = "LF" THEN 1 ELSE 0
            /\ Cardinality(S(i + 1)) = n + more
      BY <2>1, <2>2
    <2> HIDE DEF S
    <2>5. ShownAt(c, i) = i + n /\ ShownAt(c, i + 1) = i + 1 + n + more
      BY <2>3, <2>4
    <2>6. (IF c.formatted /\ c.text[i + 1] = "LF" THEN 1 ELSE 0) = more
      BY <1>2, <2>4
    <2> QED
      BY <2>5, <2>6
  <1> QED
    BY <1>1, <1>2

\* The same, case by case.
LEMMA ShownBehind ==
  ASSUME NEW c, c.text \in Seq(Byte), c.formatted \in BOOLEAN, NEW i \in Nat
  PROVE  /\ c.formatted /\ c.text[i + 1] = "LF" => ShownAt(c, i + 1) = ShownAt(c, i) + 2
         /\ c.formatted /\ c.text[i + 1] # "LF" => ShownAt(c, i + 1) = ShownAt(c, i) + 1
  <1>1. PICK n \in Nat : n = ShownAt(c, i)
    BY ShownNext
  <1>2. ShownAt(c, i + 1) = n + 1 + IF c.formatted /\ c.text[i + 1] = "LF" THEN 1 ELSE 0
    BY <1>1, ShownNext
  <1> QED
    BY <1>1, <1>2

LEMMA Cut ==
  ASSUME NEW text \in Seq(Byte), NEW n \in Nat, NEW length \in Nat, n + length <= Len(text)
  PROVE  /\ SubSeq(text, n + 1, n + length) \in Seq(Byte)
         /\ Len(SubSeq(text, n + 1, n + length)) = length
         /\ \A j \in 1 .. length : SubSeq(text, n + 1, n + length)[j] = text[n + j]
  <1> DEFINE chunk == SubSeq(text, n + 1, n + length)
  <1>1. chunk \in Seq(Byte) /\ Len(chunk) = length
    <2>1. \A i \in n + 1 .. n + length : i \in 1 .. Len(text)
      OBVIOUS
    <2> QED
      BY <2>1, SubSeqProperties
  <1>2. ASSUME NEW j \in 1 .. length PROVE chunk[j] = text[n + j]
    <2>1. n + 1 + j - 1 = n + j
      OBVIOUS
    <2> QED
      BY <2>1, SubSeqProperties
  <1> QED
    BY <1>1, <1>2

LEMMA ShownFirst ==
  ASSUME NEW c, c.formatted \in BOOLEAN
  PROVE  ShownAt(c, 0) = 0
  <1>1. {j \in 1 .. 0 : c.text[j] = "LF"} = {}
    OBVIOUS
  <1> QED
    BY <1>1, FS_EmptySet DEF ShownAt

\* One byte that is shown where it belongs.
ShownByte(what, k, char) ==
  \E i \in DOMAIN what.text :
    \/ k = ShownAt(what, i) /\ char = what.text[i]
    \/ what.formatted /\ what.text[i] = "LF" /\ k = ShownAt(what, i) - 1 /\ char = "CR"

LEMMA ShownBytes ==
  ASSUME NEW what, NEW out
  PROVE  Shows(what, out) <=> \A k \in DOMAIN out : ShownByte(what, k, out[k])
  BY DEF Shows, ShownByte

LEMMA Joined ==
  ASSUME NEW out \in Seq(Byte), NEW more \in Seq(Byte)
  PROVE  /\ out \o more \in Seq(Byte) /\ Len(out \o more) = Len(out) + Len(more)
         /\ \A k \in 1 .. Len(out) : (out \o more)[k] = out[k]
         /\ \A j \in 1 .. Len(more) : (out \o more)[Len(out) + j] = more[j]
         /\ \A k \in DOMAIN (out \o more) :
              k \in 1 .. Len(out) \/ \E j \in 1 .. Len(more) : k = Len(out) + j
  <1>1. out \o more \in Seq(Byte) /\ Len(out \o more) = Len(out) + Len(more)
    OBVIOUS
  <1>2. \A k \in 1 .. Len(out) : (out \o more)[k] = out[k]
    OBVIOUS
  <1>3. \A j \in 1 .. Len(more) : (out \o more)[Len(out) + j] = more[j]
    OBVIOUS
  <1>4. ASSUME NEW k \in DOMAIN (out \o more), k \notin 1 .. Len(out)
        PROVE  \E j \in 1 .. Len(more) : k = Len(out) + j
    <2>1. PICK n \in Nat, m \in Nat : n = Len(out) /\ m = Len(more)
      OBVIOUS
    <2>2. DOMAIN (out \o more) = 1 .. n + m
      BY <1>1, <2>1
    <2>3. k \in 1 .. n + m /\ k \notin 1 .. n
      BY <1>4, <2>1, <2>2
    <2>4. k - n \in 1 .. m /\ k = n + (k - n)
      BY <2>1, <2>3
    <2> QED
      BY <2>1, <2>4
  <1> QED
    BY <1>1, <1>2, <1>3, <1>4

LEMMA ShowsMore ==
  ASSUME NEW what, NEW out \in Seq(Byte), NEW more \in Seq(Byte), Shows(what, out),
         \A j \in 1 .. Len(more) : ShownByte(what, Len(out) + j, more[j])
  PROVE  Shows(what, out \o more)
  <1> DEFINE all == out \o more
  <1>1. /\ \A k \in 1 .. Len(out) : all[k] = out[k]
        /\ \A j \in 1 .. Len(more) : all[Len(out) + j] = more[j]
        /\ \A k \in DOMAIN all : k \in 1 .. Len(out) \/ \E j \in 1 .. Len(more) : k = Len(out) + j
    BY Joined
  <1>2. \A k \in 1 .. Len(out) : ShownByte(what, k, out[k])
    BY ShownBytes
  <1> HIDE DEF all
  <1>3. \A k \in DOMAIN all : ShownByte(what, k, all[k])
    BY <1>1, <1>2
  <1>4. Shows(what, all)
    BY <1>3, ShownBytes
  <1> QED
    BY <1>4 DEF all

LEMMA ShowsLess ==
  ASSUME NEW what, NEW out \in Seq(Byte), NEW more \in Seq(Byte), Shows(what, out \o more)
  PROVE  Shows(what, out)
  <1> DEFINE all == out \o more
  <1>1. /\ \A k \in 1 .. Len(out) : all[k] = out[k] /\ k \in DOMAIN all
    <2>1. all \in Seq(Byte) /\ Len(all) = Len(out) + Len(more) /\ \A k \in 1 .. Len(out) : all[k] = out[k]
      BY Joined
    <2> HIDE DEF all
    <2>2. Len(out) \in Nat /\ Len(more) \in Nat
      OBVIOUS
    <2> QED
      BY <2>1, <2>2
  <1>2. \A k \in DOMAIN all : ShownByte(what, k, all[k])
    BY ShownBytes
  <1> HIDE DEF all
  <1>3. \A k \in DOMAIN out : ShownByte(what, k, out[k])
    BY <1>1, <1>2
  <1> QED
    BY <1>3, ShownBytes

LEMMA ShowsSame ==
  ASSUME NEW c, NEW d, d.text = c.text, d.formatted = c.formatted, NEW out
  PROVE  (Shows(d, out) <=> Shows(c, out)) /\ \A i : ShownAt(d, i) = ShownAt(c, i)
  BY DEF Shows, ShownAt

\* How much is shown once everything handed over is.
HandedOver(c) == ShownAt(c, c.done) + IF c.carriage THEN 1 ELSE 0
Returning(c) == c.carriage => c.formatted /\ c.done < Len(c.text) /\ c.text[c.done + 1] = "LF"

\* The next chunk is shown behind what is handed over.
LEMMA ChunkShown ==
  ASSUME NEW c, IsCall(c), c.done < Len(c.text), Returning(c),
         NEW out \in Seq(Byte), Shows(c, out), Len(out) = HandedOver(c),
         NEW d, d.text = c.text, d.formatted = c.formatted, d.done = Further(c), d.carriage = CarriageDue(c)
  PROVE  /\ NextChunk(c) \in Seq(Byte) /\ Returning(d)
         /\ Shows(d, out \o NextChunk(c)) /\ Len(out \o NextChunk(c)) = HandedOver(d)
  <1>1. c.text \in Seq(Byte) /\ c.formatted \in BOOLEAN /\ c.carriage \in BOOLEAN
    BY CallFields
  <1>2. PICK text \in Seq(Byte), len \in Nat, done \in Nat :
          text = c.text /\ len = Len(text) /\ done = c.done /\ done < len
    BY <1>1, CallFields
  <1>3. PICK length \in Nat : length = ChunkLength(c) /\ length >= 1 /\ done + length <= len
    <2>1. ChunkLength(c) \in Nat /\ ChunkLength(c) >= 1 /\ c.done + ChunkLength(c) <= Len(c.text)
      BY ChunkFits
    <2> QED
      BY <1>2, <2>1
  <1>4. PICK shown \in Nat : shown = ShownAt(c, done)
    BY <1>1, <1>2, ShownNext
  <1>5. PICK chunk : chunk = NextChunk(c)
    OBVIOUS
  <1>6. \A i : ShownAt(d, i) = ShownAt(c, i)
    BY ShowsSame
  <1>7. done + 1 \in DOMAIN text
    BY <1>2
  <1>8. ASSUME chunk \in Seq(Byte), Len(out) + Len(chunk) = HandedOver(d),
               \A j \in 1 .. Len(chunk) : ShownByte(c, Len(out) + j, chunk[j])
        PROVE  Shows(d, out \o chunk) /\ Len(out \o chunk) = HandedOver(d)
    <2>1. Shows(c, out \o chunk)
      BY <1>8, ShowsMore
    <2>2. Len(out \o chunk) = Len(out) + Len(chunk)
      BY <1>8, Joined
    <2> QED
      BY <1>8, <2>1, <2>2, ShowsSame
  <1>9. CASE CarriageDue(c)
    <2>1. chunk = <<"CR">> /\ chunk \in Seq(Byte) /\ Len(chunk) = 1 /\ chunk[1] = "CR"
      <3>1. <<"CR">> \in Seq(Byte)
        BY DEF Byte
      <3>2. Len(<<"CR">>) = 1
        OBVIOUS
      <3> QED
        BY <1>5, <1>9, <3>1, <3>2 DEF NextChunk
    <2>2. c.formatted /\ text[done + 1] = "LF" /\ ~c.carriage /\ d.done = done /\ d.carriage
      BY <1>2, <1>9 DEF CarriageDue, Further
    <2>3. Len(out) = shown /\ HandedOver(d) = shown + 1
      BY <1>2, <1>4, <1>6, <2>2 DEF HandedOver
    <2>4. ShownAt(c, done + 1) = shown + 2
      <3>1. c.text[done + 1] = "LF" /\ c.formatted
        BY <1>2, <2>2
      <3>2. ShownAt(c, done + 1) = ShownAt(c, done) + 2
        BY <1>1, <3>1, ShownBehind
      <3> QED
        BY <1>4, <3>2
    <2>5. ShownByte(c, Len(out) + 1, "CR")
      BY <1>2, <1>7, <2>2, <2>3, <2>4 DEF ShownByte
    <2>6. Returning(d)
      BY <1>2, <2>2 DEF Returning
    <2> QED
      BY <1>5, <1>8, <2>1, <2>3, <2>5, <2>6
  <1>10. CASE ~CarriageDue(c)
    <2>1. chunk = SubSeq(text, done + 1, done + length) /\ d.done = done + length /\ ~d.carriage
      BY <1>2, <1>3, <1>5, <1>10 DEF NextChunk, Further
    <2>2. /\ chunk \in Seq(Byte) /\ Len(chunk) = length
          /\ \A j \in 1 .. length : chunk[j] = text[done + j]
      <3>1. SubSeq(text, done + 1, done + length) \in Seq(Byte)
        BY <1>2, <1>3, Cut
      <3>2. Len(SubSeq(text, done + 1, done + length)) = length
        BY <1>2, <1>3, Cut
      <3>3. ASSUME NEW j \in 1 .. length
            PROVE  SubSeq(text, done + 1, done + length)[j] = text[done + j]
        <4>1. done + length <= Len(text)
          BY <1>2, <1>3
        <4> QED
          BY <4>1, Cut
      <3> QED
        BY <2>1, <3>1, <3>2, <3>3
    <2>3. Returning(d)
      BY <2>1 DEF Returning
    <2>4. HandedOver(d) = ShownAt(c, done + length)
      <3>1. ShownAt(c, done + length) \in Nat
        <4>1. PICK n \in Nat : n = done + length
          OBVIOUS
        <4> QED
          BY <1>1, <4>1, ShownNext
      <3> QED
        BY <1>6, <2>1, <3>1 DEF HandedOver
    <2>5. CASE c.formatted
      <3>1. length = 1 /\ (c.carriage <=> text[done + 1] = "LF")
        BY <1>1, <1>2, <1>3, <1>10, <2>5, ChunkFits DEF CarriageDue, Returning
      <3>2. Len(out) + 1 = ShownAt(c, done + 1)
        <4>1. Len(out) = shown + IF c.carriage THEN 1 ELSE 0
          BY <1>2, <1>4 DEF HandedOver
        <4>2. text[done + 1] = "LF" => ShownAt(c, done + 1) = shown + 2
          BY <1>1, <1>2, <1>4, <2>5, ShownBehind
        <4>3. text[done + 1] # "LF" => ShownAt(c, done + 1) = shown + 1
          BY <1>1, <1>2, <1>4, <2>5, ShownBehind
        <4> QED
          BY <1>1, <3>1, <4>1, <4>2, <4>3
      <3>3. ShownByte(c, Len(out) + 1, chunk[1])
        BY <1>2, <1>7, <2>2, <3>1, <3>2 DEF ShownByte
      <3> QED
        BY <1>5, <1>8, <2>2, <2>3, <2>4, <3>1, <3>2, <3>3
    <2>6. CASE ~c.formatted
      <3>1. Len(out) = done
        BY <1>1, <1>2, <2>6 DEF HandedOver, Returning, ShownAt
      <3>2. ASSUME NEW j \in 1 .. length
            PROVE  ShownByte(c, Len(out) + j, chunk[j])
        <4>1. PICK i \in DOMAIN text : i = done + j
          BY <1>2, <1>3
        <4> QED
          BY <1>2, <2>2, <2>6, <3>1, <4>1 DEF ShownByte, ShownAt
      <3>3. Len(out) + Len(chunk) = HandedOver(d)
        BY <1>2, <2>2, <2>4, <2>6, <3>1 DEF ShownAt
      <3> QED
        BY <1>5, <1>8, <2>2, <2>3, <3>2, <3>3
    <2> QED
      BY <1>1, <2>5, <2>6
  <1> QED
    BY <1>1, <1>9, <1>10

\* The chunk that is staged and that the device has not shown yet, and what is
\* on the screen with it.
Writes == Running /\ call.op = "write"
Unsent ==
  \/ call.pc \in {"submit", "index"}
  \/ /\ call.pc \in {"notify", "wait"}
     /\ device["console"].doing # "returning" /\ used["console"] = call.before
Output == IF Unsent THEN sent \o memory["console"].buffer ELSE sent

\* A write: all it has handed over is shown, or will be with the chunk staged.
Written ==
  Writes =>
    /\ call.done <= Len(call.text) /\ Returning(call)
    /\ Unsent => memory["console"].buffer \in Seq(Byte)
    /\ Shows(call, Output) /\ Len(Output) = HandedOver(call)
Ended ==
  answer # None /\ answer.op = "write" =>
    Shows(answer, sent) /\ Len(sent) = ShownAt(answer, Len(answer.text))
Screen == sent \in Seq(Byte) /\ (Running => answer = None) /\ Written /\ Ended
PrintInv == VInv /\ Screen

LEMMA EndedKept ==
  ASSUME Ended, answer' = answer, sent' = sent
  PROVE  Ended'
  BY DEF Ended, Shows, ShownAt

\* The same write, with the same of it staged and shown.
LEMMA ScreenKept ==
  ASSUME Screen, Running, Running', SameRequest(call, call'), answer' = answer, sent' = sent,
         Writes => memory'["console"].buffer = memory["console"].buffer /\ (Unsent' <=> Unsent)
  PROVE  Screen'
  <1>1. Ended'
    BY EndedKept DEF Screen
  <1>2. Written'
    <2> SUFFICES ASSUME Writes PROVE Written'
      BY DEF Written, Writes, SameRequest
    <2>1. Output' = Output
      BY DEF Output
    <2>2. PICK c, d : c = call /\ d = call'
      OBVIOUS
    <2>3. d.text = c.text /\ d.formatted = c.formatted /\ d.done = c.done /\ d.carriage = c.carriage
      BY <2>2 DEF SameRequest
    <2>4. (Shows(d, Output) <=> Shows(c, Output)) /\ HandedOver(d) = HandedOver(c)
      BY <2>3, ShowsSame DEF HandedOver
    <2>5. Shows(c, Output) /\ Len(Output) = HandedOver(c)
      BY <2>2 DEF Screen, Written
    <2>6. Shows(d, Output') /\ Len(Output') = HandedOver(d)
      BY <2>1, <2>4, <2>5
    <2>7. Shows(call, Output)' /\ (Len(Output) = HandedOver(call))'
      BY <2>2, <2>6
    <2>8. (call.done <= Len(call.text) /\ Returning(call))'
      BY <2>2, <2>3 DEF Screen, Written, Returning
    <2>9. (Unsent => memory["console"].buffer \in Seq(Byte))'
      BY DEF Screen, Written
    <2> QED
      BY <2>7, <2>8, <2>9 DEF Written
  <1> QED
    BY <1>1, <1>2 DEF Screen

\* No write, and no answer yet.
LEMMA ScreenUnwritten ==
  ASSUME Screen, sent' = sent, ~Writes', answer' = None
  PROVE  Screen'
  BY DEF Screen, Written, Ended

LEMMA WriteTextShows ==
  ASSUME PrintInv, NEW text \in Texts, NEW formatted \in BOOLEAN, WriteText(text, formatted)
  PROVE  Screen'
  <1>1. /\ answer' = None /\ sent' = <<>>
        /\ call' = [Started("write", "console", 0, <<>>) EXCEPT !.text = text, !.formatted = formatted]
    BY DEF WriteText
  <1>2. PICK d : d = call'
    OBVIOUS
  <1>3. d.text = text /\ d.formatted = formatted /\ ~d.carriage /\ d.done = 0 /\ d.pc = "next"
    BY <1>1, <1>2 DEF Started
  <1>4. ShownAt(d, 0) = 0 /\ Len(d.text) >= 0
    BY <1>3, ShownFirst
  <1>5. Shows(d, <<>>) /\ HandedOver(d) = 0 /\ Returning(d) /\ d.done <= Len(d.text)
    BY <1>3, <1>4 DEF Shows, HandedOver, Returning
  <1>6. Output' = <<>> /\ ~Unsent'
    BY <1>1, <1>2, <1>3 DEF Output, Unsent
  <1>7. Shows(call, Output)' /\ (Len(Output) = HandedOver(call))' /\ Returning(call)'
    BY <1>2, <1>5, <1>6 DEF Shows, HandedOver, ShownAt, Returning
  <1>8. Written'
    BY <1>2, <1>5, <1>6, <1>7 DEF Written
  <1> QED
    BY <1>1, <1>8 DEF Screen, Ended

LEMMA StageShows ==
  ASSUME PrintInv, Stage
  PROVE  Screen'
  <1>1. /\ At("next") /\ call.port = "console" /\ call.done < Len(call.text)
        /\ answer' = answer /\ sent' = sent
    BY DEF Stage, Port
  <1>2. Running /\ IsCall(call) /\ call.pc = "next" /\ Writes
    BY <1>1, DriverCall DEF PrintInv, Writes
  <1>3. PICK c, d : c = call /\ d = call'
    OBVIOUS
  <1>4. /\ IsCall(d) /\ d.pc = "submit" /\ d.text = c.text /\ d.formatted = c.formatted
        /\ d.done = Further(c) /\ d.carriage = CarriageDue(c)
    <2>1. call' = [call EXCEPT !.done = IF CarriageDue(call) THEN @ ELSE @ + ChunkLength(call),
                               !.carriage = CarriageDue(call), !.pc = "submit"]
      BY DEF Stage
    <2> QED
      BY <1>1, <1>2, <1>3, <2>1, StagedCall
  <1>5. Shows(c, sent) /\ Len(sent) = HandedOver(c) /\ Returning(c) /\ sent \in Seq(Byte)
    <2>1. Output = sent
      BY <1>2 DEF Output, Unsent
    <2> QED
      BY <1>2, <1>3, <2>1 DEF PrintInv, Screen, Written
  <1>6. PICK chunk : chunk = NextChunk(c)
    OBVIOUS
  <1>7. /\ chunk \in Seq(Byte) /\ Returning(d)
        /\ Shows(d, sent \o chunk) /\ Len(sent \o chunk) = HandedOver(d)
    BY <1>1, <1>2, <1>3, <1>4, <1>5, <1>6, ChunkShown
  <1>8. memory'["console"].buffer = chunk
    <2>1. PICK chain : memory' = [memory EXCEPT !["console"] = [@ EXCEPT !.buffer = chunk, !.chain = chain]]
      BY <1>3, <1>6 DEF Stage
    <2>2. PICK any : memory["console"] \in MemoryRecord(any)
      BY DEF PrintInv, VInv, Typed, IsMemory, Ports
    <2>3. DOMAIN memory = Ports /\ "console" \in Ports
      BY DEF PrintInv, VInv, Typed, Ports
    <2> QED
      BY <2>1, <2>2, <2>3 DEF MemoryRecord
  <1>9. Output' = sent \o chunk /\ Unsent'
    BY <1>1, <1>3, <1>4, <1>8 DEF Output, Unsent
  <1>10. Further(c) <= Len(c.text)
    BY <1>1, <1>2, <1>3, ChunkFits
  <1>11. Shows(call, Output)' /\ (Len(Output) = HandedOver(call))' /\ Returning(call)'
    BY <1>3, <1>7, <1>9
  <1>12. Written'
    BY <1>3, <1>4, <1>7, <1>8, <1>10, <1>11 DEF Written
  <1>13. Ended'
    BY <1>1, EndedKept DEF PrintInv, Screen
  <1> QED
    BY <1>1, <1>2, <1>5, <1>12, <1>13 DEF PrintInv, Screen

\* The steps of a request that neither stage nor show.
LEMMA SubmitShows ==
  ASSUME PrintInv, SubmitSlot \/ SubmitIndex \/ SubmitNotify
  PROVE  Screen'
  <1>1. PICK to : At(to) /\ to = call.pc /\ to \in {"submit", "index", "notify"}
    BY DEF SubmitSlot, SubmitIndex, SubmitNotify, At
  <1>2. Running /\ IsCall(call) /\ (call.op = "write" <=> call.port = "console") /\ call.port \in Ports
    BY <1>1, DriverCall DEF PrintInv
  <1>3. memory' = memory /\ answer' = answer /\ sent' = sent /\ used' = used
    BY DEF SubmitSlot, SubmitIndex, SubmitNotify
  <1>4. CASE SubmitSlot
    <2>1. call.pc = "submit" /\ call' = Marked(call, used[call.port], "index")
      BY <1>4 DEF SubmitSlot, At, Port, Marked
    <2>2. used[call.port] \in Indices /\ "index" \in Pcs
      BY <1>2 DEF PrintInv, VInv, Typed, Pcs
    <2>3. IsCall(call') /\ SameRequest(call, call') /\ call'.pc = "index"
      BY <1>2, <2>1, <2>2, CallMarks
    <2>4. Running' /\ Unsent' /\ Unsent
      BY <2>1, <2>3, CallFields DEF Running, Unsent
    <2> QED
      BY <1>2, <1>3, <2>3, <2>4, ScreenKept DEF PrintInv
  <1>5. CASE SubmitIndex
    <2>1. call.pc = "index" /\ call' = [call EXCEPT !.pc = "notify"] /\ device' = device
      BY <1>5 DEF SubmitIndex, At, Goto
    <2>2. /\ IsCall(call') /\ SameRequest(call, call') /\ call'.pc = "notify"
          /\ call'.before = call.before
      <3>1. "notify" \in Pcs
        BY DEF Pcs
      <3> QED
        BY <1>2, <2>1, <3>1, CallGoes
    <2>3. Running'
      BY <2>2, CallFields DEF Running
    <2>4. Writes => Unsent' /\ Unsent
      <3>1. SUFFICES ASSUME Writes PROVE Unsent' /\ Unsent
        OBVIOUS
      <3>2. call.before = used["console"]
        BY <1>2, <2>1, <3>1 DEF PrintInv, VInv, Chained, At, Writes
      <3>3. Quiet("console")
        BY <2>1, NoneWaits, QuietAt DEF PrintInv, VInv, Ports
      <3> QED
        BY <1>3, <2>1, <2>2, <3>2, <3>3 DEF Unsent, Quiet
    <2> QED
      BY <1>2, <1>3, <2>2, <2>3, <2>4, ScreenKept DEF PrintInv
  <1>6. CASE SubmitNotify
    <2>1. call.pc = "notify" /\ call' = [call EXCEPT !.pc = "wait"]
      BY <1>6 DEF SubmitNotify, At, Goto
    <2>2. /\ IsCall(call') /\ SameRequest(call, call') /\ call'.pc = "wait"
          /\ call'.before = call.before
      <3>1. "wait" \in Pcs
        BY DEF Pcs
      <3> QED
        BY <1>2, <2>1, <3>1, CallGoes
    <2>3. Running'
      BY <2>2, CallFields DEF Running
    <2>4. device'["console"].doing = device["console"].doing
      <3>1. device \in [Ports -> DeviceRecord] /\ "console" \in Ports
        BY DEF PrintInv, VInv, Typed, Ports
      <3>2. device' = [device EXCEPT ![call.port].notified = TRUE]
        BY <1>6 DEF SubmitNotify, Port
      <3> QED
        BY <3>1, <3>2 DEF DeviceRecord
    <2>5. Unsent' <=> Unsent
      BY <1>3, <2>1, <2>2, <2>4 DEF Unsent
    <2> QED
      BY <1>2, <1>3, <2>2, <2>3, <2>5, ScreenKept DEF PrintInv
  <1> QED
    BY <1>4, <1>5, <1>6

LEMMA WaitShows ==
  ASSUME PrintInv, Wait
  PROVE  Screen'
  <1>1. /\ At("wait") /\ memory' = memory /\ answer' = answer /\ sent' = sent /\ used' = used
        /\ used[call.port] # call.before
    BY DEF Wait, Port
  <1>2. /\ Running /\ IsCall(call) /\ call.pc = "wait" /\ (call.op = "write" <=> call.port = "console")
        /\ call.port \in Ports
    BY <1>1, DriverCall DEF PrintInv
  <1>3. PICK to \in Pcs : to = IF call.port = "block" THEN "collect" ELSE "next"
    BY DEF Pcs
  <1>4. call' = Marked(call, 0, to)
    BY <1>3 DEF Wait, Port, Marked
  <1>5. IsCall(call') /\ SameRequest(call, call') /\ call'.pc = to
    <2>1. 0 \in Indices
      BY DEF Indices
    <2> QED
      BY <1>2, <1>4, <2>1, CallMarks
  <1>6. Running'
    BY <1>5, CallFields DEF Running
  <1>7. Writes => ~Unsent' /\ ~Unsent
    BY <1>1, <1>2, <1>3, <1>5 DEF Writes, Unsent
  <1> QED
    BY <1>1, <1>2, <1>5, <1>6, <1>7, ScreenKept DEF PrintInv

LEMMA TakeShows ==
  ASSUME PrintInv, NEW port \in Ports, Take(port)
  PROVE  Screen'
  <1>1. UNCHANGED <<memory, call, answer, used, sent>> /\ device[port].doing = "idle"
    BY DEF Take, driver
  <1>2. Running /\ IsCall(call)
    <2>1. avail[port].index # device[port].seen
      BY DEF Take
    <2> QED
      BY <2>1, Busy DEF PrintInv
  <1>3. (device'["console"].doing = "returning") <=> (device["console"].doing = "returning")
    <2>1. device \in [Ports -> DeviceRecord] /\ "console" \in Ports
      BY DEF PrintInv, VInv, Typed, Ports
    <2>2. device' = [device EXCEPT ![port].doing = "serving", ![port].seen = After(@)]
      BY DEF Take, After
    <2> QED
      BY <1>1, <2>1, <2>2 DEF DeviceRecord
  <1>4. Unsent' <=> Unsent
    BY <1>1, <1>3 DEF Unsent
  <1> QED
    BY <1>1, <1>2, <1>4, ScreenKept DEF PrintInv, Running, SameRequest

LEMMA GiveBackShows ==
  ASSUME PrintInv, NEW port \in Ports, GiveBack(port)
  PROVE  Screen'
  <1>1. /\ UNCHANGED <<memory, call, answer, sent>> /\ device[port].doing = "returning"
        /\ used' = [used EXCEPT ![port] = After(@)]
        /\ device' = [device EXCEPT ![port].doing = "idle", ![port].notified = FALSE]
    BY DEF GiveBack, driver, After
  <1>2. /\ Posted(port) /\ Running /\ IsCall(call) /\ call.port = port
        /\ call.pc \in {"notify", "wait"} /\ call.before \in Indices
    BY <1>1, Busy DEF PrintInv
  <1>3. Writes => ~Unsent' /\ ~Unsent
    <2> SUFFICES ASSUME Writes PROVE ~Unsent' /\ ~Unsent
      OBVIOUS
    <2>1. port = "console"
      BY <1>2 DEF Writes, PrintInv, VInv, Reading
    <2>2. used[port] = call.before /\ used \in [Ports -> Indices]
      BY <1>1, <1>2 DEF Posted, Taken, Offered, Returned, PrintInv, VInv, Typed
    <2>3. used'[port] = After(call.before) /\ After(call.before) # call.before
      BY <1>1, <1>2, <2>2, AfterDiffers
    <2> QED
      BY <1>1, <1>2, <2>1, <2>3 DEF Unsent
  <1> QED
    BY <1>1, <1>2, <1>3, ScreenKept DEF PrintInv, Running, SameRequest

\* Served, the chunk staged is on the screen.
LEMMA ServeConsoleShows ==
  ASSUME PrintInv, NEW fault, Serve("console", fault)
  PROVE  Screen'
  <1>1. /\ UNCHANGED <<memory, call, answer, used>> /\ device["console"].doing = "serving"
        /\ "console" \in Ports
        /\ device' = [device EXCEPT !["console"].doing = "returning"]
        /\ sent' = sent \o memory["console"].buffer
    BY DEF Serve, Ports
  <1>2. /\ Posted("console") /\ Running /\ IsCall(call) /\ call.port = "console"
        /\ call.pc \in {"notify", "wait"}
    BY <1>1, Busy DEF PrintInv
  <1>3. Writes
    BY <1>2 DEF Writes, PrintInv, VInv, Reading
  <1>4. Unsent
    BY <1>1, <1>2 DEF Unsent, Posted, Taken, Offered, Returned
  <1>5. device'["console"].doing = "returning"
    <2>1. device \in [Ports -> DeviceRecord]
      BY DEF PrintInv, VInv, Typed
    <2> QED
      BY <1>1, <2>1 DEF DeviceRecord
  <1>6. ~Unsent'
    BY <1>1, <1>2, <1>5 DEF Unsent
  <1>7. Output = sent' /\ Output' = sent'
    BY <1>1, <1>4, <1>6 DEF Output
  <1>8. memory["console"].buffer \in Seq(Byte) /\ sent \in Seq(Byte) /\ answer = None
    BY <1>2, <1>3, <1>4 DEF PrintInv, Screen, Written
  <1>9. sent' \in Seq(Byte)
    BY <1>1, <1>8, Joined
  <1>10. Written'
    <2>1. Writes' /\ call' = call
      BY <1>1, <1>3 DEF Writes, Running
    <2>2. /\ call.done <= Len(call.text) /\ Returning(call)
          /\ Shows(call, Output) /\ Len(Output) = HandedOver(call)
      BY <1>3 DEF PrintInv, Screen, Written
    <2>3. PICK out : out = Output /\ Output' = out
      BY <1>7
    <2>4. Shows(call, out)' /\ (Len(out) = HandedOver(call))' /\ Returning(call)'
      BY <2>1, <2>2, <2>3
    <2> QED
      BY <1>6, <2>1, <2>2, <2>3, <2>4 DEF Written, Shows
  <1> QED
    BY <1>1, <1>8, <1>9, <1>10 DEF Screen, Ended

\* What the disk does is not shown.
LEMMA DiskShows ==
  ASSUME PrintInv, NEW fault, Serve("block", fault)
  PROVE  Screen'
  <1>1. answer' = answer /\ sent' = sent /\ device["block"].doing = "serving" /\ "block" \in Ports
    BY DEF Serve, Ports
  <1>2. Running /\ IsCall(call) /\ call.port = "block"
    BY <1>1, Busy DEF PrintInv
  <1>3. PICK failed \in BOOLEAN : call' = Failing(call, failed)
    <2>1. call.failed \in BOOLEAN
      BY <1>2, CallFields
    <2>2. PICK failed \in BOOLEAN : failed = (call.failed \/ fault # "none")
      BY <2>1
    <2> QED
      BY <1>2, <2>2 DEF Serve, Failing
  <1>4. IsCall(call') /\ SameRequest(call, call')
    BY <1>2, <1>3, CallFails
  <1>5. Running' /\ ~Writes
    BY <1>2, <1>4, CallFields DEF Running, Writes, PrintInv, VInv, Reading
  <1> QED
    BY <1>1, <1>2, <1>4, <1>5, ScreenKept DEF PrintInv

\* A read that goes on, or answers.
LEMMA Reread ==
  ASSUME PrintInv, Running, call.op # "write", sent' = sent,
         \/ call' = None /\ answer'.op = call.op
         \/ Running' /\ call'.op # "write" /\ answer' = answer
  PROVE  Screen'
  BY DEF PrintInv, Screen, Written, Writes, Running, Ended

LEMMA ReadShows ==
  ASSUME PrintInv, Prepare \/ Collect
  PROVE  Screen'
  <1>1. /\ Running /\ IsCall(call) /\ call.port = "block" /\ call.op # "write" /\ sent' = sent
        /\ call.done \in Nat
    <2>1. PICK to : At(to)
      BY DEF Prepare, Collect
    <2>2. call.port = "block"
      BY DEF Prepare, Collect, Port, PrintInv, VInv, Reading
    <2> QED
      BY <2>1, <2>2, DriverCall DEF Prepare, Collect, PrintInv
  <1>2. CASE Prepare
    <2>1. call' = [call EXCEPT !.pc = "submit"] /\ answer' = answer
      BY <1>2 DEF Prepare, Goto
    <2>2. call'.op = call.op
      BY <1>1, <2>1 DEF IsCall, CallRecord
    <2>3. Running'
      BY <1>1, <2>2, CallFields DEF Running, None
    <2> QED
      BY <1>1, <2>1, <2>2, <2>3, Reread
  <1>3. CASE Collect
    <2>1. CASE StatusOf(memory["block"].status) = "Ok"
      <3>1. PICK done, sector, into : call' = Arrived(call, done, sector, into)
        BY <1>3, <2>1 DEF Collect, Arrived
      <3>2. call'.op = call.op /\ answer' = answer
        BY <1>1, <1>3, <2>1, <3>1 DEF Collect, Arrived, IsCall, CallRecord
      <3>3. Running'
        BY <1>1, <3>2, CallFields DEF Running, None
      <3> QED
        BY <1>1, <3>2, <3>3, Reread
    <2>2. CASE StatusOf(memory["block"].status) # "Ok"
      <3>1. call' = None /\ Return("NoProvider", call.into)
        BY <1>3, <2>2 DEF Collect
      <3>2. answer'.op = call.op
        BY <3>1 DEF Return
      <3> QED
        BY <1>1, <3>1, <3>2, Reread
    <2> QED
      BY <2>1, <2>2
  <1> QED
    BY <1>2, <1>3

LEMMA DoneShows ==
  ASSUME PrintInv, Done
  PROVE  Screen'
  <1>1. At("next") /\ sent' = sent
    BY DEF Done
  <1>2. /\ Running /\ IsCall(call) /\ call.pc = "next" /\ call.op \in {"tile", "length", "trace", "write"}
    BY <1>1, DriverCall DEF PrintInv
  <1>3. CASE call.op = "write"
    <2>1. call' = None /\ Return("Ok", call.into) /\ call.done >= Len(call.text)
      BY <1>3 DEF Done
    <2>2. answer'.op = "write" /\ answer'.text = call.text /\ answer'.formatted = call.formatted
      BY <1>3, <2>1 DEF Return
    <2>3. Writes /\ Output = sent
      BY <1>2, <1>3 DEF Writes, Output, Unsent
    <2>4. PICK c, d : c = call /\ d = answer'
      OBVIOUS
    <2>5. /\ Shows(c, sent) /\ Len(sent) = HandedOver(c) /\ Returning(c) /\ c.done <= Len(c.text)
      BY <2>3, <2>4 DEF PrintInv, Screen, Written
    <2>6. c.done = Len(c.text) /\ c.carriage \in BOOLEAN
      <3>1. c.done \in Nat /\ c.text \in Seq(Byte) /\ c.carriage \in BOOLEAN
        BY <1>2, <2>4, CallFields
      <3>2. Len(c.text) \in Nat
        BY <3>1
      <3> QED
        BY <2>1, <2>4, <2>5, <3>1, <3>2
    <2>7. ~c.carriage
      <3>1. Len(c.text) \in Nat
        BY <1>2, <2>4, CallFields
      <3> QED
        BY <2>5, <2>6, <3>1 DEF Returning
    <2>8. Len(sent) = ShownAt(c, Len(c.text))
      <3>1. Len(c.text) \in Nat /\ c.text \in Seq(Byte) /\ c.formatted \in BOOLEAN
        BY <1>2, <2>4, CallFields
      <3>2. ShownAt(c, Len(c.text)) \in Nat
        BY <3>1, ShownNext
      <3> QED
        BY <2>5, <2>6, <2>7, <3>2 DEF HandedOver
    <2>9. Shows(d, sent) /\ Len(sent) = ShownAt(d, Len(d.text))
      BY <2>2, <2>4, <2>5, <2>8, ShowsSame
    <2>10. Ended'
      BY <1>1, <2>4, <2>9 DEF Ended, Shows, ShownAt
    <2> QED
      BY <1>1, <2>1, <2>10 DEF PrintInv, Screen, Written, Writes, Running
  <1>4. CASE call.op # "write"
    <2>1. CASE call' = None
      <3>1. \E result, into : Return(result, into)
        BY <1>2, <1>4, <2>1 DEF Done, Started, None
      <3>2. answer'.op = call.op
        BY <3>1 DEF Return
      <3> QED
        BY <1>1, <1>2, <1>4, <2>1, <3>2, Reread
    <2>2. CASE call' # None
      <3>1. PICK into : /\ call' = [Started("trace", "block", TraceAt, into) EXCEPT !.failed = call.failed]
                        /\ answer' = answer
        BY <1>2, <1>4, <2>2 DEF Done
      <3>2. call'.op = "trace"
        BY <3>1 DEF Started
      <3> QED
        BY <1>1, <1>2, <1>4, <2>2, <3>1, <3>2, Reread DEF Running
    <2> QED
      BY <2>1, <2>2
  <1> QED
    BY <1>2, <1>3, <1>4

\* A call that only begins, or that finds no disk.
LEMMA ReadingShows ==
  ASSUME PrintInv, ReadTrace \/ \E tile, room : ReadTile(tile, 0, room)
  PROVE  Screen'
  <1>1. sent' = sent /\ ~Running
    BY DEF ReadTrace, ReadTile, Ready
  <1>2. ASSUME NEW op \in {"tile", "length"}, NEW offset, NEW into, ReadAt(op, offset, into)
        PROVE  Screen'
    <2>1. CASE offset % Sector # 0
      <3>1. call' = None /\ answer'.op = op
        BY <1>2, <2>1 DEF ReadAt
      <3> QED
        BY <1>1, <1>2, <3>1 DEF PrintInv, Screen, Written, Writes, Running, Ended
    <2>2. CASE offset % Sector = 0
      <3>1. call'.op = op /\ answer' = None
        BY <1>2, <2>2 DEF ReadAt, Started
      <3>2. ~Writes'
        BY <1>2, <3>1 DEF Writes
      <3> QED
        BY <1>1, <3>1, <3>2, ScreenUnwritten DEF PrintInv
    <2> QED
      BY <2>1, <2>2
  <1>3. ASSUME call' = None, answer'.op = "trace"
        PROVE  Screen'
    BY <1>1, <1>3 DEF PrintInv, Screen, Written, Writes, Running, Ended
  <1>4. ASSUME NEW tile, NEW room, ReadTile(tile, 0, room) PROVE Screen'
    <2>1. \E offset, into : ReadAt("tile", offset, into)
      BY <1>4 DEF ReadTile
    <2> QED
      BY <1>2, <2>1
  <1>5. CASE ReadTrace
    <2>1. (call' = None /\ answer'.op = "trace") \/ \E offset, into : ReadAt("length", offset, into)
      BY <1>5 DEF ReadTrace
    <2> QED
      BY <1>2, <1>3, <2>1
  <1> QED
    BY <1>4, <1>5

LEMMA ScreenIdle ==
  ASSUME PrintInv, UNCHANGED <<call, answer, sent, memory, used, device>>
  PROVE  Screen'
  <1>1. Ended'
    BY EndedKept DEF PrintInv, Screen
  <1>2. Written'
    <2>1. Output' = Output /\ (Unsent' <=> Unsent) /\ (Writes' <=> Writes)
      BY DEF Output, Unsent, Writes, Running
    <2>2. PICK out : out = Output
      OBVIOUS
    <2>3. Writes => /\ call.done <= Len(call.text) /\ Returning(call)
                    /\ Unsent => memory["console"].buffer \in Seq(Byte)
                    /\ Shows(call, out) /\ Len(out) = HandedOver(call)
      BY <2>2 DEF PrintInv, Screen, Written
    <2>4. Writes => /\ (call.done <= Len(call.text) /\ Returning(call))'
                    /\ (Unsent => memory["console"].buffer \in Seq(Byte))'
                    /\ Shows(call, out)' /\ (Len(out) = HandedOver(call))'
      BY <2>1, <2>3
    <2> QED
      BY <2>1, <2>2, <2>4 DEF Written
  <1> QED
    BY <1>1, <1>2 DEF PrintInv, Screen, Running

LEMMA ScreenStep ==
  ASSUME PrintInv, [Next]_vars
  PROVE  Screen'
  <1>1. CASE Open
    BY <1>1, ScreenIdle DEF Open
  <1>2. CASE Drive
    BY <1>2, ReadShows, StageShows, SubmitShows, WaitShows, DoneShows DEF Drive
  <1>3. CASE ReadTrace
    BY <1>3, ReadingShows
  <1>4. ASSUME NEW tile, NEW room, ReadTile(tile, 0, room) PROVE Screen'
    BY <1>4, ReadingShows
  <1>5. ASSUME NEW text \in Texts, NEW formatted \in BOOLEAN, WriteText(text, formatted) PROVE Screen'
    BY <1>5, WriteTextShows
  <1>6. ASSUME NEW port \in Ports, Take(port) \/ GiveBack(port) PROVE Screen'
    BY <1>6, TakeShows, GiveBackShows
  <1>7. ASSUME NEW port \in Ports, NEW fault, Serve(port, fault) PROVE Screen'
    BY <1>7, ServeConsoleShows, DiskShows DEF Ports
  <1>8. CASE UNCHANGED vars
    BY <1>8, ScreenIdle DEF vars
  <1> QED
    BY <1>1, <1>2, <1>3, <1>4, <1>5, <1>6, <1>7, <1>8 DEF Next

\* Everything written is shown once and in order, in whatever chunks and
\* however long the device takes over each; of a formatted text every newline
\* has its carriage return, and a write that returned is shown to its end.
THEOREM OutputHolds == Spec => []OutputExact
  <1>1. Init => Screen
    BY DEF Init, Screen, Written, Writes, Running, Ended
  <1>2. Screen /\ VInv => OutputExact
    <2> SUFFICES ASSUME Screen, VInv PROVE OutputExact
      OBVIOUS
    <2>1. ASSUME answer # None, answer.op = "write"
          PROVE  Shows(answer, sent) /\ Len(sent) = ShownAt(answer, Len(answer.text))
      BY <2>1 DEF Screen, Ended
    <2>2. ASSUME Writes PROVE Shows(call, sent)
      <3>1. sent \in Seq(Byte) /\ Shows(call, Output) /\ (Unsent => memory["console"].buffer \in Seq(Byte))
        BY <2>2 DEF Screen, Written
      <3>2. CASE Unsent
        BY <3>1, <3>2, ShowsLess DEF Output
      <3>3. CASE ~Unsent
        BY <3>1, <3>3 DEF Output
      <3> QED
        BY <3>2, <3>3
    <2> QED
      BY <2>1, <2>2 DEF OutputExact, Writes
  <1>3. VInv /\ Screen /\ [Next]_vars => Screen'
    BY ScreenStep DEF PrintInv
  <1> QED
    BY <1>1, <1>2, <1>3, VirtioInvariant, PTL DEF Spec

HIDE VirtioAssumption
USE InputAssumption

-----------------------------------------------------------------------------
(* The input path: its inductive invariant. *)

Places == {"pop", "read", "free", "feed", "idle", "check", "unmask", "asleep", "exit"}

InputTyped ==
  /\ variant \in {"aarch64", "x86_64", "polled"} /\ reading \in BOOLEAN
  /\ pending \in BOOLEAN /\ ending \in BOOLEAN
  /\ typed \in Seq(Keys) /\ uart \in Seq(Keys)
  /\ queue \in [buffer : [0 .. Slots - 1 -> Keys], head : 0 .. Slots - 1, accepted : Seq(Keys)]
  /\ tail \in 0 .. Slots - 1 /\ due \in Nat
  /\ pc \in Places /\ byte \in Keys
  /\ ran \in Seq(Keys) /\ line \in Seq(Keys) /\ screen \in Seq(Keys \cup {Prompt})

\* How many bytes are queued, and the slot of the i-th of them, without the
\* remainders that the code computes them by.
Count == IF queue.head >= tail THEN queue.head - tail ELSE queue.head - tail + Slots
Slot(i) == IF tail + i - 1 < Slots THEN tail + i - 1 ELSE tail + i - 1 - Slots
Held == IF pc = "feed" THEN 1 ELSE 0

\* InOrder, byte by byte.
Ordered ==
  /\ Len(queue.accepted) = Len(ran) + Held + Count
  /\ \A i \in 1 .. Len(ran) : queue.accepted[i] = ran[i]
  /\ pc = "feed" => queue.accepted[Len(ran) + 1] = byte
  /\ \A i \in 1 .. Count : queue.accepted[Len(ran) + Held + i] = queue.buffer[Slot(i)]

\* In the middle of pop there is a byte, and once read it is the oldest: the
\* handler never writes the slot that is not freed yet.
Popping ==
  /\ pc \in {"read", "free"} => queue.head # tail
  /\ pc = "free" => byte = queue.buffer[tail]

\* The handler runs only where the loop has interrupts on and is awake.
Interrupted == reading => pc \notin {"check", "unmask", "asleep", "exit"}

\* A byte that came after the last look at the queue has raised PENDING, and a
\* core that halts has none; a polled loop finds the queue as it left it.
Noticed ==
  /\ variant = "x86_64" /\ pc \in {"idle", "check"} => queue.head = tail \/ pending
  /\ variant = "x86_64" /\ pc = "asleep" => queue.head = tail
  /\ variant = "polled" => /\ reading => pc = "pop"
                           /\ pc \in {"idle", "exit"} => queue.head = tail
  /\ due <= Len(queue.accepted)

\* ScreenTrue, byte by byte.
Shown ==
  /\ Len(screen) = Len(line) + 1 /\ screen[1] = Prompt
  /\ \A i \in 1 .. Len(line) : screen[i + 1] = line[i]

IInv == InputTyped /\ Ordered /\ Popping /\ Interrupted /\ Noticed /\ Shown

-----------------------------------------------------------------------------
(* The queue's arithmetic. *)

\* An index wraps at most once.
LEMMA Wraps ==
  ASSUME NEW x \in Nat, x < 2 * Slots
  PROVE  x % Slots = IF x < Slots THEN x ELSE x - Slots
  <1>1. x < Slots => x % Slots = x
    OBVIOUS
  <1>2. x >= Slots => x % Slots = x - Slots
    OBVIOUS
  <1> QED
    BY <1>1, <1>2

\* The queue's parts are of their types.
LEMMA QueueTyped ==
  ASSUME InputTyped
  PROVE  /\ queue.buffer \in [0 .. Slots - 1 -> Keys] /\ queue.head \in 0 .. Slots - 1
         /\ queue.accepted \in Seq(Keys) /\ tail \in 0 .. Slots - 1
         /\ Count \in 0 .. Slots - 1
         /\ (Count = 0 <=> queue.head = tail)
         /\ \A i \in 1 .. Count : Slot(i) \in 0 .. Slots - 1 /\ Slot(i) # queue.head
         /\ (queue.head + 1) % Slots = (IF queue.head + 1 < Slots THEN queue.head + 1 ELSE 0)
         /\ (tail + 1) % Slots = (IF tail + 1 < Slots THEN tail + 1 ELSE 0)
  <1>1. /\ queue.buffer \in [0 .. Slots - 1 -> Keys] /\ queue.head \in 0 .. Slots - 1
        /\ queue.accepted \in Seq(Keys) /\ tail \in 0 .. Slots - 1
    BY DEF InputTyped
  <1>2. Count \in 0 .. Slots - 1 /\ (Count = 0 <=> queue.head = tail)
    BY <1>1 DEF Count
  <1>3. \A i \in 1 .. Count : Slot(i) \in 0 .. Slots - 1 /\ Slot(i) # queue.head
    BY <1>1 DEF Count, Slot
  <1>4. (queue.head + 1) % Slots = IF queue.head + 1 < Slots THEN queue.head + 1 ELSE 0
    <2>1. queue.head + 1 \in Nat /\ queue.head + 1 < 2 * Slots
      BY <1>1
    <2> QED
      BY <1>1, <2>1, Wraps
  <1>5. (tail + 1) % Slots = IF tail + 1 < Slots THEN tail + 1 ELSE 0
    <2> DEFINE x == tail + 1
    <2>1. x \in Nat /\ x < 2 * Slots /\ x <= Slots
      BY <1>1
    <2> HIDE DEF x
    <2>2. x % Slots = IF x < Slots THEN x ELSE 0
      BY <2>1, Wraps
    <2> QED
      BY <2>2 DEF x
  <1> QED
    BY <1>1, <1>2, <1>3, <1>4, <1>5

\* The properties are the byte by byte statements.
LEMMA QueuedBytes ==
  ASSUME InputTyped
  PROVE  Queued = [i \in 1 .. Count |-> queue.buffer[Slot(i)]]
  <1>1. queue.head \in 0 .. Slots - 1 /\ tail \in 0 .. Slots - 1
    BY QueueTyped
  <1>2. (queue.head - tail + Slots) % Slots = Count
    <2>1. queue.head - tail + Slots \in Nat /\ queue.head - tail + Slots < 2 * Slots
      BY <1>1
    <2> QED
      BY <1>1, <2>1, Wraps DEF Count
  <1>3. ASSUME NEW i \in 1 .. Count
        PROVE  (tail + i - 1) % Slots = Slot(i)
    <2> DEFINE x == tail + i - 1
    <2>1. x \in Nat /\ x < 2 * Slots
      <3>1. Count \in 0 .. Slots - 1
        BY QueueTyped
      <3> QED
        BY <1>1, <3>1
    <2> HIDE DEF x
    <2>2. x % Slots = IF x < Slots THEN x ELSE x - Slots
      BY <2>1, Wraps
    <2>3. Slot(i) = IF x < Slots THEN x ELSE x - Slots
      <3>1. i \in Int /\ tail \in Int /\ Slots \in Int
        BY <1>1, QueueTyped
      <3> QED
        BY <3>1 DEF Slot, x
    <2>4. x % Slots = Slot(i)
      BY <2>2, <2>3
    <2> QED
      BY <2>4 DEF x
  <1> QED
    BY <1>2, <1>3 DEF Queued

LEMMA OrderedIsInOrder ==
  ASSUME InputTyped, Ordered
  PROVE  InOrder
  <1> DEFINE q == [i \in 1 .. Count |-> queue.buffer[Slot(i)]]
             h == InHand
             all == ran \o h \o q
             acc == queue.accepted
  <1>1. q \in Seq(Keys) /\ Len(q) = Count /\ \A i \in 1 .. Count : q[i] = queue.buffer[Slot(i)]
    <2>1. Count \in 0 .. Slots - 1 /\ \A i \in 1 .. Count : queue.buffer[Slot(i)] \in Keys
      BY QueueTyped
    <2>2. Count \in Nat
      BY <2>1
    <2> QED
      BY <2>1, <2>2
  <1>2. h \in Seq(Keys) /\ Len(h) = Held /\ (pc = "feed" => h[1] = byte)
    BY DEF InHand, Held, InputTyped
  <1>3. ran \in Seq(Keys) /\ acc \in Seq(Keys)
    BY QueueTyped DEF InputTyped
  <1> HIDE DEF q, h
  <1>4. /\ all \in Seq(Keys) /\ Len(all) = Len(ran) + Len(h) + Len(q)
        /\ \A i \in 1 .. Len(ran) : all[i] = ran[i]
        /\ \A i \in 1 .. Len(h) : all[Len(ran) + i] = h[i]
        /\ \A i \in 1 .. Len(q) : all[Len(ran) + Len(h) + i] = q[i]
    <2> DEFINE front == ran \o h
    <2>1. /\ front \in Seq(Keys) /\ Len(front) = Len(ran) + Len(h)
          /\ \A i \in 1 .. Len(ran) : front[i] = ran[i]
          /\ \A i \in 1 .. Len(h) : front[Len(ran) + i] = h[i]
      BY <1>2, <1>3
    <2> HIDE DEF front
    <2>2. /\ front \o q \in Seq(Keys) /\ Len(front \o q) = Len(front) + Len(q)
          /\ \A i \in 1 .. Len(front) : (front \o q)[i] = front[i]
          /\ \A i \in 1 .. Len(q) : (front \o q)[Len(front) + i] = q[i]
      <3>1. /\ front \o q \in Seq(Keys) /\ Len(front \o q) = Len(front) + Len(q)
            /\ \A i \in 1 .. Len(front) + Len(q) :
                 (front \o q)[i] = IF i <= Len(front) THEN front[i] ELSE q[i - Len(front)]
        BY <1>1, <2>1, ConcatProperties
      <3>2. Len(front) \in Nat /\ Len(q) \in Nat
        BY <1>1, <2>1
      <3> QED
        BY <3>1, <3>2
    <2>3. all = front \o q
      BY DEF front
    <2>4. Len(ran) \in Nat /\ Len(h) \in Nat
      BY <1>2, <1>3
    <2> HIDE DEF all
    <2>5. \A i \in 1 .. Len(ran) : all[i] = ran[i]
      BY <2>1, <2>2, <2>3, <2>4
    <2>6. \A i \in 1 .. Len(h) : all[Len(ran) + i] = h[i]
      BY <2>1, <2>2, <2>3, <2>4
    <2> QED
      BY <2>1, <2>2, <2>3, <2>4, <2>5, <2>6
  <1> HIDE DEF all, acc
  <1>5. Len(all) = Len(acc)
    BY <1>1, <1>2, <1>3, <1>4 DEF Ordered, acc
  <1>6. ASSUME NEW i \in 1 .. Len(acc)
        PROVE  all[i] = acc[i]
    <2>0. Count \in Nat /\ Held \in {0, 1} /\ Len(ran) \in Nat /\ (Held = 1 <=> pc = "feed")
      BY <1>3, QueueTyped DEF Held
    <2>1. CASE i <= Len(ran)
      BY <1>3, <1>4, <2>0, <2>1 DEF Ordered, acc
    <2>2. CASE Held = 1 /\ i = Len(ran) + 1
      BY <1>2, <1>4, <2>0, <2>2 DEF Ordered, acc
    <2>3. CASE i > Len(ran) + Held
      <3> DEFINE j == i - Len(ran) - Held
      <3>1. j \in 1 .. Count /\ i = Len(ran) + Held + j
        BY <2>0, <2>3 DEF Ordered, acc
      <3> HIDE DEF j
      <3>2. all[Len(ran) + Len(h) + j] = q[j] /\ q[j] = queue.buffer[Slot(j)]
        BY <1>1, <1>4, <3>1
      <3>3. acc[Len(ran) + Held + j] = queue.buffer[Slot(j)]
        BY <3>1 DEF Ordered, acc
      <3> QED
        BY <1>2, <3>1, <3>2, <3>3
    <2> QED
      BY <2>0, <2>1, <2>2, <2>3
  <1>7. all = acc
    <2>1. acc \in Seq(Keys)
      BY <1>3 DEF acc
    <2> QED
      BY <1>4, <1>5, <1>6, <2>1, SeqEqual
  <1> QED
    BY <1>7, QueuedBytes DEF InOrder, all, acc, h, q

LEMMA ShownIsTrue ==
  ASSUME InputTyped, Shown
  PROVE  ScreenTrue
  <1> DEFINE row == <<Prompt>> \o line
  <1>1. line \in Seq(Keys \cup {Prompt}) /\ screen \in Seq(Keys \cup {Prompt})
    BY DEF InputTyped
  <1>2. /\ row \in Seq(Keys \cup {Prompt}) /\ Len(row) = Len(line) + 1 /\ row[1] = Prompt
        /\ \A i \in 1 .. Len(line) : row[i + 1] = line[i]
    BY <1>1
  <1> HIDE DEF row
  <1>3. ASSUME NEW i \in 1 .. Len(row)
        PROVE  row[i] = screen[i]
    <2>1. CASE i = 1
      BY <1>2, <2>1 DEF Shown
    <2>2. CASE i # 1
      <3> DEFINE j == i - 1
      <3>1. j \in 1 .. Len(line) /\ i = j + 1
        BY <1>1, <1>2, <2>2
      <3> HIDE DEF j
      <3> QED
        BY <1>2, <3>1 DEF Shown
    <2> QED
      BY <2>1, <2>2
  <1>4. row = screen
    BY <1>1, <1>2, <1>3 DEF Shown
  <1> QED
    BY <1>4 DEF ScreenTrue, row

-----------------------------------------------------------------------------
(* One lemma per step. *)

InPop == {"read", "free", "feed"}

\* A step that leaves the queue alone, and is not inside pop or feed.
LEMMA QueueFrame ==
  ASSUME Ordered, Popping, UNCHANGED <<queue, tail, ran, byte>>,
         pc' = pc \/ (pc \notin InPop /\ pc' \notin InPop)
  PROVE  Ordered' /\ Popping'
  <1>1. Held' = Held /\ Count' = Count /\ \A i : Slot(i)' = Slot(i)
    BY DEF Held, Count, Slot, InPop
  <1>2. Ordered'
    BY <1>1 DEF Ordered, InPop
  <1>3. Popping'
    BY DEF Popping, InPop
  <1> QED
    BY <1>2, <1>3

LEMMA ShellFrame ==
  ASSUME Shown, UNCHANGED <<line, screen>>
  PROVE  Shown'
  BY DEF Shown

LEMMA TypeKeeps ==
  ASSUME IInv, NEW key \in Keys, Type(key)
  PROVE  IInv'
  <1>1. UNCHANGED <<variant, reading, queue, tail, pending, ending, due, pc, byte, ran, line, screen>>
    BY DEF Type, shell
  <1>2. InputTyped'
    BY <1>1 DEF IInv, InputTyped, Type
  <1>3. Ordered' /\ Popping' /\ Shown'
    BY <1>1, QueueFrame, ShellFrame DEF IInv
  <1>4. Interrupted' /\ Noticed'
    BY <1>1 DEF IInv, Interrupted, Noticed
  <1> QED
    BY <1>2, <1>3, <1>4 DEF IInv

LEMMA OnIrqKeeps ==
  ASSUME IInv, OnIrq
  PROVE  IInv'
  <1>1. /\ UNCHANGED <<variant, typed, uart, queue, tail, pending, ending, due, byte, ran, line, screen>>
        /\ variant # "polled" /\ pc \notin {"check", "unmask", "exit"} /\ reading' = TRUE
        /\ pc' = IF pc = "asleep" THEN "pop" ELSE pc
    BY DEF OnIrq, Masked, Woken
  <1>2. InputTyped'
    BY <1>1 DEF IInv, InputTyped, Places
  <1>3. Ordered' /\ Popping' /\ Shown'
    BY <1>1, QueueFrame, ShellFrame DEF IInv, InPop
  <1>4. Interrupted' /\ Noticed'
    BY <1>1 DEF IInv, Interrupted, Noticed
  <1> QED
    BY <1>2, <1>3, <1>4 DEF IInv

\* What push does: nothing to a queue that is full, else one byte more at the
\* head, in a slot that holds none of those queued and is not the tail.
Pushed(key) ==
  \/ queue' = queue
  \/ /\ queue'.head = (queue.head + 1) % Slots /\ queue'.head # tail
     /\ queue'.buffer = [queue.buffer EXCEPT ![queue.head] = key]
     /\ queue'.accepted = Append(queue.accepted, key)

LEMMA PushValue ==
  ASSUME InputTyped, NEW key \in Keys, queue' = Push(queue, key)
  PROVE  /\ Pushed(key)
         /\ queue' \in [buffer : [0 .. Slots - 1 -> Keys], head : 0 .. Slots - 1, accepted : Seq(Keys)]
  <1>1. CASE (queue.head + 1) % Slots = tail
    BY <1>1 DEF Push, Pushed, InputTyped
  <1>2. CASE (queue.head + 1) % Slots # tail
    <2> DEFINE b == [queue.buffer EXCEPT ![queue.head] = key]
               h == (queue.head + 1) % Slots
               a == Append(queue.accepted, key)
    <2>1. queue' = [buffer |-> b, head |-> h, accepted |-> a]
      BY <1>2 DEF Push
    <2>2. b \in [0 .. Slots - 1 -> Keys] /\ h \in 0 .. Slots - 1 /\ a \in Seq(Keys)
      <3>1. b \in [0 .. Slots - 1 -> Keys] /\ a \in Seq(Keys)
        BY QueueTyped
      <3>2. h \in 0 .. Slots - 1
        BY QueueTyped
      <3> QED
        BY <3>1, <3>2
    <2> HIDE DEF b, h, a
    <2>3. queue'.head = h /\ queue'.buffer = b /\ queue'.accepted = a
      BY <2>1
    <2> QED
      BY <1>2, <2>1, <2>2, <2>3 DEF Pushed, b, h, a
  <1> QED
    BY <1>1, <1>2

\* A byte pushed is the last of those queued, and of those accepted.
LEMMA PushKeeps ==
  ASSUME InputTyped, Ordered, Popping, NEW key \in Keys, Pushed(key), UNCHANGED <<tail, ran, byte, pc>>,
         queue' \in [buffer : [0 .. Slots - 1 -> Keys], head : 0 .. Slots - 1, accepted : Seq(Keys)]
  PROVE  Ordered' /\ Popping' /\ Len(queue'.accepted) >= Len(queue.accepted)
  <1>0. /\ queue.buffer \in [0 .. Slots - 1 -> Keys] /\ queue.head \in 0 .. Slots - 1
        /\ queue.accepted \in Seq(Keys) /\ tail \in 0 .. Slots - 1 /\ ran \in Seq(Keys)
        /\ Len(queue.accepted) \in Nat /\ Len(ran) \in Nat /\ Count \in Nat /\ Held \in Nat
    <2>1. ran \in Seq(Keys) /\ queue.accepted \in Seq(Keys)
      BY DEF InputTyped
    <2>2. Held \in Nat
      BY DEF Held
    <2>3. Count \in 0 .. Slots - 1
      BY QueueTyped
    <2>4. Count \in Nat /\ Len(queue.accepted) \in Nat /\ Len(ran) \in Nat
      BY <2>1, <2>3
    <2> QED
      BY <2>1, <2>2, <2>4 DEF InputTyped
  <1>1. CASE queue' = queue
    BY <1>0, <1>1, QueueFrame
  <1>2. CASE /\ queue'.head = (queue.head + 1) % Slots /\ queue'.head # tail
             /\ queue'.buffer = [queue.buffer EXCEPT ![queue.head] = key]
             /\ queue'.accepted = Append(queue.accepted, key)
    <2>1. Count' = Count + 1 /\ Held' = Held /\ \A i : Slot(i)' = Slot(i)
      <3>1. queue'.head = IF queue.head + 1 < Slots THEN queue.head + 1 ELSE 0
        BY <1>2, QueueTyped
      <3>2. Count' = Count + 1
        <4>1. queue'.head # tail /\ tail' = tail
          BY <1>2
        <4>2. queue.head \in 0 .. Slots - 1 /\ tail \in 0 .. Slots - 1
          BY <1>0
        <4> DEFINE h == queue.head
                   n == queue'.head
                   C(x) == IF x >= tail THEN x - tail ELSE x - tail + Slots
        <4>3. Count = C(h) /\ Count' = C(n)
          BY <4>1 DEF Count
        <4>4. n = (IF h + 1 < Slots THEN h + 1 ELSE 0) /\ n # tail /\ h \in 0 .. Slots - 1
          BY <3>1, <4>1, <4>2
        <4> HIDE DEF h, n
        <4>5. C(n) = C(h) + 1
          BY <4>2, <4>4
        <4> QED
          BY <4>3, <4>5
      <3> QED
        BY <3>2 DEF Held, Slot
    <2>2. Slot(Count + 1) = queue.head
      <3>1. queue.head \in 0 .. Slots - 1 /\ tail \in 0 .. Slots - 1
        BY <1>0
      <3> QED
        BY <3>1 DEF Count, Slot
    <2>3. /\ Len(queue'.accepted) = Len(queue.accepted) + 1
          /\ \A i \in 1 .. Len(queue.accepted) : queue'.accepted[i] = queue.accepted[i]
          /\ queue'.accepted[Len(queue.accepted) + 1] = key
      BY <1>0, <1>2
    <2>4. ASSUME NEW i \in 1 .. Count + 1
          PROVE  queue'.accepted[Len(ran) + Held + i] = queue'.buffer[Slot(i)]
      <3>1. CASE i = Count + 1
        <4>1. Len(ran) + Held + i = Len(queue.accepted) + 1
          BY <1>0, <3>1 DEF Ordered
        <4> QED
          BY <1>0, <1>2, <2>2, <2>3, <3>1, <4>1
      <3>2. CASE i \in 1 .. Count
        <4>1. Slot(i) \in 0 .. Slots - 1 /\ Slot(i) # queue.head
          BY <3>2, QueueTyped
        <4>2. Len(ran) + Held + i \in 1 .. Len(queue.accepted)
          BY <1>0, <3>2 DEF Ordered
        <4> QED
          BY <1>0, <1>2, <2>3, <3>2, <4>1, <4>2 DEF Ordered
      <3> QED
        BY <1>0, <3>1, <3>2
    <2>5. Ordered'
      <3>1. Len(queue'.accepted) = Len(ran) + Held + Count + 1
        BY <1>0, <2>3 DEF Ordered
      <3>2. \A i \in 1 .. Len(ran) : queue'.accepted[i] = ran[i]
        BY <1>0, <2>3 DEF Ordered
      <3>3. pc = "feed" => queue'.accepted[Len(ran) + 1] = byte
        <4>1. pc = "feed" => Len(ran) + 1 \in 1 .. Len(queue.accepted)
          BY <1>0 DEF Ordered, Held
        <4> QED
          BY <2>3, <4>1 DEF Ordered
      <3> QED
        BY <1>0, <2>1, <2>4, <3>1, <3>2, <3>3 DEF Ordered
    <2>6. Popping'
      BY <1>0, <1>2 DEF Popping
    <2> QED
      BY <1>0, <2>3, <2>5, <2>6
  <1> QED
    BY <1>1, <1>2 DEF Pushed

LEMMA ReceiveKeeps ==
  ASSUME IInv, Receive
  PROVE  IInv'
  <1>1. /\ UNCHANGED <<variant, typed, raised, reading, tail, pc, byte, ran, line, screen>>
        /\ reading /\ uart # <<>> /\ uart' = Tail(uart)
        /\ pending' = (pending \/ variant # "aarch64")
    BY DEF Receive, shell
  <1>2. uart \in Seq(Keys) /\ pending \in BOOLEAN /\ due \in Nat /\ Len(queue.accepted) \in Nat
    BY QueueTyped DEF IInv, InputTyped
  <1>3. uart' \in Seq(Keys) /\ Head(uart) \in Keys /\ pending' \in BOOLEAN
    BY <1>1, <1>2
  <1>4. CASE /\ ending' = TRUE /\ due' = (IF ending THEN due ELSE Len(queue.accepted))
             /\ UNCHANGED queue
    <2>1. InputTyped'
      BY <1>1, <1>2, <1>3, <1>4 DEF IInv, InputTyped
    <2>2. Ordered' /\ Popping' /\ Shown'
      BY <1>1, <1>4, QueueFrame, ShellFrame DEF IInv
    <2>3. Interrupted' /\ Noticed'
      BY <1>1, <1>2, <1>4 DEF IInv, Interrupted, Noticed
    <2> QED
      BY <2>1, <2>2, <2>3 DEF IInv
  <1>5. CASE queue' = Push(queue, Head(uart)) /\ UNCHANGED <<ending, due>>
    <2>1. /\ Pushed(Head(uart))
          /\ queue' \in [buffer : [0 .. Slots - 1 -> Keys], head : 0 .. Slots - 1, accepted : Seq(Keys)]
      BY <1>3, <1>5, PushValue DEF IInv
    <2>2. Ordered' /\ Popping' /\ Len(queue'.accepted) >= Len(queue.accepted)
      BY <1>1, <1>3, <2>1, PushKeeps DEF IInv
    <2>3. InputTyped'
      BY <1>1, <1>2, <1>3, <1>5, <2>1 DEF IInv, InputTyped
    <2>4. Interrupted' /\ Shown'
      BY <1>1, ShellFrame DEF IInv, Interrupted
    <2>5. Noticed'
      <3>1. variant = "x86_64" => pending'
        BY <1>1
      <3>2. pc \notin {"check", "unmask", "asleep", "exit"} /\ (variant = "polled" => pc = "pop")
        BY <1>1 DEF IInv, Interrupted, Noticed
      <3>3. due' <= Len(queue'.accepted)
        <4>1. Len(queue'.accepted) \in Nat /\ due' = due /\ due <= Len(queue.accepted)
          BY <1>5, <2>1 DEF IInv, Noticed
        <4> QED
          BY <1>2, <2>2, <4>1
      <3> QED
        BY <1>1, <3>1, <3>2, <3>3 DEF Noticed
    <2> QED
      BY <2>2, <2>3, <2>4, <2>5 DEF IInv
  <1> QED
    BY <1>4, <1>5 DEF Receive

\* Steps that only move the loop, or stop the handler.
LEMMA MovesKeep ==
  ASSUME IInv, Received \/ OnTimer \/ Idle \/ WaitUnless \/ Unmask, ~reading \/ Received
  PROVE  IInv'
  <1>1. UNCHANGED <<variant, typed, uart, raised, queue, tail, ending, due, byte, ran, line, screen>>
    BY DEF Received, OnTimer, Idle, WaitUnless, Unmask, console, shell
  <1>2. /\ pending' \in BOOLEAN /\ reading' \in BOOLEAN /\ pc' \in Places
        /\ pc' = pc \/ (pc \notin InPop /\ pc' \notin InPop)
    BY DEF IInv, InputTyped, Received, OnTimer, Idle, WaitUnless, Unmask, console, shell, Woken, Places, InPop
  <1>3. InputTyped'
    BY <1>1, <1>2 DEF IInv, InputTyped
  <1>4. Ordered' /\ Popping' /\ Shown'
    BY <1>1, <1>2, QueueFrame, ShellFrame DEF IInv
  <1>5. ASSUME Received
        PROVE  Interrupted' /\ Noticed'
    BY <1>1, <1>5 DEF IInv, Interrupted, Noticed, Received, shell
  <1>6. ASSUME OnTimer
        PROVE  Interrupted' /\ Noticed'
    BY <1>1, <1>6 DEF IInv, Interrupted, Noticed, OnTimer, Woken, console
  <1>7. ASSUME Idle, ~reading
        PROVE  Interrupted' /\ Noticed'
    BY <1>1, <1>7 DEF IInv, InputTyped, Interrupted, Noticed, Idle
  <1>8. ASSUME WaitUnless \/ Unmask, ~reading
        PROVE  Interrupted' /\ Noticed'
    BY <1>1, <1>8 DEF IInv, Interrupted, Noticed, WaitUnless, Unmask, console
  <1> QED
    BY <1>3, <1>4, <1>5, <1>6, <1>7, <1>8 DEF IInv, Received

LEMMA PopTestKeeps ==
  ASSUME IInv, PopTest, ~reading
  PROVE  IInv'
  <1>1. /\ UNCHANGED <<variant, console, queue, tail, pending, ending, due, byte, ran, line, screen>>
        /\ pc = "pop" /\ pc' = IF tail = queue.head THEN "idle" ELSE "read"
    BY DEF PopTest
  <1>2. InputTyped'
    BY <1>1 DEF IInv, InputTyped, Places, console
  <1>3. Ordered'
    <2>1. Held' = Held /\ Count' = Count /\ \A i : Slot(i)' = Slot(i)
      BY <1>1 DEF Held, Count, Slot
    <2> QED
      BY <1>1, <2>1 DEF IInv, Ordered
  <1>4. Popping' /\ Interrupted' /\ Noticed' /\ Shown'
    BY <1>1, ShellFrame DEF IInv, Popping, Interrupted, Noticed, console
  <1> QED
    BY <1>2, <1>3, <1>4 DEF IInv

LEMMA PopReadKeeps ==
  ASSUME IInv, PopRead, ~reading
  PROVE  IInv'
  <1>1. /\ UNCHANGED <<variant, console, queue, tail, pending, ending, due, ran, line, screen>>
        /\ pc = "read" /\ pc' = "free" /\ byte' = queue.buffer[tail]
    BY DEF PopRead
  <1>2. InputTyped'
    <2>1. byte' \in Keys
      BY <1>1, QueueTyped DEF IInv
    <2> QED
      BY <1>1, <2>1 DEF IInv, InputTyped, Places, console
  <1>3. Ordered'
    <2>1. Held' = Held /\ Count' = Count /\ \A i : Slot(i)' = Slot(i)
      BY <1>1 DEF Held, Count, Slot
    <2> QED
      BY <1>1, <2>1 DEF IInv, Ordered
  <1>4. Popping' /\ Interrupted' /\ Noticed' /\ Shown'
    BY <1>1, ShellFrame DEF IInv, Popping, Interrupted, Noticed, console
  <1> QED
    BY <1>2, <1>3, <1>4 DEF IInv

\* The slot is freed: the oldest byte queued is the byte in hand.
LEMMA PopFreeKeeps ==
  ASSUME IInv, PopFree, ~reading
  PROVE  IInv'
  <1>1. /\ UNCHANGED <<variant, console, queue, pending, ending, due, byte, ran, line, screen>>
        /\ pc = "free" /\ pc' = "feed" /\ tail' = (tail + 1) % Slots
    BY DEF PopFree
  <1>2. /\ queue.head \in 0 .. Slots - 1 /\ tail \in 0 .. Slots - 1 /\ queue.head # tail
        /\ byte = queue.buffer[tail] /\ Len(ran) \in Nat
    BY <1>1 DEF IInv, InputTyped, Popping
  <1>3. tail' = IF tail + 1 < Slots THEN tail + 1 ELSE 0
    BY <1>1, QueueTyped DEF IInv
  <1>4. InputTyped'
    <2>1. tail' \in 0 .. Slots - 1
      BY <1>2, <1>3
    <2>2. /\ UNCHANGED <<variant, console, queue, pending, ending, due, byte, ran, line, screen>>
          /\ pc' = "feed"
      BY <1>1
    <2> QED
      BY <2>1, <2>2 DEF IInv, InputTyped, Places, console
  <1>5. /\ Count \in Nat /\ Count' = Count - 1 /\ Held = 0 /\ Held' = 1 /\ Slot(1) = tail
    <2> DEFINE h == queue.head
               n == tail'
               C(x) == IF h >= x THEN h - x ELSE h - x + Slots
    <2>1. Count = C(tail) /\ Count' = C(n)
      BY <1>1 DEF Count
    <2>2. n = (IF tail + 1 < Slots THEN tail + 1 ELSE 0) /\ h \in 0 .. Slots - 1 /\ h # tail
      BY <1>2, <1>3
    <2> HIDE DEF h, n
    <2>3. C(tail) \in Nat /\ C(n) = C(tail) - 1
      BY <1>2, <2>2
    <2>4. Slot(1) = tail
      BY <1>2 DEF Slot
    <2> QED
      BY <1>1, <2>1, <2>3, <2>4 DEF Held
  <1>6. ASSUME NEW i \in 1 .. Count - 1
        PROVE  Slot(i)' = Slot(i + 1)
    <2> DEFINE n == tail'
    <2>1. Count \in 0 .. Slots - 1
      BY QueueTyped DEF IInv
    <2>2. i \in 1 .. Slots - 1 /\ tail \in 0 .. Slots - 1
      BY <1>2, <2>1
    <2>3. n = IF tail + 1 < Slots THEN tail + 1 ELSE 0
      BY <1>3
    <2>4. Slot(i)' = IF n + i - 1 < Slots THEN n + i - 1 ELSE n + i - 1 - Slots
      BY DEF Slot
    <2>5. Slot(i + 1) = IF tail + i < Slots THEN tail + i ELSE tail + i - Slots
      BY <2>2 DEF Slot
    <2> HIDE DEF n
    <2> QED
      BY <2>2, <2>3, <2>4, <2>5
  <1>7. Ordered'
    <2>1. Len(queue.accepted) = Len(ran) + 1 + (Count - 1) /\ Count >= 1
      <3>1. Count # 0
        BY <1>2, QueueTyped DEF IInv
      <3> QED
        BY <1>2, <1>5, <3>1 DEF IInv, Ordered
    <2>2. queue.accepted[Len(ran) + 1] = byte
      <3>1. 1 \in 1 .. Count
        BY <1>5, <2>1
      <3>2. queue.accepted[Len(ran) + Held + 1] = queue.buffer[Slot(1)]
        BY <3>1 DEF IInv, Ordered
      <3> QED
        BY <1>2, <1>5, <3>2
    <2>3. ASSUME NEW i \in 1 .. Count - 1
          PROVE  queue.accepted[Len(ran) + 1 + i] = queue.buffer[Slot(i)']
      <3>1. i + 1 \in 1 .. Count /\ Len(ran) + Held + (i + 1) = Len(ran) + 1 + i
        BY <1>2, <1>5
      <3>2. queue.accepted[Len(ran) + Held + (i + 1)] = queue.buffer[Slot(i + 1)]
        BY <3>1 DEF IInv, Ordered
      <3> QED
        BY <1>6, <3>1, <3>2
    <2>4. \A i \in 1 .. Len(ran) : queue.accepted[i] = ran[i]
      BY DEF IInv, Ordered
    <2> QED
      BY <1>1, <1>5, <2>1, <2>2, <2>3, <2>4 DEF Ordered
  <1>8. Popping' /\ Interrupted' /\ Noticed' /\ Shown'
    BY <1>1, ShellFrame DEF IInv, Popping, Interrupted, Noticed, console
  <1> QED
    BY <1>4, <1>7, <1>8 DEF IInv

LEMMA FrontValue ==
  ASSUME NEW S, NEW s \in Seq(S), s # <<>>
  PROVE  /\ Front(s) \in Seq(S) /\ Len(Front(s)) = Len(s) - 1
         /\ \A i \in 1 .. Len(s) - 1 : Front(s)[i] = s[i]
  <1> DEFINE n == Len(s) - 1
  <1>1. n \in Nat /\ \A i \in 1 .. n : s[i] \in S
    <2>1. Len(s) \in Nat \ {0}
      BY EmptySeq
    <2> QED
      BY <2>1
  <1> HIDE DEF n
  <1>2. /\ SubSeq(s, 1, n) \in Seq(S) /\ Len(SubSeq(s, 1, n)) = n
        /\ \A i \in 1 .. n : SubSeq(s, 1, n)[i] = s[i]
    BY <1>1
  <1>3. Front(s) = SubSeq(s, 1, n)
    BY DEF Front, n
  <1> QED
    BY <1>2, <1>3 DEF n

\* The line and the row change together, or neither does.
LEMMA FeedShows ==
  ASSUME InputTyped, Shown, Feed
  PROVE  /\ line' \in Seq(Keys) /\ screen' \in Seq(Keys \cup {Prompt})
         /\ Shown'
  <1>1. /\ line \in Seq(Keys) /\ screen \in Seq(Keys \cup {Prompt}) /\ byte \in Keys
        /\ Len(line) \in Nat /\ Len(screen) = Len(line) + 1 /\ screen[1] = Prompt
        /\ \A i \in 1 .. Len(line) : screen[i + 1] = line[i]
    BY DEF InputTyped, Shown
  <1>2. CASE line' = <<>> /\ screen' = <<Prompt>>
    BY <1>2 DEF Shown
  <1>3. CASE UNCHANGED <<line, screen>>
    BY <1>1, <1>3, ShellFrame
  <1>4. CASE line # <<>> /\ line' = LineBackspace(line) /\ screen' = Erased(screen)
    <2>1. Len(line) >= 1 /\ screen # <<>>
      BY <1>1, <1>4
    <2>2. line' = Front(line) /\ screen' = Front(screen)
      BY <1>4, <2>1 DEF LineBackspace, Erased
    <2>3. /\ line' \in Seq(Keys) /\ Len(line') = Len(line) - 1
          /\ \A i \in 1 .. Len(line) - 1 : line'[i] = line[i]
      BY <1>1, <1>4, <2>2, FrontValue
    <2>4. /\ screen' \in Seq(Keys \cup {Prompt}) /\ Len(screen') = Len(line)
          /\ \A i \in 1 .. Len(line) : screen'[i] = screen[i]
      <3>1. /\ Front(screen) \in Seq(Keys \cup {Prompt}) /\ Len(Front(screen)) = Len(screen) - 1
            /\ \A i \in 1 .. Len(screen) - 1 : Front(screen)[i] = screen[i]
        BY <1>1, <2>1, FrontValue
      <3>2. Len(screen) - 1 = Len(line)
        BY <1>1
      <3> QED
        BY <2>2, <3>1, <3>2
    <2> QED
      BY <1>1, <2>1, <2>3, <2>4 DEF Shown
  <1>5. CASE FeedKey(byte)
    <2>1. CASE Len(line) < LineCap
      <3>1. line' = Append(line, byte)
        BY <1>5, <2>1 DEF FeedKey, LinePush
      <3>2. /\ line' \in Seq(Keys) /\ Len(line') = Len(line) + 1 /\ line'[Len(line) + 1] = byte
            /\ \A i \in 1 .. Len(line) : line'[i] = line[i]
        BY <1>1, <3>1
      <3>3. line' # line
        BY <1>1, <3>2
      <3>4. screen' = Append(screen, byte)
        BY <1>5, <3>3 DEF FeedKey, Echoed
      <3>5. /\ screen' \in Seq(Keys \cup {Prompt}) /\ Len(screen') = Len(screen) + 1
            /\ screen'[Len(screen) + 1] = byte /\ \A i \in 1 .. Len(screen) : screen'[i] = screen[i]
        BY <1>1, <3>4
      <3>6. ASSUME NEW i \in 1 .. Len(line')
            PROVE  screen'[i + 1] = line'[i]
        <4>1. CASE i = Len(line) + 1
          BY <1>1, <3>2, <3>5, <4>1
        <4>2. CASE i \in 1 .. Len(line)
          BY <1>1, <3>2, <3>5, <4>2
        <4> QED
          BY <1>1, <3>2, <4>1, <4>2
      <3>7. screen'[1] = Prompt /\ Len(screen') = Len(line') + 1
        BY <1>1, <3>2, <3>5
      <3> QED
        BY <3>2, <3>5, <3>6, <3>7 DEF Shown
    <2>2. CASE ~(Len(line) < LineCap)
      BY <1>1, <1>5, <2>2, ShellFrame DEF FeedKey, LinePush
    <2> QED
      BY <2>1, <2>2
  <1>6. CASE byte = Back
    <2>1. line' = LineBackspace(line) /\ screen' = IF line = <<>> THEN screen ELSE Erased(screen)
      BY <1>6 DEF Feed
    <2>2. line = <<>> => line' = line
      BY <2>1 DEF LineBackspace
    <2>3. \/ UNCHANGED <<line, screen>>
          \/ line # <<>> /\ line' = LineBackspace(line) /\ screen' = Erased(screen)
      BY <2>1, <2>2
    <2> QED
      BY <1>3, <1>4, <2>3
  <1> QED
    BY <1>2, <1>3, <1>5, <1>6 DEF Feed

\* The byte in hand becomes the last one run.
LEMMA FeedKeeps ==
  ASSUME IInv, Feed, ~reading
  PROVE  IInv'
  <1>1. /\ UNCHANGED <<variant, console, queue, tail, pending, ending, due, byte>>
        /\ pc = "feed" /\ pc' = "pop" /\ ran' = Append(ran, byte)
    BY DEF Feed
  <1>2. /\ line' \in Seq(Keys) /\ screen' \in Seq(Keys \cup {Prompt}) /\ Shown'
    BY FeedShows DEF IInv
  <1>3. /\ ran \in Seq(Keys) /\ byte \in Keys /\ Len(ran) \in Nat /\ Count \in 0 .. Slots - 1
    BY QueueTyped DEF IInv, InputTyped
  <1>4. /\ ran' \in Seq(Keys) /\ Len(ran') = Len(ran) + 1 /\ ran'[Len(ran) + 1] = byte
        /\ \A i \in 1 .. Len(ran) : ran'[i] = ran[i]
    BY <1>1, <1>3
  <1>5. InputTyped'
    BY <1>1, <1>2, <1>4 DEF IInv, InputTyped, Places, console
  <1>6. Held = 1 /\ Held' = 0 /\ Count' = Count /\ \A i : Slot(i)' = Slot(i)
    BY <1>1 DEF Held, Count, Slot
  <1>7. Ordered'
    <2>1. /\ Len(queue.accepted) = Len(ran) + 1 + Count
          /\ \A i \in 1 .. Len(ran) : queue.accepted[i] = ran[i]
          /\ queue.accepted[Len(ran) + 1] = byte
          /\ \A i \in 1 .. Count : queue.accepted[Len(ran) + 1 + i] = queue.buffer[Slot(i)]
      BY <1>1, <1>6 DEF IInv, Ordered
    <2>2. \A i \in 1 .. Len(ran') : queue.accepted[i] = ran'[i]
      BY <1>3, <1>4, <2>1
    <2>3. Len(queue.accepted) = Len(ran') + 0 + Count
      BY <1>3, <1>4, <2>1
    <2>4. \A i \in 1 .. Count : queue.accepted[Len(ran') + 0 + i] = queue.buffer[Slot(i)]
      BY <1>3, <1>4, <2>1
    <2> QED
      BY <1>1, <1>6, <2>2, <2>3, <2>4 DEF Ordered
  <1>8. Popping' /\ Interrupted' /\ Noticed'
    BY <1>1 DEF IInv, Popping, Interrupted, Noticed, console
  <1> QED
    BY <1>2, <1>5, <1>7, <1>8 DEF IInv

-----------------------------------------------------------------------------
(* The theorems about the input path. *)

LEMMA InitSafe == InputInit => IInv
  <1> SUFFICES ASSUME InputInit PROVE IInv
    OBVIOUS
  <1>1. /\ queue.buffer = [s \in 0 .. Slots - 1 |-> End] /\ queue.head = 0 /\ queue.accepted = <<>>
        /\ tail = 0 /\ pc = "pop" /\ ran = <<>> /\ line = <<>> /\ screen = <<Prompt>> /\ due = 0
        /\ variant \in {"aarch64", "x86_64", "polled"} /\ reading = FALSE
    BY DEF InputInit
  <1>2. InputTyped
    <2>1. queue \in [buffer : [0 .. Slots - 1 -> Keys], head : 0 .. Slots - 1, accepted : Seq(Keys)]
      <3>1. 0 \in 0 .. Slots - 1 /\ <<>> \in Seq(Keys) /\ [s \in 0 .. Slots - 1 |-> End] \in [0 .. Slots - 1 -> Keys]
        OBVIOUS
      <3> QED
        BY <3>1 DEF InputInit
    <2>2. tail \in 0 .. Slots - 1 /\ screen \in Seq(Keys \cup {Prompt}) /\ due \in Nat
      BY <1>1
    <2> QED
      BY <1>1, <2>1, <2>2 DEF InputInit, InputTyped, Places
  <1>3. Count = 0 /\ Held = 0
    BY <1>1 DEF Count, Held
  <1>4. Ordered /\ Shown
    BY <1>1, <1>3 DEF Ordered, Shown
  <1>5. Popping /\ Interrupted /\ Noticed
    BY <1>1 DEF Popping, Interrupted, Noticed
  <1> QED
    BY <1>2, <1>4, <1>5 DEF IInv

LEMMA StepSafe == IInv /\ [InputNext]_inputVars => IInv'
  <1> SUFFICES ASSUME IInv, [InputNext]_inputVars PROVE IInv'
    OBVIOUS
  <1>1. CASE Loop
    BY <1>1, PopTestKeeps, PopReadKeeps, PopFreeKeeps, FeedKeeps, MovesKeep DEF Loop
  <1>2. CASE Handler
    <2>1. ASSUME OnTimer
          PROVE  IInv'
      BY <2>1, MovesKeep DEF OnTimer
    <2> QED
      BY <1>2, <2>1, OnIrqKeeps, ReceiveKeeps, MovesKeep DEF Handler
  <1>3. ASSUME NEW key \in Keys, Type(key)
        PROVE  IInv'
    BY <1>3, TypeKeeps
  <1>4. CASE UNCHANGED inputVars
    <2>1. UNCHANGED <<variant, typed, uart, raised, reading, queue, tail, pending, ending, due,
                      pc, byte, ran, line, screen>>
      BY <1>4 DEF inputVars, console, shell
    <2>2. Ordered' /\ Popping' /\ Shown'
      BY <2>1, QueueFrame, ShellFrame DEF IInv
    <2> QED
      BY <2>1, <2>2 DEF IInv, InputTyped, Interrupted, Noticed
  <1> QED
    BY <1>1, <1>2, <1>3, <1>4 DEF InputNext

LEMMA InputInductive == InputSpec => []IInv
  BY InitSafe, StepSafe, PTL DEF InputSpec

\* mlos-queue between an interrupt and the loop it interrupts, at any of pop's
\* accesses and for any capacity: nothing accepted is lost, repeated or
\* overtaken.
THEOREM QueueInOrder == InputSpec => []InOrder
  <1>1. IInv => InOrder
    BY OrderedIsInOrder DEF IInv
  <1> QED
    BY <1>1, InputInductive, PTL

\* With nothing queued and nothing in hand, the shell has run all it accepted.
LEMMA EmptyIsRun ==
  ASSUME IInv, queue.head = tail, pc # "feed"
  PROVE  ran = queue.accepted /\ Len(ran) >= due
  <1>1. ran \in Seq(Keys) /\ queue.accepted \in Seq(Keys) /\ Count = 0 /\ Held = 0
    BY QueueTyped DEF IInv, InputTyped, Held
  <1>2. Len(ran) = Len(queue.accepted) /\ \A i \in 1 .. Len(ran) : ran[i] = queue.accepted[i]
    BY <1>1 DEF IInv, Ordered
  <1>3. ran = queue.accepted
    BY <1>1, <1>2, SeqEqual
  <1>4. due <= Len(queue.accepted) /\ due \in Nat /\ Len(ran) \in Nat
    BY <1>1 DEF IInv, Noticed, InputTyped
  <1> QED
    BY <1>3, <1>4

\* wait_unless on x86-64: a core that halts has nothing queued, whenever the
\* last byte came.
THEOREM NeverSleepsOnInput == InputSpec => []AsleepDrained
  <1>1. IInv => AsleepDrained
    <2> SUFFICES ASSUME IInv, variant = "x86_64", pc = "asleep" PROVE ran = queue.accepted
      BY DEF AsleepDrained
    <2>1. queue.head = tail /\ pc # "feed"
      BY DEF IInv, Noticed
    <2> QED
      BY <2>1, EmptyIsRun
  <1> QED
    BY <1>1, InputInductive, PTL

\* A guest that polls ends only when it has run everything typed before Ctrl-D.
THEOREM PolledEndsClean == InputSpec => []PolledEndRunsAll
  <1>1. IInv => PolledEndRunsAll
    <2> SUFFICES ASSUME IInv, variant = "polled", pc = "exit" PROVE Len(ran) >= due
      BY DEF PolledEndRunsAll, EndRunsAll
    <2>1. queue.head = tail /\ pc # "feed"
      BY DEF IInv, Noticed
    <2> QED
      BY <2>1, EmptyIsRun
  <1> QED
    BY <1>1, InputInductive, PTL

\* Shell::feed, for a line of any capacity: the row is the prompt and the line,
\* whatever was refused and however often backspace was hit.
THEOREM ScreenShowsLine == InputSpec => []ScreenTrue
  <1>1. IInv => ScreenTrue
    BY ShownIsTrue DEF IInv
  <1> QED
    BY <1>1, InputInductive, PTL
=============================================================================
