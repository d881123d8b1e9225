# MLOS in TLA+

MLOS is a small kernel whose unit of memory is the ML object: a weight tile, a KV
block, an activation buffer. An object is in a table, may be resident in one
arena of memory, and belongs to a session that was promised something when it was
admitted. This directory models the part of it that decides, in `src/crates/`,
from the loader's hand-over to the replay of a trace, checks the models with TLC on
small instances, and proves with TLAPS, for every size, the two data structures under
everything else and most of the safety of what is built on them: the manager, the
ladder's floors, the latency bound, the input queue, the disk driver, and
the order in which interrupts and the memory map come up.

## 1. Inventory

| Component | State it keeps | Operations | Talks to |
|---|---|---|---|
| `mlos-objtab` | `N` slots, each vacant, removed or live; a probe order per id | insert, get, get_mut, remove, at | called by the manager and by every scan |
| `mlos-arena` | a sorted list of at most `HOLES` free extents, `used` | place, release, occupancy, fits | called by the manager and by the ladder's shrink |
| `mlos-session` | at most `MAX_SESSIONS` sessions: contract, rung, resident bytes, what was delivered | create, adopt, destroy, charge, credit | called by the manager, admission, the ladder |
| `mlos-objman` | table, arena, sessions, providers, counters, policy, clock | attach, register, acquire, consume, release, evict, create/destroy sessions | the composition of all of the above |
| `mlos-admit` | none of its own: a budget (`Capacity`) | admit in slots, ceiling, bytes and latency | reads the sessions; called by create_session |
| `mlos-ladder` | none of its own: a `Shape`, the rungs in the sessions | arrive, next, squeeze (deepen, step, rewrite) | drives the manager |
| `mlos-sched` | cursors, clock, due times; ProcessMajor's current and started | pick, advance, merge | reads declared streams and latency ceilings |
| `mlos-lab` | the one manager of the kernel, lanes cut from a trace, the disk it found | model, replay, sweep, declare, advance | drives scheduler and manager, reads the disk |
| `mlos-queue` | a static ring, head and tail | push (interrupt), pop (loop) | between console handler and shell |
| kernels and HALs | pending and ending flags, controller registers | on_irq, receive, idle, wait_unless | interrupts the shell's loop |
| `mlsh`, `mlos-line` | the line being edited | feed, run, the commands | drives lab and ladder |
| `mlos-policy`, `mlos-stream` | a declared stream and a cursor; LRU and cost figures | choose a victim, next use | asked by make_room |
| `mlos-events`, `mlos-metrics` | a ring with a dropped count; counters | record, read; count, headline | written by the manager, read by reports and by `mlos-trace` |
| `mlos-virtio*`, `mlos-console` | descriptor, available and used rings; static buffers | probe, negotiate, configure, submit, wait, read_at, write | the device is a second agent |
| `mlos-sim` | the resident vector, its index, an arena, a cursor | replay a trace, compare policies | predicts what the kernel does |
| `mlos-trace`, `mlos-workload`, `mlos-synth` | none that outlives a call | generate, parse | inputs of sim, sched, lab |
| `mlos-fdt`, `mlos-pvh`, `mlos-machine` | the scan's fields, the memory map | walk, scan, reserve, carve, cut the command line | called once, at boot, by both kernels |
| gic, apic, mmu, trap, UARTs | device registers | set up, route, acknowledge, map | under the HALs and the boot path |
| layout, snapshot, spaces, image-map, elf, cli | none that outlives a call | format, parse | reports and the build |

What is hard here:

* **Partial failure.** A fault charges the owner, makes room, places bytes, reads
  and updates the table; each step can fail after the ones before it. Destroying a
  session and squeezing one are loops of such steps.
* **Several records of one fact.** Where bytes are is recorded in the table, the free
  list, `used`, the counters and the owner's account, all updated by hand.
* **A bounded free list.** A release can be refused, and every caller of it has a
  path for that which no ordinary run takes.
* **Interrupts.** The console's handler runs between any two accesses of the loop
  that empties the queue, and between the loop's last look and its sleep.
* **Turns.** Latency ceilings, lockstep and admission together promise that a token
  never takes too long.
* **A device on the other side of memory.** Virtio rings and static buffers are shared
  with an agent that works in its own time, may fail, and may leave a status unwritten.
* **Two programs that must agree.** Kernel and simulator each keep ticks, hints,
  residency and a policy of their own, and are compared count by count; kernel and
  generator each cut a trace into tokens.
* **An order nobody can retry.** At boot, vectors, controllers, routes, timer and the
  mask come up once, with keys and ticks already arriving, from what one pass over a
  tree or a table of records found.

What makes each component correct: the table answers as a map would, whatever was
inserted and removed before; the arena never hands out a byte twice and never loses
one; an account is exactly what its session holds; a refused call changes nothing;
what the walk planned is what the table holds, floors are kept and nobody is ended
while anybody can still give something up; a byte that was accepted is run once, in
order, in the end; no session waits longer than it was promised; the kernel does with
a trace what the simulator said it would; a read returns the disk's bytes or an error;
boot finds what the loader described, keeps what runs mapped, and ends in a shell that
hears. `PROJECT.json` lists the hazards, each at its line, with the properties that
watch it.

## 2. Modules

```
 ObjectMap <|-- ObjectTable --- TableArenaProofs           (<|-- is implemented by)
 ByteSpace <|-- Arena --------------+
                  | extends        | extends
               FreeList ------ FreeListProofs
                  |
   Sessions -- Manager -- Ladder              Workload -- Schedule      InputPath
                  |
                 Lab ........ Simulator       MemoryMap -- DeviceTree -- Boot
                  |               |
      Stream -- Policy -----------+           Virtio     (.... is run beside)
```

Manager, Ladder, Lab, Schedule and Boot have a module of proofs too, each named after
its specification, and Virtio and InputPath share DeviceProofs; LadderProofs and LabProofs
extend ManagerProofs, and that FreeListProofs, as the specifications do.

Each specification has an `MC` module with the values of its constants; each `.cfg`
is one question asked of it. Operators whose comment begins with *Mutant* are
plausible mistakes in the code; no specification uses them, and each shows that a
property can fail.

**ObjectMap, ObjectTable.** `slots` is the array of `Table`; an id's probe order is
`Probe(id, i)`, from `Start` (the hash, any function). `Insert`, `Get`, `GetMut` and
`RemoveId` are the four methods with the answer they give; a call is one step. Insert
reuses the first removed slot it passed only after it has met a vacant one, as the
code does. ObjectMap is the partial map the table stands for.

**FreeList, ByteSpace, Arena.** The free list is a sequence of holes. `Place` is first
fit, `Release` inserts and merges with the later neighbour and then the earlier one,
and is refused when the list has `Holes` extents; `Shrink` is the release of the tail
of a placement, which is how the ladder uses the arena. ByteSpace is a set of free
bytes and a set of held extents.

**Sessions, Manager.** The manager composes table (as the map that ObjectTable is
proved to implement), free list and sessions. It is called, never preempted, so a
call is atomic, but the calls that loop (make_room inside a fault, destroy_session,
destroy_all_sessions) are cut into their iterations by `job`, and the invariants
hold between iterations too. A policy may name any resident object, or none, so what
holds here holds for every policy. `claims` is not in the code: it counts the leases
callers hold, to have something to compare `share_count` with. `env` says which of
the unfriendly things the code allows do happen: failing reads, re-registration,
releases of voided leases, owners that are not sessions; each property says which of
them it survives.

**Ladder.** Extends Manager with `mlos-ladder` and admission in bytes. `Fate` is
`Shape::fate`; `Need` its sum. `walk` is the program counter of `arrive` and
`squeeze`; the calls they make on the manager are the manager's actions, and the
rewrite of one block is one step. Scans meet blocks in hash order, so any order is
allowed; sessions are visited in any order within one rung.

**InputPath.** The handler takes a byte at a time and runs to its end before the loop
goes on, while keys go on arriving; the loop is cut at each access to the queue, at
the flag, and at the sleep. `variant`, chosen at the start, is the aarch64 idle (wfi),
the x86-64 idle (`wait_unless`, a line that interrupts on an edge) or polling. `feed`
edits a bounded line and echoes; `screen` is the row the user sees.

**Workload, Schedule.** Workload has the generators (`Decode` over the synthetic model,
`Real` over a parsed shape), the trace's text as header and rows (`Render`,
`ParseTrace`), and the kernel's cut of a merged trace into lanes (`Build`). Schedule
chooses what sessions declare, a rule and the ceilings admission lets in; the host's
merge serves one access per step, with the lanes' clock, cursors and due times; where
the trace goes on a disk, the kernel parses it, adopts its sessions, cuts it, and its
own loop orders it again, under either rule. `worst` is the longest period so far, as
the code records it.

**Stream, Policy, Simulator, Lab.** Lab extends Manager with what Manager leaves out: the
acquire clock, placed and used ticks, next-use hints from the declared stream, the
event ring, counters and headline, and makes `make_room` ask the chosen policy. Its
actions are the shell's verbs (model, get, release, evict, declare, advance, sweep,
replay); a verb that loops is in `verb` while it runs. Simulator is `mlos-sim` as
operators on a record; Lab steps it beside the replay, with the same order and budget.

**Virtio.** The driver is cut at every access to shared memory: header and descriptors,
ring slot, index, notification, the wait, the status. `memory` is what both sides see.
The device (external) takes a chain it was told of, serves it and returns it, each in
its own step, and may answer an error or leave the status unwritten. Above the
transport: probing the slots, negotiation, queue sizes, opening the terminal, finding
the disk, reading a tile or the trace sector by sector, writing in chunks.

**MemoryMap, DeviceTree, Boot.** A device tree is a sequence of tokens folded by the scan;
the map is a bounded list of regions carved by `Reserve`. Boot has one action per
stage of each kernel: probe, walk or discover, carve, open the console, map, install
vectors, route, arm the timer, start the shell, run the boot script. Keys arrive and
the timer expires at any time; `cpu` says what the interrupt hardware has been told,
and an interrupt is taken when controller, route and mask let it through.

## 3. Runs

| Run | Bounds | What it shows |
|---|---|---|
| `table` | 3 slots, 4 ids, 2 chains that collide and wrap | chains stay uncut, lookups agree with scans, refinement of the map |
| `arena` | 15 bytes, alignment 2, 3 holes, sizes 1, 3, 4 | free and held bytes partition the arena, `used` exact, refinement of the byte space; the capacity is no multiple of the alignment |
| `manager` | 3 objects that do not all fit, 2 sessions with a ceiling of 4, 2 holes, four environments | no overlap, no leak, exact accounts and share counts, ceilings, no orphans, every call returns |
| `manager_read_fails` | `manager` with failing reads | **violated**: bytes stay used with no object in them |
| `ladder` | 5 calls, contexts of 5 and 2 blocks, budgets 30, 9 and 1 with a reserve of 2, 6 holes | plan and table agree unless the arena refused, what fits stays fitting, floors, termination as a last resort, every walk ends |
| `schedule` | 3 sessions; tokens of 4 weights with ceilings 0, 1, 4, 8, 9; shapes with resident and rotating tensors; synthetic traces of 1 to 4 rounds through the disk, 2 or 3 slots, 44 accesses | the period bound for every admitted set of contracts, the barrier between tokens, round robin by tokens, every access served or the trace refused |
| `input` | 3 slots, 5 keys, a line of 2 bytes, each machine | order, the row is the line, no sleep over a queued byte, everything handled in the end; a polling guest runs all before Ctrl-D |
| `input_end` | as `input` | **violated**: on x86-64 a key before Ctrl-D is not run |
| `lab` | 3 tiles, an activation, 2 KV blocks; budgets 9 and 12 units; every policy; every order of up to 6 accesses over three sets of objects; 7 verbs and accesses; a ring of 6 | kernel and simulator agree after every access and in the headline, hints are the next use, ticks are unique, the derived trace is the replay's |
| `lab_scale` | as `lab` | **violated**: next-use evicts a weight wanted sooner than another |
| `virtio` | 2 descriptors, an index modulo 4, sectors of 2, traces of 0 to 4 bytes, seven machines, three device faults | reads exact or refused, output exact, nothing in flight touched, every call returns |
| `boot` | 10 blocks, a map of 6 regions, 152 loader inputs over both kernels, 2 keys | what was found is what was described, the map is true, what runs stays mapped, the shell hears |

The violated runs are listed with what the code and its comments say under
`findings` in `PROJECT.json`. Other disagreements between code and comments met while
modelling; the models follow the code:

* `mlos-objtab/src/table.rs:63`: insert writes to a removed slot only when the probe
  meets a vacant one, so a table out of vacant slots refuses a new id with slots free;
  line 46 says it refuses when full. ObjectMap lets an insert be refused.
* `mlos-arena/src/lib.rs:102`: release refuses at `HOLES` extents even when it would
  merge; line 16 says when it would need one more (`Refuse`).
* `mlos-objman/src/lib.rs:123`: registering a resident id again forgets where it was;
  `AccountExact` and `NothingLeaked` need that callers do not (`env`).
* `mlos-objman/src/lease.rs:63`: releasing a lease an eviction voided lowers the count of
  the next residency; `ShareExact` is then only that the count is not above its holders.
* `mlos-objman/src/evict.rs:78`: an object placed for an owner that is not yet a session is
  credited to whoever takes that id; `AccountExact` needs that owners are sessions.
* `mlos-session/src/budget.rs:41`: the peak is recorded with the charge, so a fault that is
  then refused raises it above what was ever resident.
* `mlos-queue/src/lib.rs:37`: 63 bytes fill the queue of 64; its note says 64.
* `mlos-admit/src/latency.rs:29`: ceilings are measured against weights only; with a cache in
  its tokens a session can pass the bound. `PeriodBounded` says so in its hypothesis; it
  is about parameter-major, the only rule that looks at ceilings.
* `mlos-sched/src/parameter.rs:27`: the tie-break counts who still wants an object, so the last
  of a group can lose to a session that wants another; line 1 says the group is served first.
* `mlos-objman/src/session.rs:39`: a destroy refused by a full free list has already
  destroyed the objects before; line 6 says that nothing is destroyed then.
* `mlos-ladder/src/squeeze.rs:78`: a block whose tail the arena refused keeps its size while
  its session is recorded a rung deeper; `mlos-ladder/src/lib.rs:4` says plan and table cannot
  disagree. `PlanIsTable` leaves such sessions out (`skipped`).
* `mlos-lab/src/replay.rs:59`: a replay resets the stream's cursor and not the acquire
  clock, so in a manager that has acquired before, a hint and the clock it is measured
  against count from different origins; `mlos-objman/src/evict.rs:36` says both are ticks on
  this counter. `NextUseTrue` and `KernelIsSim` speak of a manager nothing was acquired from.
* `mlos-lab/src/replay.rs:57`: a replay that is refused leaves the sessions it adopted.
* `mlos-lab/src/devices.rs:46`: the first block device decides, also when it does not come up;
  the console's search goes on (`mlos-console/src/lib.rs:48`).
* `mlos-machine/src/reserve.rs:36`: a split drops the pieces a full map cannot hold and counts
  none; `mlos-kernel-x86-64/src/machine.rs:3` says a record that does not fit is counted, never
  silently dropped. `MapTrue` lets a full map lose memory, never mislabel it.
* `mlos-kernel-x86-64/src/machine.rs:89`: an extent across two Usable records is not carved and
  stays Usable; with a command line at address 0, the byte at 0 is carved for it.
* `mlos-machine/src/scan.rs:65`: the interrupt may come from a second `pl011` node when the
  first has none, while the base is the first's.
* `mlos-workload/src/tokens.rs`: with fewer rounds than sessions, session zero generates
  nothing and the resident streams, "read once for everyone", are never read.
* `mlos-lab/src/lanes.rs:130`: tokens are found by the synthetic model's first tile, so a trace
  of a real shape would be one token; only synthetic traces are put on disks.
* `mlos-sched/src/merge.rs:43`: "every access exactly once" needs that no token is empty before
  the last; lanes made by hand, or a shape in which nothing rotates under parameter-major,
  stop early.
* `mlos-ladder/src/walk.rs:73`: under a budget below the reserve the room is zero, a
  demand of zero fits it, and the walk answers Fits, never Exhausted; line 26 says Exhausted is for that case.

Why the bounds are enough to mean something. Three slots and two start positions are
the least where two chains share slots, one wraps, and a tombstone lies between a
start and its entry. The arenas are sized so that not everything fits, holes appear
between placements, and the list reaches its limit: two holes are enough for a merge
on both sides and a refusal. The ladder's five-block context is the shortest with a
summarised span, a candidate to drop and a hot block; five calls are the shortest
history in which two live sessions are on different rungs when a squeeze begins.
Its block of four bytes halves twice without a remainder, as the kernel's 256-byte
block does at an alignment of 64. Three slots and five keys let the ring wrap, fill
and drop, and a line fill and be erased past its start. Three sessions are the least
where one waits behind two others; four rounds make a trace longer than the room for
it, three sessions and two slots one that cannot be enrolled. In `lab` sizes and costs
keep the ratios of `mlos-synth`, so a tile, an activation and a KV block evict one
another and the quotient of next-use truncates as it does in the kernel; the ring is
as long as the longest trace, so that shorter ones drop nothing and evictions make it
overflow. Ring indices modulo 4 wrap within one read of the trace. The maps at boot
overflow with four ranges of memory and do not with one. The bounds that are not in
the code are `MaxClaims`, `MaxCalls`, `MaxTyped`, `MaxKeys`, and the sets of inputs;
the others are the code's constants made small.

Fairness. `Manager`: weak fairness of the call in progress; a call runs on the only
core and nothing waits in it. `InputPath`: weak fairness of the loop and of the
handler once it runs, and strong fairness of the console's interrupt: it stays pending
while masked and is taken once it is not; on aarch64 also of the timer, which its
handler rearms. `Schedule`: weak fairness of the loop. `Virtio`: weak fairness of the
driver, and of a device that was told of a chain; whether it succeeds is open. `Boot`:
weak fairness of the boot path, of the timer's expiry and of an interrupt that stays
deliverable. Ladder and Lab state safety only: `WalkEnds` bounds a counter of moves,
which with nothing else enabled during a walk is that it ends. No user is assumed to
type, call or end anything. Deadlock is checked except where the system really stops:
x86-64 and polled guests end on Ctrl-D, a schedule ends with its streams, a boot that
fails is parked, and the bounds on verbs and keys end the others. MC runs use no
symmetry: liveness is checked in most of them, and ids are ordered in the others.

## 4. Proofs

All from the named assumptions in the modules. Sizes and limits are positive
(`SlotsAssumption`, `CapacityAssumption`, `HolesAssumption`, `AlignAssumption`, `SizesAssumption`), the
hash stays in the table (`StartAssumption`), no metadata is the mark for none
(`NoneAssumption`). The proofs about the larger modules made explicit what the code
relies on without saying: objects are finitely many and not empty, and leases on one
object fewer than `share_count` can count (`ManagerAssumption`, `TemplatesAssumption`);
a KV block's id names its session, it is written at full precision, and a token's bytes
are its layer's (`LadderAssumption`); the bytes the line editor tells apart differ
(`InputAssumption`); the index wraps at a multiple of the ring's size and past it
(`VirtioAssumption`); a lane is a list of tokens, a token a list of accesses, and lists are functions, compared
by their elements (`ScheduleAssumption`); what the loader leaves has its type, and the kernel's image is not
empty (`InputsAssumption`).

**TableArenaProofs**, the table. `TableSafe`: slots are typed, no id has two live entries
(`OneEntry`) and between a live entry's start and its slot no slot is vacant
(`ChainUncut`). The conjunction is inductive; `OneEntry` alone is not, since an
insert proves an id absent by walking to a vacant slot, which means absent only if
chains are uncut (`AbsentIsNowhere`). Every operation writes at most one slot, and
`WriteKeeps` says when a write preserves all three. `LookupsAgree`: the walk finds
what a scan finds. `TableImplementsMap`: the refinement, with the map read off by the
scan; probe positions are a permutation of the slots (`ProbeInjective`,
`ProbeOnto`), which is where the arithmetic of the wrap is.

**FreeListProofs, TableArenaProofs**, the arena. `TakeKeeps` and `GiveKeeps` say that taking from a
hole and giving back a run keep the list ordered with no two holes touching, and
that the bytes covered change by exactly that run; merging is `SwallowKeeps` and
`MergeKeeps`, for the new hole alone touching its neighbours. `ArenaSafe` is the
invariant `TypeOK /\ Coalesced /\ Partition /\ HeldApart /\ Accounted`, inductive as
a whole: a release is safe only because the extent it names is held and so disjoint
from every hole (`Partition`), and `used` is a cardinality (`TakenCount`,
`GivenCount`). `ArenaImplementsSpace`: first fit over the list is a placement in a
set of bytes; the hard half is that a placement is refused only when no aligned run
of free bytes is long enough, which needs that a run of free bytes lies in one hole
(`RunInOneHole`), true only of a coalesced list.

**ManagerProofs.** One invariant, `IInv`, holds between any two iterations of any call
and for every policy: the arena's list and where residents lie in it (`Space`), the
table, the accounts and the leases, the call in progress (`Working`), and owners
(`NoOrphans`). `ResidentApart` is not inductive without the list: a fault is apart from
the others only because what `Place` returns was free and residents lie outside the
free bytes. Leases need the bound on a fault whose lease is granted but not yet
counted. `AccountsExact` is a second induction over the first: an account is a sum
over the objects a session owns, so each step is "the set is the same", "one left" or
"one joined" (`SumsSame`, `SumsWithout`, `SumsWith`). The sum of the community
modules is a recursion over subsets; that it is well defined and what it does when an
element leaves is proved by taking the least number of elements at which it fails
(`SizeSum` and the lemmas after it).

**LadderProofs.** `LInv` is about the walk alone and needs nothing of the arena: blocks
belong to the live session they name (`Blocked`), where `arrive` or `squeeze` can be
(`Walking`), which manager call each may have in progress (`Calling`), and the moves left
(`Counting`: one for each rung still to go and for each id still holding a context,
which bounds `squeeze` since the highest id goes first). `FloorsHold` rests on
`FateFine`, that no rung stores a block coarser than the quality it promises, and on
the walk refusing a rung beyond a floor; `TerminationIsLast` on the scans going by rung,
so that none could be moved when the last one found nothing (`NoneAbove`).
`PlanHolds` adds `PInv`: every block of a session no rewrite of which was refused is at
the fate of its session's rung, or of the rung the walk is taking it to once its scan has
passed it. That the sum over the blocks in the table is then within the sum over the
shape's is `SumReindexed`: numbers taken one-to-one into numbers at least as large have
at most their sum.

`LadderKeepsManager`: a walk that rewrites resident objects in place, under the manager,
keeps all that the manager promises. It is stated under `WholeBlocks`: some token is hot,
and a full block is four times a multiple of the alignment, so that what a rung stores of
it is whole (`WholeSizes`). Without it a block can shrink within its rounded size, and
`rewrite`, which credits only when the rounded sizes differ, leaves the account above
what the table says. The kernel's lab (one hot block, one token of 256 bytes a block,
64-byte alignment) and the run here satisfy it. `SInv` says what size each block has;
`ShrinkSpace` that the tail given back leaves the bytes before it held.
`LadderKeepsAccounts` is the same for the accounts: a rewrite of a resident takes the same
bytes from the table, the arena and the account of its session, and a dropped block
leaves all three.

`FitsHold` joins the two. `FInv`: once a squeeze has ended in a fit, the sum of what live
sessions need at their rungs (`Demand`) is within the room, and stays so. A session is
admitted only when what all were promised leaves room for it, and no rung needs more than
the context's bytes (`NeedWithin`), so the demand with the newcomer is within the room as
well (`DemandArrives`); a session leaving only lowers it (`DemandFalls`). Then a session's
residents, with the fault in progress, are within what its blocks are entered with
(`ResidentHeld`, from the accounts), that within its need (`PlanHolds`), and the sum of
needs within the room. Only the accounts need `WholeBlocks`.

**DeviceProofs**, the input path. `Ordered` says where each accepted byte is: run, in the loop's hand,
or in the ring at a slot counted from the tail. It is `InOrder` byte by byte, with the
wrap done once (`Wraps`) and not by remainders. `Popping` is the protocol of the ring, that
the handler never writes the slot being read; `Interrupted` and `Noticed` are the race
`wait_unless` is for: between the last look and the halt, a byte in the queue has left
`PENDING` set.

**DeviceProofs**, the drivers. The two agents meet in `Chained`: a port's indices, the driver's and the
device's, are at rest or in one of the four positions of a single chain on its way.
`ReadsExact` follows by `Request`, what a read has out and what the status means once
the device has served it, and `Reading`, which bytes have been copied so far.
`ChainsUntouched` is an action property, from the same invariant: no step of either
driver writes the chain, header or data of a port whose chain has not returned.

`OutputHolds`: what is on the screen, with the chunk staged and not yet shown (`Output`), is
always what the call has handed over (`Written`). `ShownAt` is where a byte is shown, behind a
carriage return for each newline up to it, and `ChunkShown` that the next chunk goes where
what was handed over ends, whichever of a raw chunk, a byte or a carriage return it is.

**LabProofs.** `LabTyped` carries the rest: an eviction's `Named` is a resident object or
none under every policy (`VictimIn`), the fault in progress is about the access the replay
is at, and the cursor, the chain and `verb` agree (`Replays`). `TiesNeverDecide` needs
that no tick lies ahead: an access moves the clock before it writes a hint, and a fault
writes the tick of its own miss (`Ticked`). `HintsTellTheOrder` is three inductions. The
chain is right by the least position at which it fails (`ChainValue`: the list of what was
seen has each object once, at its nearest use after). A manager whose clock is zero has
nothing resident, no events and one hole (`Quiet`), which is what makes a replay on it
comparable; from then on the clock is the number of accesses begun (`Steady`), with no
refusal that leaves it behind because the table has room (`RoomForAll`). And an access of
one object leaves where every other is wanted next alone (`WantOther`). `TraceIsTheOrdersEnd`
is by what one more record does to the acquires of a ring, full or not: it adds the
access, and drops the oldest if that was one (`TellsMore`).

`ReplayIsSimulated` compares two programs: the kernel evicts in steps, each with a look
into its table, the simulator in a loop of its own over a vector that `swap_remove` reorders.
`Lists` forgets that order: a vector holds each entry of a view once. A simulation
`Simulates` a view, a free list, a cursor and counts; `Touched`, `ThrownOut`, `Inserted` and
`NotInserted` say what each of its operations makes of them. `InStep` is the invariant:
between two accesses the simulation mirrors the kernel (`Mirrors`); while a fault makes
room, the kernel stands where some turn k of the loop does (`Making[k]`), with k fewer
objects than the simulation began with; and when it places, where the whole loop ends.
Both policies see the same (`ViewIsHeld`), so each eviction is the next turn (`TurnIs`).
The kernel stops where the next turn would do nothing, and from there no later turn does
anything (`TurnsStay`), so the loop's bound by the number of objects loses nothing. The
tick and the next use are equal by `Steady` and the chain, and at the end the KV bytes and
sessions are, so the headlines are.

These take orders, budgets and templates as `LabAssumption` has them, and reads that
succeed, as the simulator does.

**ScheduleProofs.** `TokensOnTime` needs an argument and not only a case analysis. An
overdue session waits one access at a time for accesses of the others. `Debt` bounds
those by a set D of pairs (session, number in its token), at most `capacity` for each
other promised session, which is within the ceiling by the room admission left (`Room`).
Of each other session the accesses in D are of the token it is on, or of one it has
finished since; then it is not served again while the first one waits, because what it
has itself waited is accesses in D and of the first one's token, and those are fewer
than its ceiling. `LockstepHolds` is the barrier, over any lanes, the kernel's cut
included (`BuildLaned`).

`OrderIsRounds` is the order of rounds over whatever lanes the scheduler has, the kernel's
cut included, and `OrderAsGenerated` is `RoundByRound`, that those lanes are the declared
ones: always on the host, and after the cut wherever the cut can find the tokens
(`Generated`). A token begins with the first tile of the first layer and reads it nowhere
else, which `DecodeIsCut` shows of every lane the Decode workload generates; a stream that
was declared otherwise is cut otherwise, and `RoundByRound` is not claimed of it.
The order is `FlattenSeq` of a sequence of rounds, each `FlattenSeq` of a piece for each
session; `Placed` says where every piece lies in it (`FlattenLaid`, by the least length at
which it fails), and `Here` where the schedule stands: at the current session's piece, as
many accesses in as its index. A step inside a token moves `Here` by one. A step to
another session moves it only over pieces that are empty (`LevelPlaces`), which is what
`InRound` below is needed for: the sessions passed over have no token left.

`EveryAccessOnce` and the kernel's half of `OrderAsGenerated` are one induction through all
stages (`CInv`). `Follows` says by positions that the accesses of one session in a trace
are the first so many of its lane laid end to end, `CaughtUp` that they are as many as the
scheduler has served; every served access adds one (`CaughtTurn`). So the trace on the disk
holds each lane whole, and `FillFinds` that the cut gives back the lane it came from: which
accesses begin a token, how many begin up to each, and so which are the token's. A replay
ends with all of what it was given because a trace that follows no less of each session
than another is at least as long (`LongerTrace`, by an injection of positions).

Of ProcessMajor three more properties are proved that no run checks. `TokensStayInTurn`: in
round r every session before the current one has reached token r + 1 or its end, every
one after it is at r or its end (`InRound`), so no session is a token ahead of another
unless its turn came first. `OneIsNamed`: both rules break every tie and name a session
while one has a token left. `LoopFinishes`: so the loop stops only when every lane is
served, or before a token that was declared without an access.

**BootProofs.** `InterruptsComeUp` is by what each stage has set up when the next begins
(`ArmUp`, `X86Up`): on aarch64 everything is routed before the one unmask, on x86-64 a
COM1 that is heard has its edge raised by every byte that waits.

`LoaderMapTrue` is `MapTrue` of x86-64, under `LoaderApart`: the records describe no byte
twice and neither the kernel nor anything the loader left lies on another. Records that
overlap overlap in the map too, and of two occupants that do the second is not carved; no
sane loader does either, and every x86-64 input of the run is apart. After c occupants every region of the map lies in one record
(`WithinRecord`) and has, byte for byte, the kind of the occupant that took it, and while
it is usable its ends are the record's or an occupant's. The last is what makes the
refusal true: an occupant that is not `Free` in the map is cut by an end, and since
occupants are apart that end is the record's, so it was never in one usable record
(`NotCarved`). `Reserved` is one `Reserve` over a map; it rests on what `FlattenSeq` does
with the one to three parts of each region, which is a fold in the community modules, and
proved by the least length at which it fails (`Flattened`).

`TreeMapTrue` is `MapTrue` of aarch64 and `MemoryStaysMapped` is `StaysMapped`, for every
tree that is a `Document`: nodes close only after they open, the one root is nameless, a
node's properties come before its children and each once, numbers are cells, and nothing
follows the end. The scan has one token at a time and remembers one node, the map is
stated of the tree; between them stands `Reading`, true after any number of tokens. In it
the scan's depth is the tree's, its node is the last that opened, its cell counts are what
the root has said so far (`Counted`), and its regions are the ranges of the `reg`s of
memory nodes among those tokens, in a list that lacks one only if it is full (`MemRead`).
That the node last opened is the one that holds a property is `Holder`: nothing opens or
closes between them, so a count that is asked for at a child of the root was settled
before it (`SaidBefore`). A fold over a sequence is reasoned about through a function that
exists for every step function (`FoldExists`), since no induction theorem with an operator
can be used. `TreeApart` adds that no two ranges share a byte, `TreeFits` that no range is
empty and all lie within the blocks there are: an empty range inside a block maps it, and
memory beyond the tables stays unmapped, as in the code. Every tree of the run satisfies
both.

`BootFinds` is `Discovered` of both kernels, under `LoaderPlain`. On aarch64 it goes by
what the scan has of the devices after any number of tokens (`DevicesRead`): the first
console with a range, the lowest slot, how many slots and processors, and of the one
controller its two ranges and whether a `compatible` has named it v3, in either order; at
the end of the tree these are the definitions over nodes that `Discovered` is stated with
(`UartIs`, `SlotIs`, `CountsRead`, `GicIs`). `LoaderPlain` asks for one controller, since
two write the same fields (section 5), for slots with different bases, and that the lowest
base, a size and the count fit the 40, 16 and 8 bits they are packed into (`Unpacked`). On
x86-64 the slots are a fold over the words (`SlotTo` at every place), and cutting the line
at the first appended entry leaves the user's words (`RestOfUser`) provided the loader
appends only entries and the user writes none after the script begins. `ShellInv` is the
rest: the slots are told before the script starts, and the verbs that ran are its first.
Every input of the run satisfies `LoaderPlain`.

Only model-checked is liveness: `CallsReturn`, `AllRun`, `CallsEnd` and `Listens`, and of
`AllServed` that a schedule ends.


## 5. Not modelled

Wording, formatting and reports; layout documents and ELF headers (no state outlives a
call); the decoding of bytes into device-tree tokens, numbers and fields (each reader
is bounds-checked, and a failure is one bad token); register values, clock
calibration and trap reports of the platform; the build tool, but for the disk it
writes. Within modelled parts: the bytes of an object (a disk's bytes are units, DRAM's
copies are left out), the bytes a squeeze reads to degrade, reads through a lease, the
sizes of a real model's tensors, and the console FIFO's own limit. Memory is
sequentially consistent: one core runs the kernel, and the fences of the virtio driver
are the order of its steps. `PROJECT.json` has the reason for each component.

Hazards seen and not covered, beside the divergences above: `share_count` saturates at
65,535 leases (`mlos-objman/src/lib.rs:111`); a pin does not keep an object where it is, so
bytes read through an old lease may be another's (`lease.rs:48`); lowest priority is the
highest id, and ids are reused (`mlos-ladder/src/walk.rs:44`); two `intc` nodes write the
same fields (`mlos-machine/src/scan.rs:72`); two cell counts are added in 32 bits before
either is checked (`mlos-fdt/src/reg.rs:27`); the acquire clock saturates at 2^32 - 1
(`mlos-objman/src/lib.rs:102`), after which ticks are no longer unique, and the model's clock
does not: `TicksUnique` is about the acquires before. Nor does any property watch the four
divergences above at `parameter.rs:27`, `latency.rs:29`, `squeeze.rs:78` (but for `WalkEnds`) and
`replay.rs:59`: what one would say there is not true of the code.

## 6. Plan

Modelled: everything the earlier plan named, in the order of section 2. Proved: every
safety and action property that a passing run checks. Of the liveness properties, which
are beyond the prover, the runs are the evidence. Nothing of the plan is left.
