----------------------------- MODULE DeviceTree -----------------------------
(***************************************************************************)
(* Reading a flattened device tree: the walk reports tokens in document    *)
(* order, and a scan folds each into what boot wants to know.              *)
(*                                                                         *)
(* A tree is a sequence of tokens.  A node's name is the prefix the scan   *)
(* looks for; a reg, a cell count and an interrupts value are sequences of *)
(* cells, a compatible value is the set of names in it, and bootargs is a  *)
(* sequence of words.  An option is a sequence of at most one element.     *)
(* Every reader of mlos-fdt is bounds-checked, and each way for it to fail *)
(* is the one token "bad".                                                 *)
(***************************************************************************)
EXTENDS MemoryMap

CONSTANT CellBase       \* one more than the greatest cell

ASSUME CellAssumption == CellBase \in Nat \ {0, 1}

None == <<>>

\* cells: refuses no cells, more than two, and a value too short.
Cells(value, at, count) ==
  IF count \notin {1, 2} \/ at + count > Len(value) THEN None
  ELSE <<FoldLeft(LAMBDA acc, c : acc * CellBase + c, 0, SubSeq(value, at + 1, at + count))>>

\* reg_pair
RegPair(value, address_cells, size_cells, index) ==
  LET base    == index * (address_cells + size_cells)
      address == Cells(value, base, address_cells)
      size    == Cells(value, base + address_cells, size_cells)
  IN  IF None \in {address, size} THEN None ELSE <<<<address[1], size[1]>>>>

\* The pairs of a reg, up to the first that cannot be read.
RegPairs(value, address_cells, size_cells) ==
  LET pair(index) == RegPair(value, address_cells, size_cells, index)
      count == Min({i \in 0 .. Len(value) : pair(i) = None})
  IN  [i \in 1 .. count |-> pair(i - 1)[1]]

\* string: the text, if it is UTF-8.
String(value) == IF [text |-> "junk"] \in ToSet(value) THEN None ELSE <<value>>

-----------------------------------------------------------------------------
(* The scan. *)

ScanDefault ==
  [depth |-> 0, node |-> "", address_cells |-> 2, size_cells |-> 1,
   regions |-> <<>>, cpu_count |-> 0, uart_base |-> None, uart_irq |-> None,
   virtio |-> None, virtio_count |-> 0, bootargs |-> None,
   gic_v3 |-> FALSE, gic_reg |-> None]

\* Mutant: the ranges count only if the controller is known to be a v3 by then.
ControllerRegOrdered(scan, value) ==
  LET pair(index) == RegPair(value, scan.address_cells, scan.size_cells, index)
  IN  IF ~scan.gic_v3 \/ None \in {pair(0), pair(1)} THEN scan
      ELSE [scan EXCEPT !.gic_reg = <<<<pair(0)[1][1], pair(1)[1][1]>>>>]

\* The interrupt controller's reg: both ranges or neither.
ControllerReg(scan, value) ==
  LET pair(index) == RegPair(value, scan.address_cells, scan.size_cells, index)
  IN  IF None \in {pair(0), pair(1)} THEN scan
      ELSE [scan EXCEPT !.gic_reg = <<<<pair(0)[1][1], pair(1)[1][1]>>>>]

\* Scan::reg
Reg(scan, value) ==
  LET pair(index) == RegPair(value, scan.address_cells, scan.size_cells, index)
  IN  CASE scan.node = "memory" ->
             [scan EXCEPT !.regions =
                ExtendUsable(@, RegPairs(value, scan.address_cells, scan.size_cells))]
        [] scan.node = "pl011" /\ scan.uart_base = None ->
             [scan EXCEPT !.uart_base = IF pair(0) = None THEN None ELSE <<pair(0)[1][1]>>]
        [] scan.node = "virtio_mmio" ->
             [scan EXCEPT !.virtio_count = @ + 1,
                          !.virtio = IF pair(0) # None /\ (@ = None \/ pair(0)[1][1] < @[1][1])
                                     THEN pair(0) ELSE @]
        [] scan.node = "intc" -> ControllerReg(scan, value)
        [] OTHER -> scan

\* Scan::prop.  Interrupt kind 0 is a shared one, numbered from 32.
Prop(scan, name, value) ==
  LET first == Cells(value, 0, 1)
      OrTwo(cell) == IF cell = None THEN 2 ELSE cell[1]
  IN  CASE scan.depth = 1 /\ name = "#address-cells" -> [scan EXCEPT !.address_cells = OrTwo(first)]
        [] scan.depth = 1 /\ name = "#size-cells"    -> [scan EXCEPT !.size_cells = OrTwo(first)]
        [] scan.depth = 2 /\ name = "reg"            -> Reg(scan, value)
        [] scan.depth = 2 /\ name = "bootargs" /\ scan.node = "chosen" ->
             [scan EXCEPT !.bootargs = String(value)]
        [] scan.depth = 2 /\ name = "interrupts" /\ scan.node = "pl011" /\ scan.uart_irq = None ->
             [scan EXCEPT !.uart_irq = IF first = <<0>> /\ Len(value) > 1 THEN <<value[2] + 32>> ELSE None]
        [] scan.depth = 2 /\ name = "compatible" /\ scan.node = "intc" ->
             [scan EXCEPT !.gic_v3 = "arm,gic-v3" \in value]
        [] OTHER -> scan

\* Scan::event
Event(scan, token) ==
  CASE token.t = "node" ->
         [scan EXCEPT !.depth = @ + 1, !.node = token.name,
                      !.cpu_count = IF scan.depth = 2 /\ token.name = "cpu" THEN @ + 1 ELSE @]
    [] token.t = "end"  -> [scan EXCEPT !.depth = Max({@ - 1, 0})]
    [] token.t = "prop" -> Prop(scan, token.name, token.value)
    [] token.t = "nop"  -> scan

-----------------------------------------------------------------------------
(* What the tree says, read as a tree: by the node that holds a property,  *)
(* whatever the order of the properties in it.                             *)

Count(tree, i, t) == Cardinality({j \in 1 .. i : tree[j].t = t})

DepthAt(tree, i) == Count(tree, i, "node") - Count(tree, i, "end")

\* The nodes of a name at a depth, by where they open.
Nodes(tree, depth, name) ==
  {i \in DOMAIN tree : tree[i].t = "node" /\ tree[i].name = name /\ DepthAt(tree, i) = depth}

\* The values of a property of the node that opens at n.
Values(tree, n, name) ==
  {tree[i].value : i \in {p \in n + 1 .. Len(tree) :
     /\ tree[p].t = "prop" /\ tree[p].name = name
     /\ DepthAt(tree, p) = DepthAt(tree, n)
     /\ \A j \in n + 1 .. p : DepthAt(tree, j) >= DepthAt(tree, n)}}

CellCount(tree, name, default) ==
  LET said == UNION {Values(tree, n, name) : n \in Nodes(tree, 1, "")}
  IN  IF said = {} THEN default ELSE (CHOOSE value \in said : TRUE)[1]

\* The ranges of a node's reg.
RangesOf(tree, n) ==
  LET pairs(value) == RegPairs(value, CellCount(tree, "#address-cells", 2),
                               CellCount(tree, "#size-cells", 1))
  IN  UNION {{<<i, pairs(value)[i]>> : i \in DOMAIN pairs(value)} : value \in Values(tree, n, "reg")}

\* The first range of each of these nodes that has one.
Windows(tree, nodes) == {n \in nodes : \E r \in RangesOf(tree, n) : r[1] = 1}

Window(tree, n) == (CHOOSE r \in RangesOf(tree, n) : r[1] = 1)[2]

\* The tree's console, slots, controller and processors.
UartOf(tree) ==
  LET uarts == Windows(tree, Nodes(tree, 2, "pl011"))
  IN  IF uarts = {} THEN None ELSE <<Window(tree, Min(uarts))[1]>>

SlotOf(tree) ==
  LET windows == {Window(tree, n) : n \in Windows(tree, Nodes(tree, 2, "virtio_mmio"))}
  IN  IF windows = {} THEN None
      ELSE <<CHOOSE w \in windows : \A v \in windows : w[1] <= v[1]>>

GicOf(tree) ==
  LET v3 == {n \in Nodes(tree, 2, "intc") :
               /\ \E names \in Values(tree, n, "compatible") : "arm,gic-v3" \in names
               /\ \E r \in RangesOf(tree, n) : r[1] = 2}
      base(n, i) == (CHOOSE r \in RangesOf(tree, n) : r[1] = i)[2][1]
  IN  IF v3 = {} THEN None ELSE LET n == Min(v3) IN <<<<base(n, 1), base(n, 2)>>>>

MemoryOf(tree) ==
  UNION {Extent(r[2][1], r[2][2]) : r \in UNION {RangesOf(tree, n) : n \in Nodes(tree, 2, "memory")}}
=============================================================================
