------------------------------- MODULE MCBoot -------------------------------
(***************************************************************************)
(* Eighty bytes of memory in ten blocks, and a map of six regions, which    *)
(* four memory ranges with the kernel and the tree inside overflow.        *)
(* The trees differ in how many cells a reg has, in memory, consoles,      *)
(* slots, controller and the order of a node's properties; the PVH guests  *)
(* in their records, where the loader's structures lie, the command line   *)
(* and the LAPIC.                                                          *)
(***************************************************************************)
EXTENDS Boot

Node(name) == [t |-> "node", name |-> name]
End  == [t |-> "end"]
Nop  == [t |-> "nop"]
Stop == [t |-> "stop"]
Bad  == [t |-> "bad"]
P(name, value) == [t |-> "prop", name |-> name, value |-> value]

\* A number in c cells, and a reg of ranges in a and s cells.
InCells(n, c) == [i \in 1 .. c |-> IF i = c THEN n % CellBase ELSE IF i = c - 1 THEN n \div CellBase ELSE 0]
RegOf(ranges, a, s) == FlattenSeq([i \in DOMAIN ranges |-> InCells(ranges[i][1], a) \o InCells(ranges[i][2], s)])

\* The root's cell counts, which may go unsaid.
RootProps(a, s) ==
  IF <<a, s>> = <<2, 1>> THEN <<>> ELSE <<P("#size-cells", <<s>>), Nop, P("#address-cells", <<a>>)>>

Device(name, ranges, a, s, props) == <<Node(name), P("reg", RegOf(ranges, a, s))>> \o props \o <<End>>

Irq(n) == P("interrupts", <<0, n, 4>>)
V3 == P("compatible", {"arm,gic-v3"})
V2 == P("compatible", {"arm,gic-400"})

Memories == {<< <<8, 30>> >>, << <<4, 2>>, <<8, 12>>, <<20, 20>>, <<60, 4>> >>, << <<12, 28>> >>, << <<8, 8>>, <<66, 6>> >>}
Uarts == {<<>>, <<1>>, <<3, 1>>}
Gics == {<<"v3", "first">>, <<"v3", "last">>, <<"v3", "half">>, <<"v2", "last">>}
Layouts == {<<2, 1>>, <<1, 2>>, <<3, 1>>}
Chosen == {<<>>, <<Verb("console=hvc"), Run, Verb("a"), Verb(""), Verb("b")>>, <<[text |-> "junk"]>>}

Controller(g, a, s) ==
  LET ranges == IF g[2] = "half" THEN << <<4, 1>> >> ELSE << <<4, 1>>, <<5, 1>> >>
      names  == IF g[1] = "v3" THEN V3 ELSE V2
  IN  IF g[2] = "first" THEN <<Node("intc"), names, P("reg", RegOf(ranges, a, s)), End>>
      ELSE Device("intc", ranges, a, s, <<names>>)

\* A tree whose devices come in the order given.
Tree(m, u, g, l, windows, args, ends) ==
  LET a == l[1] s == l[2]
  IN  <<Node("")>> \o RootProps(a, s)
        \o Device("memory", SubSeq(m, 1, 1), a, s, <<>>)
        \o FlattenSeq([i \in DOMAIN windows |-> Device("virtio_mmio", << <<windows[i], 1>> >>, a, s, <<>>)])
        \o FlattenSeq([i \in DOMAIN u |-> Device("pl011", << <<u[i], 1>> >>, a, s, <<Irq(i)>>)])
        \o <<Node("cpus"), Node("cpu"), P("reg", <<0>>), End, Node("cpu"), P("reg", <<1>>), End, End>>
        \o Controller(g, a, s)
        \o FlattenSeq([i \in DOMAIN Tail(m) |-> Device("memory", SubSeq(m, i + 1, i + 1), a, s, <<>>)])
        \o (IF args = <<>> THEN <<>> ELSE <<Node("chosen"), P("bootargs", args), End>>)
        \o <<End>> \o ends

ArmInput(tree, header, virtioConsole) ==
  [arch |-> "aarch64", header |-> header, tree |-> tree, base |-> 13, size |-> 2,
   virtioConsole |-> virtioConsole, irq |-> 33, user |-> <<>>, appended |-> <<>>, lapic |-> FALSE]

ArmInputs ==
  {ArmInput(Tree(m, <<3, 1>>, g, l, <<7, 6>>, <<>>, <<Stop>>), TRUE, FALSE) :
     m \in Memories, g \in Gics, l \in Layouts}
  \cup {ArmInput(Tree(<< <<8, 30>> >>, u, <<"v3", "last">>, <<2, 1>>, w, args, <<Stop>>), TRUE, v) :
          u \in Uarts, w \in {<<>>, <<6, 7>>}, args \in Chosen, v \in BOOLEAN}
  \cup {ArmInput(Tree(<< <<8, 30>> >>, <<1>>, <<"v3", "last">>, <<2, 1>>, <<>>, <<>>, ends), h, FALSE) :
          ends \in {<<Stop>>, <<Bad>>, <<>>}, h \in BOOLEAN}

\* e820 records, and where the loader puts its structures.
Records == {<< <<0, 20, 1>>, <<20, 4, 2>>, <<24, 0, 1>>, <<24, 14, 1>> >>,
            << <<0, 10, 1>>, <<10, 4, 3>>, <<14, 2, 7>>, <<16, 20, 1>> >>,
            << <<0, 4, 1>>, <<4, 4, 2>>, <<8, 12, 1>>, <<20, 2, 2>>, <<22, 2, 3>>, <<24, 2, 7>>, <<26, 8, 1>> >>}
Places == {<<32, 24, 34>>, <<8, 1, 21>>, <<20, 9, 0>>, <<39, 25, 35>>, <<23, 25, 34>>}
Entry(base, size) == [base |-> base, size |-> size]
Lines == {<<>>, <<Verb("x")>>, <<Run, Verb("a")>>, <<Entry(9, 2), Run, Verb("a"), Verb("")>>}
Appended == {<<>>, <<Entry(7, 3), Entry(5, 2)>>, <<Verb("virtio_mmio.device=?"), Entry(6, 3)>>}

PvhInput(v, p, r, line, more, l) ==
  [arch |-> "x86_64", valid |-> v, start |-> p[1], memmap |-> p[2], cmdline |-> p[3],
   records |-> r, user |-> line, appended |-> more, lapic |-> l]

PvhInputs ==
  {PvhInput(TRUE, p, r, <<Run, Verb("a")>>, <<>>, TRUE) : p \in Places, r \in Records}
  \cup {PvhInput(v, <<30, 24, 33>>, << <<0, 38, 1>> >>, line, more, l) :
          v \in BOOLEAN, line \in Lines, more \in Appended, l \in BOOLEAN}

MCInputs == ArmInputs \cup PvhInputs
MCImage == <<16, 4>>
=============================================================================
