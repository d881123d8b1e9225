------------------------------ MODULE MCVirtio ------------------------------
(***************************************************************************)
(* Two tiles of two sectors, a trace of up to four bytes behind them, and  *)
(* rings whose index wraps after four requests.                            *)
(***************************************************************************)
EXTENDS Virtio, TLC

Slot(id, accepts, max) == [magic |-> TRUE, version |-> 2, id |-> id, accepts |-> accepts, max |-> max]
Empty == Slot(0, TRUE, 8)
Legacy == [Slot(2, TRUE, 8) EXCEPT !.version = 1]
Block == Slot(2, TRUE, 8)
Console == Slot(3, TRUE, 8)
Refusing == Slot(3, FALSE, 8)
Short == Slot(3, TRUE, 1)
ShortBlock == Slot(2, TRUE, 1)

Machine(slots, uart, hvc, length) == [slots |-> slots, uart |-> uart, hvc |-> hvc, length |-> length]
MCMachines ==
  {Machine(<<Empty, Block>>, TRUE, FALSE, length) : length \in {0, 3, 4}}
    \cup {Machine(<<Block, Console>>, TRUE, TRUE, 2),
          Machine(<<Legacy, Refusing, Short, Console>>, FALSE, FALSE, 3),
          Machine(<<Refusing, ShortBlock, Block>>, TRUE, TRUE, 3),
          Machine(<<Refusing>>, FALSE, TRUE, 3)}
MCTexts == {<<"a", "b", "c">>, <<"a", "LF", "b">>, <<"LF">>, <<>>}
MCFaults == {"error", "unsupported", "silent"}
=============================================================================
