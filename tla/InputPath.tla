----------------------------- MODULE InputPath -----------------------------
(***************************************************************************)
(* The way of a keystroke: the console's interrupt handler moves bytes     *)
(* into mlos-queue, a byte at a time, and the shell's loop takes them out, *)
(* edits a line with them, runs it, and idles.  The handler runs to its    *)
(* end on the loop's own core, between any two of the loop's steps, unless *)
(* interrupts are masked; keys go on arriving while it runs.               *)
(*                                                                         *)
(* variant says how the loop idles:                                        *)
(*   "aarch64"  wfi; the generic timer interrupts too;                     *)
(*   "x86_64"   wait_unless(PENDING), and Ctrl-D ends the guest;           *)
(*   "polled"   x86_64 with no LAPIC: idle reads the console itself.       *)
(*                                                                         *)
(* A byte is what the shell makes of it, so keys are model values; End is  *)
(* Ctrl-D.  The console's own FIFO loses nothing here.                     *)
(***************************************************************************)
EXTENDS Integers, Sequences, SequencesExt

CONSTANTS Keys,         \* the bytes typed
          Enter, Back, End,  \* return, backspace and Ctrl-D, keys too
          Prompt,       \* what the shell writes before a line
          Slots,        \* CAPACITY of the queue
          LineCap,      \* CAPACITY of a line
          MaxTyped      \* bound: how many keys are typed

ASSUME InputAssumption ==
  /\ Slots \in Nat \ {0, 1} /\ LineCap \in Nat /\ MaxTyped \in Nat
  /\ {Enter, Back, End} \subseteq Keys /\ Enter # Back /\ Enter # End /\ Back # End
  /\ Prompt \notin Keys

VARIABLES variant,      \* which kernel this is
          typed,        \* every key typed
          uart, raised, \* the bytes the console holds, and is its interrupt latched?
          reading,      \* is the handler, or idle's poll, draining the console?
          queue,        \* BUFFER, HEAD, and the bytes push has accepted
          tail,         \* TAIL
          pending,      \* PENDING
          ending,       \* ENDING
          due,          \* how many bytes were accepted before Ctrl-D
          pc, byte,     \* where the shell's loop is, and the byte it holds
          ran,          \* the bytes the shell has handled
          line,         \* the line being typed
          screen        \* the console's last row

console == <<typed, uart, raised, reading>>
shell   == <<pc, byte, ran, line, screen>>
inputVars == <<variant, console, queue, tail, pending, ending, due, shell>>

InputInit ==
  /\ variant \in {"aarch64", "x86_64", "polled"}
  /\ typed = <<>> /\ uart = <<>> /\ raised = FALSE /\ reading = FALSE
  /\ queue = [buffer |-> [s \in 0 .. Slots - 1 |-> End], head |-> 0, accepted |-> <<>>]
  /\ tail = 0
  /\ pending = FALSE /\ ending = FALSE /\ due = 0
  /\ pc = "pop" /\ byte = End
  /\ ran = <<>> /\ line = <<>> /\ screen = <<Prompt>>

\* A key is typed, and waits in the console.  The PL011 latches its interrupt;
\* the 16550 raises a line that IOAPIC sees only as it rises.
Type(key) ==
  /\ Len(typed) < MaxTyped
  /\ typed' = Append(typed, key)
  /\ uart' = Append(uart, key)
  /\ raised' = (raised \/ variant = "aarch64" \/ uart = <<>>)
  /\ UNCHANGED <<variant, reading, queue, tail, pending, ending, due, shell>>

-----------------------------------------------------------------------------
(* The producer: the console's interrupt. *)

\* mlos_queue::push; a byte that finds the queue full is dropped.
Push(q, key) ==
  IF (q.head + 1) % Slots = tail THEN q
  ELSE [buffer |-> [q.buffer EXCEPT ![q.head] = key],
        head |-> (q.head + 1) % Slots,
        accepted |-> Append(q.accepted, key)]

Masked == pc \in {"check", "unmask"}

\* The handler returns past the instruction that slept.
Woken == IF pc = "asleep" THEN "pop" ELSE pc

\* on_irq: claimed, and on aarch64 cleared.  A PL011 that holds a byte raises
\* its interrupt again.
OnIrq ==
  /\ variant # "polled" /\ ~reading
  /\ raised \/ (variant = "aarch64" /\ uart # <<>>)
  /\ ~Masked /\ pc # "exit"
  /\ reading' = TRUE /\ raised' = FALSE
  /\ pc' = Woken
  /\ UNCHANGED <<variant, typed, uart, queue, tail, pending, ending, due, byte, ran, line, screen>>

\* receive, and queue_input: one byte of the console.  On x86-64 Ctrl-D is not
\* pushed, and every byte raises PENDING.
Receive ==
  /\ reading /\ uart # <<>>
  /\ uart' = Tail(uart)
  /\ IF Head(uart) = End /\ variant # "aarch64"
     THEN ending' = TRUE /\ due' = (IF ending THEN due ELSE Len(queue.accepted)) /\ UNCHANGED queue
     ELSE queue' = Push(queue, Head(uart)) /\ UNCHANGED <<ending, due>>
  /\ pending' = (pending \/ variant # "aarch64")
  /\ UNCHANGED <<variant, typed, raised, reading, tail, shell>>

\* Mutant: the handler reads one byte and leaves the rest for the next interrupt.
ReceivedOne ==
  /\ reading
  /\ reading' = FALSE
  /\ UNCHANGED <<variant, typed, uart, raised, queue, tail, pending, ending, due, shell>>

\* Mutant: Ctrl-D is looked for after the console is read, not before.
ReceivedEnds ==
  /\ reading /\ uart = <<>>
  /\ reading' = FALSE
  /\ pc' = IF ending THEN "exit" ELSE pc
  /\ UNCHANGED <<variant, typed, uart, raised, queue, tail, pending, ending, due, byte, ran, line, screen>>

\* The console is empty: complete, or the EOI.
Received ==
  /\ reading /\ uart = <<>>
  /\ reading' = FALSE
  /\ UNCHANGED <<variant, typed, uart, raised, queue, tail, pending, ending, due, shell>>

\* The timer's interrupt, which only matters to a loop that is asleep.
OnTimer ==
  /\ variant # "polled" /\ ~reading
  /\ pc = "asleep"
  /\ pc' = Woken
  /\ UNCHANGED <<variant, console, queue, tail, pending, ending, due, byte, ran, line, screen>>

-----------------------------------------------------------------------------
(* The consumer: Shell::pump, one access to shared memory at a time. *)

PopTest ==
  /\ pc = "pop"
  /\ pc' = IF tail = queue.head THEN "idle" ELSE "read"
  /\ UNCHANGED <<variant, console, queue, tail, pending, ending, due, byte, ran, line, screen>>

PopRead ==
  /\ pc = "read"
  /\ byte' = queue.buffer[tail]
  /\ pc' = "free"
  /\ UNCHANGED <<variant, console, queue, tail, pending, ending, due, ran, line, screen>>

\* Mutant: the slot is given back before it is read.
PopFreeUnread ==
  /\ pc = "free"
  /\ tail' = (tail + 1) % Slots
  /\ byte' = queue.buffer[(tail + 1) % Slots]
  /\ pc' = "feed"
  /\ UNCHANGED <<variant, console, queue, pending, ending, due, ran, line, screen>>

PopFree ==
  /\ pc = "free"
  /\ tail' = (tail + 1) % Slots
  /\ pc' = "feed"
  /\ UNCHANGED <<variant, console, queue, pending, ending, due, byte, ran, line, screen>>

\* Line::push and Line::backspace: the line after it, which is the line itself
\* when it refuses.
LinePush(text, key) == IF Len(text) < LineCap THEN Append(text, key) ELSE text
LineBackspace(text) == IF text = <<>> THEN text ELSE Front(text)

\* The row after a byte is echoed, and after the three bytes that erase one.
Echoed(row, key) == Append(row, key)
Erased(row) == IF row = <<>> THEN row ELSE Front(row)

\* Mutant: a byte is echoed before the line has taken it.
FeedKeyFirst(key) ==
  /\ line' = LinePush(line, key)
  /\ screen' = Echoed(screen, key)

\* A byte that is text: echoed if the line takes it.
FeedKey(key) ==
  /\ line' = LinePush(line, key)
  /\ screen' = IF line' = line THEN screen ELSE Echoed(screen, key)

\* Shell::feed: return dispatches the line and prompts for the next; what is
\* neither that, a backspace nor text is ignored.
Feed ==
  /\ pc = "feed"
  /\ ran' = Append(ran, byte)
  /\ CASE byte = Enter -> line' = <<>> /\ screen' = <<Prompt>>
       [] byte = Back  -> /\ line' = LineBackspace(line)
                          /\ screen' = IF line = <<>> THEN screen ELSE Erased(screen)
       [] byte = End   -> UNCHANGED <<line, screen>>
       [] OTHER        -> FeedKey(byte)
  /\ pc' = "pop"
  /\ UNCHANGED <<variant, console, queue, tail, pending, ending, due, byte>>

-----------------------------------------------------------------------------
(* idle *)

\* wfi on aarch64; on x86-64, leave if Ctrl-D came, else poll or mask (cli).
Idle ==
  /\ pc = "idle"
  /\ \/ variant = "aarch64" /\ pc' = "asleep" /\ UNCHANGED reading
     \/ variant # "aarch64" /\ ending /\ pc' = "exit" /\ UNCHANGED reading
     \/ variant = "polled" /\ ~ending /\ pc' = "pop" /\ reading' = TRUE
     \/ variant = "x86_64" /\ ~ending /\ pc' = "check" /\ UNCHANGED reading
  /\ UNCHANGED <<variant, typed, uart, raised, queue, tail, pending, ending, due, byte, ran, line, screen>>

\* Mutant: the flag is lowered whatever it said, and the loop sleeps.
WaitUnlessForgetful ==
  /\ pc = "check"
  /\ pending' = FALSE
  /\ pc' = "asleep"
  /\ UNCHANGED <<variant, console, queue, tail, ending, due, byte, ran, line, screen>>

\* wait_unless, masked: take the flag down and go on, or sti; hlt as one.
WaitUnless ==
  /\ pc = "check"
  /\ pending' = FALSE
  /\ pc' = IF pending THEN "unmask" ELSE "asleep"
  /\ UNCHANGED <<variant, console, queue, tail, ending, due, byte, ran, line, screen>>

Unmask ==
  /\ pc = "unmask"
  /\ pc' = "pop"
  /\ UNCHANGED <<variant, console, queue, tail, pending, ending, due, byte, ran, line, screen>>

Handler == OnIrq \/ Receive \/ Received \/ OnTimer

\* The loop stands still while the console is drained.
Loop ==
  /\ ~reading
  /\ PopTest \/ PopRead \/ PopFree \/ Feed \/ Idle \/ WaitUnless \/ Unmask

InputNext == Loop \/ Handler \/ \E key \in Keys : Type(key)

\* The core runs; an interrupt the console raises stays pending while the loop
\* masks it and is taken once it is not; and on aarch64, where the handlers
\* rearm it, so is the timer's.
InputSpec ==
  /\ InputInit /\ [][InputNext]_inputVars
  /\ WF_inputVars(Loop) /\ WF_inputVars(Receive \/ Received) /\ SF_inputVars(OnIrq)
  /\ WF_inputVars(variant = "aarch64" /\ OnTimer)

-----------------------------------------------------------------------------
(* Properties. *)

\* The bytes published and not yet freed, oldest first.
Queued ==
  [i \in 1 .. (queue.head - tail + Slots) % Slots |-> queue.buffer[(tail + i - 1) % Slots]]

\* The byte the shell holds after it has freed the slot.
InHand == IF pc = "feed" THEN <<byte>> ELSE <<>>

\* What the handler accepted is what the shell runs, once each and in order,
\* wherever in pop the handler interrupts it and however the indices wrap.
InOrder == queue.accepted = ran \o InHand \o Queued

\* wait_unless never sleeps through a byte: a halted x86-64 core has run
\* everything that was queued.
AsleepDrained == variant = "x86_64" /\ pc = "asleep" => ran = queue.accepted

\* Every byte accepted is run in the end, and the console is emptied, unless
\* Ctrl-D ends the guest.
AllRun == <>[](pc = "exit" \/ (uart = <<>> /\ ran = queue.accepted))

\* The row a user sees is the prompt and the line Enter would run, whatever was
\* refused for want of room and however often backspace is hit: feed echoes only
\* what the line took, and erases only what was there.
ScreenTrue == screen = <<Prompt>> \o line

\* idle's promise: when Ctrl-D ends the guest, everything typed before it has
\* run.
EndRunsAll == pc = "exit" => Len(ran) >= due

\* A guest that polls keeps that promise: idle reads the console only after it
\* has looked for Ctrl-D.
PolledEndRunsAll == variant = "polled" => EndRunsAll
=============================================================================
