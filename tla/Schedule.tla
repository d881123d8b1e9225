------------------------------ MODULE Schedule ------------------------------
(***************************************************************************)
(* mlos-sched: whose turn it is.  Sessions have declared their streams,    *)
(* token by token; a rule picks the session whose next access is served,   *)
(* until no session has any left.  The rule is "process" (a whole token of *)
(* one session, round robin) or "parameter" (lockstep, with the latency    *)
(* escape).                                                                *)
(*                                                                         *)
(* mlos-sched's merge drives the loop on the host, over what the workload  *)
(* generates.  Where that trace goes on a disk, the kernel cuts it into    *)
(* lanes and mlos-lab's Lanes::order drives the loop over those, under     *)
(* either rule and the contracts of its own sessions, which are what       *)
(* mlos-admit lets in one after another (a token of zero is a capacity     *)
(* that does not test latency).                                            *)
(***************************************************************************)
EXTENDS Workload

CONSTANTS K,            \* how many sessions there are
          Setups,       \* what a schedule may start from
          Slots,        \* how many session slots a replay may find vacant
          Accesses      \* ACCESSES, how long a trace the kernel can hold

Sessions == 0 .. K - 1
Rules == {"process", "parameter"}

\* A lane: a session's tokens, each a sequence of objects.
IsSequence(s) == Len(s) \in Nat /\ DOMAIN s = 1 .. Len(s) /\ s = [i \in DOMAIN s |-> s[i]]
IsLane(lane) == IsSequence(lane) /\ \A t \in DOMAIN lane : IsSequence(lane[t])

\* What the sessions declare (tokens of objects), the latency ceilings they
\* may ask for (0 for none), Capacity::token (the weights of one token), the
\* rule, and whether the trace goes on a disk.
ASSUME ScheduleAssumption ==
  /\ K \in Nat \ {0} /\ Slots \subseteq Nat /\ Accesses \in Nat
  /\ \A setup \in Setups :
       /\ setup.token \in Nat /\ setup.ceilings \subseteq Nat
       /\ setup.rule \in Rules /\ setup.disk \in BOOLEAN
       /\ \A declared \in setup.lanes :
            DOMAIN declared = Sessions /\ \A s \in Sessions : IsLane(declared[s])

VARIABLES stage,        \* "host", "kernel", or "ended" or "refused"
          disk,         \* the trace goes on a disk and the kernel replays it
          declared,     \* what the sessions generated
          rule,         \* the rule in force
          capacity,     \* Capacity::token
          ceilings,     \* the ceilings contracts may ask for
          lanes,        \* the lane of each session
          ceiling,      \* the latency_ceiling of each contract
          token, index, \* the cursors
          due,          \* when each session's token became due
          clock,        \* accesses served
          worst,        \* the longest period of each session's tokens
          current, started,     \* ProcessMajor's
          merged, trace         \* the order so far; the trace on the disk

setting == <<disk, declared, capacity, ceilings>>
cursors == <<token, index, due, clock, worst, current, started, merged>>
vars == <<setting, cursors, stage, rule, lanes, ceiling, trace>>

-----------------------------------------------------------------------------
(* mlos-admit, latency.rs *)

\* The sessions before s that were promised a ceiling.
Ahead(c, s) == {t \in 0 .. s - 1 : c[t] # 0}

\* Mutant: the promises already made are not looked at.
WaitsAlone(c, s, of) == of = 0 \/ c[s] = 0 \/ c[s] >= of \div 4

\* Capacity::wait lets contract c[s] in beside those before it, when a token
\* takes `of` acquires.
Waits(c, s, of) ==
  \/ of = 0 \/ c[s] = 0
  \/ /\ c[s] >= of \div 4
     /\ \A t \in Ahead(c, s) \cup {s} : c[t] >= of * Cardinality(Ahead(c, s))

\* The contracts a set of ceilings makes that are let in.
Admitted(asked, of) ==
  {c \in [Sessions -> asked] : \A s \in Sessions : Waits(c, s, of)}

\* Every lane at its start: cursors, dues and worst periods alike.
Zero == [s \in Sessions |-> 0]

\* The generators merge process-major and with no ceilings what goes on a disk.
Init ==
  /\ \E setup \in Setups :
       /\ disk = setup.disk /\ capacity = setup.token /\ ceilings = setup.ceilings
       /\ declared \in setup.lanes
       /\ rule = setup.rule
       /\ ceiling \in IF setup.disk THEN {Zero}
                      ELSE Admitted(setup.ceilings, setup.token)
  /\ lanes = declared
  /\ stage = "host" /\ trace = <<>>
  /\ token = Zero /\ index = Zero /\ due = Zero /\ worst = Zero /\ clock = 0
  /\ current = 0 /\ started = FALSE
  /\ merged = <<>>

-----------------------------------------------------------------------------
(* Waiting: what a rule may see. *)

\* The sessions `at` answers for: those with anything left to ask for.
Live == {s \in Sessions : token[s] < Len(lanes[s])}

\* At::waited.
Waited(s) == clock - due[s] - index[s]

\* next_of: the object the session will ask for, or none (an empty token).
NextOf(s) ==
  LET objects == lanes[s][token[s] + 1]
  IN  IF index[s] < Len(objects) THEN {objects[index[s] + 1]} ELSE {}

-----------------------------------------------------------------------------
(* The rules. *)

Overdue == {s \in Live : ceiling[s] # 0 /\ Waited(s) >= ceiling[s]}

\* How many sessions want what s wants next.
Shared(s) == IF NextOf(s) = {} THEN 0 ELSE Cardinality({t \in Live : NextOf(t) = NextOf(s)})

\* Mutant: which token a session is on does not count.
BehindIndexOnly(s, t) == index[s] < index[t] \/ (index[s] = index[t] /\ s < t)

\* Mutant: nothing breaks the last tie.
BehindTied(s, t) ==
  \/ token[s] < token[t]
  \/ /\ token[s] = token[t]
     /\ index[s] < index[t] \/ (index[s] = index[t] /\ Shared(s) > Shared(t))

\* s comes before t: by token, then index, then how many share, then number.
Behind(s, t) ==
  \/ token[s] < token[t]
  \/ /\ token[s] = token[t]
     /\ \/ index[s] < index[t]
        \/ /\ index[s] = index[t]
           /\ Shared(s) > Shared(t) \/ (Shared(s) = Shared(t) /\ s < t)

\* ParameterMajor::pick names s.
ParameterPick(s) ==
  IF Overdue # {} THEN s = Min(Overdue)
  ELSE s \in Live /\ \A t \in Live \ {s} : Behind(s, t)

\* How many places s is after the session served last; itself is last.
Rotation(s) == (s - current - 1 + K) % K

\* ProcessMajor::pick names s.
ProcessPick(s) ==
  /\ s \in Live
  /\ IF current \in Live /\ (index[current] # 0 \/ ~started) THEN s = current
     ELSE \A t \in Live : Rotation(s) <= Rotation(t)

Pick(s) == IF rule = "process" THEN ProcessPick(s) ELSE ParameterPick(s)

-----------------------------------------------------------------------------
\* One access of s is the last of its token.
Ends(s) == index[s] + 1 >= Len(lanes[s][token[s] + 1])

\* Lanes::advance: the cursor, and a token's period the moment it ends.
Advance(s) ==
  /\ token' = [token EXCEPT ![s] = IF Ends(s) THEN @ + 1 ELSE @]
  /\ index' = [index EXCEPT ![s] = IF Ends(s) THEN 0 ELSE @ + 1]
  /\ worst' = IF Ends(s) THEN [worst EXCEPT ![s] = Max({@, clock + 1 - due[s]})] ELSE worst
  /\ due' = IF Ends(s) THEN [due EXCEPT ![s] = clock + 1] ELSE due

\* One turn of the drivers' loop.
Serve(s) ==
  /\ stage \in {"host", "kernel"}
  /\ Pick(s) /\ NextOf(s) # {}
  /\ Advance(s)
  /\ clock' = clock + 1
  /\ merged' = Append(merged, <<s, lanes[s][token[s] + 1][index[s] + 1]>>)
  /\ IF rule = "process" THEN current' = s /\ started' = TRUE
     ELSE UNCHANGED <<current, started>>
  /\ UNCHANGED <<setting, stage, rule, lanes, ceiling, trace>>

\* The loop is over: the rule names nobody, or one with nothing to ask for.
Exhausted == ~\E s \in Sessions : Pick(s) /\ NextOf(s) # {}

\* merge returns, and nothing is written.
Merged ==
  /\ stage = "host" /\ ~disk /\ Exhausted
  /\ stage' = "ended"
  /\ UNCHANGED <<setting, cursors, rule, lanes, ceiling, trace>>

\* The kernel's prepare, up to the order: the trace is read from the disk, its
\* sessions are adopted, and it is cut into lanes.
Prepare(by, promised, vacant) ==
  /\ stage = "host" /\ disk /\ Exhausted
  /\ stage' = "kernel"
  /\ \E accesses \in ParseTrace(Render(merged), Accesses) :
       trace' = accesses /\ lanes' = Build(accesses, Sessions, vacant)
  /\ rule' = by /\ ceiling' = promised
  /\ token' = Zero /\ index' = Zero /\ due' = Zero /\ worst' = Zero /\ clock' = 0
  /\ current' = 0 /\ started' = FALSE
  /\ merged' = <<>>
  /\ UNCHANGED setting

\* prepare gives up: the trace does not parse.
Unparsed ==
  /\ stage = "host" /\ disk /\ Exhausted
  /\ ParseTrace(Render(merged), Accesses) = {}
  /\ stage' = "refused"
  /\ UNCHANGED <<setting, cursors, rule, lanes, ceiling, trace>>

\* prepare goes on: an order that leaves accesses out is refused.
Ordered ==
  /\ stage = "kernel" /\ Exhausted
  /\ stage' = IF Len(merged) = Len(trace) THEN "ended" ELSE "refused"
  /\ UNCHANGED <<setting, cursors, rule, lanes, ceiling, trace>>

Next ==
  \/ \E s \in Sessions : Serve(s)
  \/ Merged
  \/ \E by \in Rules, promised \in Admitted(ceilings, capacity), vacant \in Slots :
       Prepare(by, promised, vacant)
  \/ Unparsed \/ Ordered

\* The loops run until the rule names nobody.
Spec == Init /\ [][Next]_vars /\ WF_vars(Next)

-----------------------------------------------------------------------------
(* Properties. *)

\* What was served of s, in order.
Served(s) ==
  LET own == SelectSeq(merged, LAMBDA access : access[1] = s)
  IN  [i \in DOMAIN own |-> own[i][2]]

\* merge.rs: every access of every session appears exactly once, in its own
\* order, from the workload through the disk and the kernel's lanes; a trace
\* longer than the kernel can hold, or of more sessions than it has lanes for,
\* is refused and never cut short.
AllServed ==
  <>(\/ /\ stage = "refused"
        /\ \/ \E s \in Sessions : declared[s] # <<>> /\ lanes[s] = <<>>
           \/ MapThenSumSet(LAMBDA s : Len(FlattenSeq(declared[s])), Sessions) > Accesses
     \/ stage = "ended" /\ \A s \in Sessions : Served(s) = FlattenSeq(declared[s]))

Longest(s) == Max({0} \cup {Len(lanes[s][t]) : t \in DOMAIN lanes[s]})

\* The bound mlos-sched's notes give the escape: a token takes its own length
\* and twice the ceiling, counting the token in progress, whoever else was
\* promised a ceiling.  Only ParameterMajor has the escape, and tokens are no
\* longer than admission counted.  The wait is a difference on u32 and does not
\* go below zero, under either rule.
PeriodBounded ==
  /\ \A s \in Live : Waited(s) >= 0
  /\ rule = "parameter" /\ (\A s \in Sessions : Longest(s) <= capacity) =>
       \A s \in Sessions : ceiling[s] # 0 =>
         /\ worst[s] <= Longest(s) + 2 * ceiling[s]
         /\ s \in Live => Waited(s) <= 2 * ceiling[s]

\* The token barrier: nobody starts a token until everyone has finished the
\* last, unless a session with a ceiling left the lockstep.
Barrier ==
  rule = "parameter" /\ (\A s \in Sessions : ceiling[s] = 0) =>
    \A s \in Sessions, t \in Live :
      token[s] <= token[t] \/ (token[s] = token[t] + 1 /\ index[s] = 0)

\* The tokens of a round, one session after the other.
Round(streams, t) ==
  FlattenSeq(Each(K, LAMBDA s :
    IF t > Len(streams[s]) THEN <<>> ELSE [i \in DOMAIN streams[s][t] |-> <<s, streams[s][t][i]>>]))

\* Process-major is round robin by whole tokens: the order is that of rounds
\* over the sessions still generating, which tokens.rs says the generators
\* made by hand before.  The kernel's order over the lanes it cut is the same:
\* the cut finds the tokens that were generated.
RoundByRound ==
  rule = "process" =>
    LET streams == [s \in Sessions |-> IF lanes[s] = <<>> THEN <<>> ELSE declared[s]]
        rounds  == Max({Len(streams[s]) : s \in Sessions})
    IN  IsPrefix(merged, FlattenSeq([t \in 1 .. rounds |-> Round(streams, t)]))
=============================================================================
