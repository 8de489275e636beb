----------------------------- MODULE SmokeHost -----------------------------
(***************************************************************************)
(* The F2 smoke runtime (vtpu_f2_smoke.c) against the chip's host port      *)
(* (virtual_tpu_v4_top.sv), one process after the other on one slot.  A     *)
(* process may die between any two accesses, or give up by its timeout, and *)
(* leaves the chip as it is: half loaded, or still running.  A poke is a    *)
(* posted write: when the chip refuses it, because it is running, the host  *)
(* does not learn of it.                                                    *)
(***************************************************************************)
EXTENDS Naturals, Sequences

CONSTANTS
  Proc,       \* processes
  Programs,   \* program files: "matmul", "faulty" (ends in an error) or "endless"
  Tile,       \* operand files
  Words       \* words of a program and of a tile

ConstantsOK == Words \in Nat \ {0}

\* What the host loads: the instruction memory and the operands in HBM
Region == {"program", "a", "b"}
Files == {f \in [Region -> Programs \cup Tile] :
            f["program"] \in Programs /\ f["a"] \in Tile /\ f["b"] \in Tile}

VARIABLES
  opts,       \* opts[p]: the files of the command line
  at,         \* at[p]: the step of main
  i,          \* loop index of load_program_hex and write_hbm
  passed,     \* passed[p]: "vTPU F2 smoke PASS" was printed
  chip,       \* state of the control FSM: "idle", "run", "halt", "error"
  unit_error, \* an error of a unit, sticky until reset
  memory,     \* memory[x]: the words of region x
  c,          \* the result region of HBM
  launched,   \* history: who started the running or last program, on what
  computed,   \* history: launched when C was last computed
  idle_at_attach, \* history: the chip was not running when p attached
  ran         \* history: ran[p] = computed when p passed

host == <<opts, at, i, passed, idle_at_attach, ran>>
card == <<chip, unit_error, memory, c, launched, computed>>
vars == <<host, card>>

Blank == [x \in Region |-> [w \in 1 .. Words |-> "blank"]]
Nobody == "nobody"
Nothing == [by |-> Nobody, memory |-> Blank]
Busy == chip = "run"

Init ==
  /\ opts \in [Proc -> Files]
  /\ at = [p \in Proc |-> "new"] /\ i = 0
  /\ passed = [p \in Proc |-> FALSE] /\ idle_at_attach = [p \in Proc |-> FALSE]
  /\ chip = "idle" /\ unit_error = FALSE /\ launched = Nothing /\ computed = Nothing
  /\ memory = Blank /\ c = <<>>
  /\ ran = [p \in Proc |-> Nothing]

-----------------------------------------------------------------------------
(* The process                                                              *)

Ended == {"new", "failed", "passed"}
Goto(p, here, there) == at[p] = here /\ at' = [at EXCEPT ![p] = there]

\* fpga_pci_attach; the tool runs one process at a time.
Attach(p) ==
  /\ \A q \in Proc : at[q] \in Ended
  /\ Goto(p, "new", "clear")
  /\ idle_at_attach' = [idle_at_attach EXCEPT ![p] = ~Busy]
  /\ UNCHANGED <<opts, i, passed, ran, card>>

\* CONTROL = 2 clears the counters.
ClearCounters(p) ==
  /\ Goto(p, "clear", "program") /\ i' = 1
  /\ UNCHANGED <<opts, passed, idle_at_attach, ran, card>>

\* One word of load_program_hex or write_hbm; the chip drops it while it runs.
Written(what, name) == IF Busy THEN memory ELSE [memory EXCEPT ![what][i] = name]
PokeWord(p, what, there) ==
  /\ at[p] = what
  /\ memory' = Written(what, opts[p][what])
  /\ IF i < Words THEN i' = i + 1 /\ UNCHANGED at ELSE i' = 1 /\ Goto(p, what, there)
  /\ UNCHANGED <<opts, passed, idle_at_attach, ran, chip, unit_error, c, launched, computed>>

\* CONTROL = 1; refused while the chip runs.
Start(p) ==
  /\ Goto(p, "start", "poll")
  /\ IF Busy THEN UNCHANGED <<chip, launched>>
     ELSE chip' = "run" /\ launched' = [by |-> p, memory |-> memory]
  /\ UNCHANGED <<opts, i, passed, idle_at_attach, ran, unit_error, memory, c, computed>>

\* Mutant: a chip that is not busy is taken to be done
VerdictNotBusy == IF Busy THEN "poll" ELSE "read"
\* One iteration of poll_done: what a read of STATUS says.
Verdict ==
  CASE chip = "error" -> "failed" [] chip = "halt" -> "read" [] OTHER -> "poll"
\* Mutant: an unfinished run is polled without looking at the clock
TimeUpNever == FALSE
TimeUp == TRUE   \* at any iteration
Poll(p) ==
  /\ \/ Verdict # "poll" /\ Goto(p, "poll", Verdict)
     \/ Verdict = "poll" /\ TimeUp /\ Goto(p, "poll", "failed")
  /\ UNCHANGED <<opts, i, passed, idle_at_attach, ran, card>>

\* read_hbm and memcmp with compute_expected
Product(a, b) == <<a, b>>
Compare(p) ==
  /\ IF c = Product(opts[p]["a"], opts[p]["b"])
     THEN /\ Goto(p, "read", "passed")
          /\ passed' = [passed EXCEPT ![p] = TRUE] /\ ran' = [ran EXCEPT ![p] = computed]
     ELSE Goto(p, "read", "failed") /\ UNCHANGED <<passed, ran>>
  /\ UNCHANGED <<opts, i, idle_at_attach, card>>

\* A failing access, a bad line of the program file, or a signal
Die(p) ==
  /\ at[p] \notin Ended /\ at' = [at EXCEPT ![p] = "failed"]
  /\ UNCHANGED <<opts, i, passed, idle_at_attach, ran, card>>

Main(p) ==
  \/ ClearCounters(p) \/ PokeWord(p, "program", "a") \/ PokeWord(p, "a", "b")
  \/ PokeWord(p, "b", "start") \/ Start(p) \/ Poll(p) \/ Compare(p)

-----------------------------------------------------------------------------
(* The chip, whatever is in its memories                                    *)

Holds(what, name) == \A w \in 1 .. Words : memory[what][w] = name
Mixed(what) == \A name \in Programs \cup Tile : ~Holds(what, name)

\* The matmul program on whole operands; C gets garbage from mixed ones.
Halt ==
  /\ Busy /\ ~unit_error
  /\ Holds("program", "matmul") \/ Mixed("program")
  /\ chip' = "halt" /\ computed' = launched
  /\ LET product == Product(memory["a"][1], memory["b"][1]) IN
     IF Holds("program", "matmul")
     THEN c' = IF Mixed("a") \/ Mixed("b") THEN <<>> ELSE product
     ELSE c' \in {<<>>, c, product}
  /\ UNCHANGED <<host, unit_error, memory, launched>>

\* An illegal instruction, or an error of a unit: in this run or in an earlier one
Fault ==
  /\ Busy
  /\ unit_error \/ Holds("program", "faulty") \/ Mixed("program")
  /\ chip' = "error" /\ unit_error' \in {unit_error, TRUE}
  /\ UNCHANGED <<host, memory, c, launched, computed>>

Chip == Halt \/ Fault

Next == Chip \/ \E p \in Proc : Attach(p) \/ Main(p) \/ Die(p)

\* A process that is not stopped makes its accesses; time passes.
Fairness == \A p \in Proc : WF_vars(Main(p))
Spec == Init /\ [][Next]_vars /\ Fairness

-----------------------------------------------------------------------------
(* Properties                                                               *)

\* "vTPU F2 smoke PASS" of a process that found the chip idle means that the chip
\* has run the program of this process on its operands to the end, and not that
\* C still is what an earlier process with the same operands left there.
PassIsOwnRun ==
  \A p \in Proc : passed[p] /\ idle_at_attach[p] =>
    /\ ran[p].by = p
    /\ \A what \in Region, w \in 1 .. Words :
          ran[p].memory[what][w] = opts[p][what]

\* A process ends, by its timeout if by nothing else, whatever the chip does.
ProcessEnds == \A p \in Proc : at[p] = "clear" ~> at[p] \in {"failed", "passed"}
=============================================================================
