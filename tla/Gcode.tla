--------------------------------- MODULE Gcode ---------------------------------
(***************************************************************************)
(* The g-code parser (gcode.c): a line is imported word by word, checked   *)
(* as a whole and executed in the order of execution, against the planner  *)
(* queue, the outputs and the stored coordinates, and among the realtime   *)
(* bytes that change what it works on: reset, jog cancel, coolant toggle.  *)
(*                                                                         *)
(* A command word is its name; a value is a whole number. Realtime models  *)
(* the queue and the states in full; here a block is its target, and a     *)
(* motion ends at once or where a reset or a jog cancel cuts it.           *)
(***************************************************************************)
EXTENDS Integers, Sequences, FiniteSets

CONSTANTS
  Lines, Jogs,            (* sets of words: the lines sent, those after $J= *)
  N_COORDINATE_SYSTEM,
  MmPerInch,
  Travel,                 (* the positions of an axis within the limits    *)
  BlockBuffer,            (* blocks the planner holds                      *)
  MaxLines, MaxEvents     (* bounds                                        *)

Axes == {"X", "Y", "Z"}
ToolAxis == "Z"
IndexG28 == N_COORDINATE_SYSTEM
IndexG30 == N_COORDINATE_SYSTEM + 1
Stored == 0..IndexG30
Vector == [Axes -> Int]
Zero == [a \in Axes |-> 0]
MaxLineNumber == 10000000
MaxToolNumber == 255

Command(name) == [letter |-> "command", name |-> name, value |-> 0]
Value(letter, n) == [letter |-> letter, name |-> "", value |-> n]

VARIABLES
  mode,                   (* sys.state                                     *)
  reset,                  (* a reset: asked for, after it cut a motion, or *)
                          (* taken (sys.abort)                             *)
  gc,                     (* gc_state                                      *)
  store,                  (* the coordinates in EEPROM                     *)
  queue, machine,         (* targets planned; the position reached         *)
  spindle, coolant,       (* the outputs: direction and speed, on or off   *)
  pc, syncing,            (* where the parser is; in a synchronization     *)
  line, rest, jogging,    (* the line, its words to import, it is a jog    *)
  block,                  (* gc_block and plan_data                        *)
  lines, events

vars == <<mode, reset, gc, store, queue, machine, spindle, coolant, pc, syncing, line, rest,
          jogging, block, lines, events>>

----------------------------------------------------------------------------
(* Words.                                                                  *)

Probes == {"G38.2", "G38.3", "G38.4", "G38.5"}
Arcs == {"G2", "G3"}

(* The modal groups, NIST RS274-NGC v3: at most one word of each in a line. *)
Groups ==
  [G0  |-> {"G4", "G10", "G28", "G28.1", "G30", "G30.1", "G53", "G92", "G92.1"},
   G1  |-> {"G0", "G1", "G80"} \cup Arcs \cup Probes,
   G2  |-> {"G17", "G18", "G19"},  G3 |-> {"G90", "G91"},  G4 |-> {"G91.1"},
   G5  |-> {"G93", "G94"},         G6 |-> {"G20", "G21"},  G7 |-> {"G40"},
   G8  |-> {"G43.1", "G49"},       G13 |-> {"G61"},
   G12 |-> {"G54", "G55", "G56", "G57", "G58", "G59"},
   M4  |-> {"M0", "M1", "M2", "M30"}, M7 |-> {"M3", "M4", "M5"}, M8 |-> {"M8", "M9"}]

ModalGroups == {"G1", "G2", "G3", "G5", "G6", "G8", "G12", "M7", "M8"}
GroupOf(name) == CHOOSE g \in DOMAIN Groups : name \in Groups[g]
Supported(name) == \E g \in DOMAIN Groups : name \in Groups[g]
SystemOf(name) == CHOOSE i \in 0..5 : name = <<"G54", "G55", "G56", "G57", "G58", "G59">>[i + 1]

(* The lines name coordinate systems there are.                            *)
ASSUME GcodeAssumption ==
  /\ N_COORDINATE_SYSTEM \in 1..6 /\ MmPerInch \in Nat \ {0} /\ BlockBuffer \in Nat \ {0}
  /\ 0 \in Travel /\ Travel \subseteq Int
  /\ \A words \in Lines \cup Jogs :
       /\ IsFiniteSet(words)
       /\ \A w \in words : /\ w.value \in Int
                           /\ w.name \in Groups.G12 => SystemOf(w.name) < N_COORDINATE_SYSTEM
  /\ MaxLines \in Nat /\ MaxEvents \in Nat

(* axis_command: what a command does with the axis words.                  *)
AxisCommand(name) ==
  CASE name \in {"G10", "G28", "G30", "G92"}    -> "nonmodal"
    [] name \in Groups.G1 \ {"G80"}             -> "motion"
    [] name \in Groups.G8                       -> "length"
    [] OTHER                                    -> "none"

ValueLetters == Axes \cup {"F", "I", "J", "K", "L", "N", "P", "R", "S", "T"}
NotNegative == {"F", "N", "P", "T", "S"}

Blank == [commands |-> <<>>, values |-> <<>>, axis |-> "none"]

(* A word that stops the line.                                             *)
RefusedCommand(b, name) ==
  \/ ~Supported(name)
  \/ AxisCommand(name) # "none" /\ b.axis # "none"
  \/ GroupOf(name) \in DOMAIN b.commands
RefusedValue(b, w) ==
  \/ w.letter \notin ValueLetters
  \/ w.letter \in DOMAIN b.values
  \/ w.letter \in NotNegative /\ w.value < 0
  \/ w.letter = "T" /\ w.value > MaxToolNumber
(* Mutant: the tool length commands are not taken for axis commands.       *)
RefusedLate(b, w) ==
  IF w.letter = "command"
  THEN RefusedCommand(b, w.name) /\ (Supported(w.name) => w.name \notin Groups.G8)
  ELSE RefusedValue(b, w)

Refused(b, w) == IF w.letter = "command" THEN RefusedCommand(b, w.name) ELSE RefusedValue(b, w)

Known(f, key, value) == [k \in DOMAIN f \cup {key} |-> IF k = key THEN value ELSE f[k]]
Import(b, w) ==
  IF w.letter = "command"
  THEN [b EXCEPT !.commands = Known(@, GroupOf(w.name), w.name),
                 !.axis = IF AxisCommand(w.name) # "none" THEN AxisCommand(w.name) ELSE @]
  ELSE [b EXCEPT !.values = Known(@, w.letter, w.value)]

----------------------------------------------------------------------------
(* STEP 3: what the imported line, b, means in the modes of g.             *)

Has(b, letter) == letter \in DOMAIN b.values
ValueOf(b, letter) == IF Has(b, letter) THEN b.values[letter] ELSE 0
Word(b, group) == IF group \in DOMAIN b.commands THEN b.commands[group] ELSE "none"
AxisWords(b) == Axes \cap DOMAIN b.values

Modal(b) ==
  [g \in ModalGroups |->
     IF g \in DOMAIN b.commands THEN b.commands[g]
     ELSE IF jogging /\ g = "G1" THEN "G1"
     ELSE IF jogging /\ g = "G5" THEN "G94"
     ELSE gc.modal[g]]

Mm(b, n) == IF Modal(b).G6 = "G20" THEN n * MmPerInch ELSE n
AxisValue(b, a) == Mm(b, ValueOf(b, a))

(* Axis words without an axis command are of the motion mode.              *)
AxisOf(b) == IF b.axis = "none" /\ AxisWords(b) # {} THEN "motion" ELSE b.axis

Feed(b) ==
  IF jogging \/ (Modal(b).G5 = "G94" /\ gc.modal.G5 = "G94" /\ Has(b, "F")) THEN Mm(b, ValueOf(b, "F"))
  ELSE IF Modal(b).G5 = "G94" /\ gc.modal.G5 = "G94" THEN gc.feed
  ELSE ValueOf(b, "F")

System(b) ==
  IF Modal(b).G12 # gc.modal.G12 THEN store[SystemOf(Modal(b).G12)] ELSE gc.system

Tool(a) == IF a = ToolAxis THEN gc.length ELSE 0
(* Mutant: G92 offsets from the system in force before the line.           *)
OffsetStale(b) ==
  [a \in Axes |-> IF a \in AxisWords(b)
                  THEN gc.position[a] - gc.system[a] - AxisValue(b, a) - Tool(a)
                  ELSE gc.offset[a]]

(* G92: WPos = MPos - WCS - G92 - TLO  ->  G92 = MPos - WCS - TLO - WPos   *)
Offset(b) ==
  [a \in Axes |-> IF a \in AxisWords(b)
                  THEN gc.position[a] - System(b)[a] - AxisValue(b, a) - Tool(a)
                  ELSE gc.offset[a]]

Target(b) ==
  IF AxisOf(b) = "length" \/ AxisWords(b) = {} THEN [a \in Axes |-> AxisValue(b, a)]
  ELSE [a \in Axes |->
          IF a \notin AxisWords(b) THEN gc.position[a]
          ELSE IF Word(b, "G0") = "G53" THEN AxisValue(b, a)
          ELSE IF Modal(b).G3 = "G90"
            THEN AxisValue(b, a) + System(b)[a] + gc.offset[a] + Tool(a)
          ELSE AxisValue(b, a) + gc.position[a]]

(* The words of a G10 are bytes: L is stored as one, and P is cut to one   *)
(* before anything compares it.                                            *)
ByteValues == 256
WordL(b) == ValueOf(b, "L") % ByteValues
CoordSelect(b) == ValueOf(b, "P") % ByteValues

(* The system a G10 writes: P1 and up, or the active one for P0.           *)
Index(b) ==
  IF CoordSelect(b) > 0 THEN CoordSelect(b) - 1 ELSE SystemOf(Modal(b).G12)
SystemData(b) ==
  [a \in Axes |->
     IF a \notin AxisWords(b) THEN store[Index(b)][a]
     ELSE IF WordL(b) = 20
       THEN gc.position[a] - gc.offset[a] - AxisValue(b, a) - Tool(a)
     ELSE AxisValue(b, a)]

HomeOf(name) == IF name \in {"G28", "G28.1"} THEN IndexG28 ELSE IndexG30
Home(b) ==
  [a \in Axes |-> IF a \in AxisWords(b) \/ AxisWords(b) = {}
                  THEN store[HomeOf(Word(b, "G0"))][a] ELSE gc.position[a]]

(* The axes of the arc plane; each with the word of its centre offset.     *)
Plane(b) ==
  CASE Modal(b).G2 = "G17" -> <<"X", "Y">>
    [] Modal(b).G2 = "G18" -> <<"Z", "X">>
    [] Modal(b).G2 = "G19" -> <<"Y", "Z">>
CentreLetter == [X |-> "I", Y |-> "J", Z |-> "K"]
Squares(x, y) == x * x + y * y

(* The errors of an arc. Radii that differ at all, whole numbers that are  *)
(* not large, differ by more than 0.005 mm and 0.1 %.                      *)
ArcError(b) ==
  LET x == Target(b)[Plane(b)[1]] - gc.position[Plane(b)[1]]
      y == Target(b)[Plane(b)[2]] - gc.position[Plane(b)[2]]
      i == Mm(b, ValueOf(b, CentreLetter[Plane(b)[1]]))
      j == Mm(b, ValueOf(b, CentreLetter[Plane(b)[2]]))
      r == Mm(b, ValueOf(b, "R"))
  IN  \/ AxisWords(b) \cap {Plane(b)[1], Plane(b)[2]} = {}
      \/ Has(b, "R") /\ (Target(b) = gc.position \/ 4 * r * r < Squares(x, y))
      \/ ~Has(b, "R") /\ (\/ \A k \in 1..2 : ~Has(b, CentreLetter[Plane(b)[k]])
                          \/ Squares(x - i, y - j) # Squares(i, j))

(* G28 and G30 without axis words, and G0 and G1, have no motion of their  *)
(* own to execute.                                                         *)
AxisExecuted(b) ==
  IF AxisWords(b) = {} /\ \/ Word(b, "G0") \in {"G28", "G30"}
                          \/ AxisOf(b) = "motion" /\ Modal(b).G1 \in {"G0", "G1"}
  THEN "none" ELSE AxisOf(b)

Moves(b) == AxisOf(b) = "motion" /\ Modal(b).G1 \notin {"G0", "G80"}

Used(b) ==
  {"N", "F"} \cup (IF jogging THEN {} ELSE {"S", "T"})
    \cup (IF AxisExecuted(b) # "none" THEN Axes ELSE {})
    \cup (IF Word(b, "G0") = "G4" THEN {"P"} ELSE {})
    \cup (IF Word(b, "G0") = "G10" THEN {"L", "P"} ELSE {})
    \cup (IF Moves(b) /\ Modal(b).G1 \in Arcs
          THEN IF Has(b, "R") THEN {"R"} ELSE {"I", "J", "K"} ELSE {})

NonModalError(b) ==
  CASE Word(b, "G0") = "G4"  -> ~Has(b, "P")
    [] Word(b, "G0") = "G10" ->
         \/ AxisWords(b) = {}
         \/ ~Has(b, "P") /\ ~Has(b, "L")
         \/ CoordSelect(b) > N_COORDINATE_SYSTEM
         \/ WordL(b) \notin {2, 20}
         \/ WordL(b) = 2 /\ Has(b, "R")
    [] Word(b, "G0") = "G92" -> AxisWords(b) = {}
    [] Word(b, "G0") = "G53" -> Modal(b).G1 \notin {"G0", "G1"}
    [] OTHER                 -> FALSE

MotionError(b) ==
  \/ Modal(b).G1 = "G80" /\ AxisWords(b) # {}
  \/ Moves(b) /\ Feed(b) = 0
  \/ Moves(b) /\ Modal(b).G1 \in Arcs /\ ArcError(b)
  \/ Moves(b) /\ Modal(b).G1 \in Probes /\ (AxisWords(b) = {} \/ Target(b) = gc.position)

(* Only distance and unit modes and G53 are allowed in a jog.              *)
JogError(b) ==
  \/ DOMAIN b.commands \ {"G0", "G3", "G6"} # {}
  \/ Word(b, "G0") \notin {"G53", "none"}

Error(b) ==
  \/ ValueOf(b, "N") > MaxLineNumber
  \/ ~Has(b, "F") /\ (jogging \/ (Modal(b).G5 = "G93" /\ Moves(b)))
  \/ Word(b, "G8") = "G43.1" /\ AxisWords(b) # {ToolAxis}
  \/ NonModalError(b)
  \/ MotionError(b)
  \/ DOMAIN b.values \ Used(b) # {}
  \/ jogging /\ JogError(b)

----------------------------------------------------------------------------
(* What runs besides the parser.                                           *)

Check == mode = "CHECK"
Abort == reset = "abort"
PlanEnd == IF queue = <<>> THEN machine ELSE queue[Len(queue)]
Between(from, to) ==
  {p \in [Axes -> Travel] : \A a \in Axes : \/ from[a] <= p[a] /\ p[a] <= to[a]
                                            \/ to[a] <= p[a] /\ p[a] <= from[a]}
Cut == IF queue = <<>> \/ mode \notin {"CYCLE", "JOG"} THEN {machine}
       ELSE {machine} \cup Between(machine, Head(queue))

Settled == Abort \/ (queue = <<>> /\ mode # "CYCLE" /\ reset = "no")

(* Who waits in a synchronization, and who in mc_line or a pause.          *)
Synchronizing ==
  \/ syncing
  \/ ~Check /\ \/ pc = "speed" /\ gc.speed # block.speed /\ gc.modal.M7 # "M5"
               \/ pc = "spindle" /\ gc.modal.M7 # block.modal.M7
               \/ pc = "coolant" /\ gc.modal.M8 # block.modal.M8
               \/ pc = "dwell" /\ block.nonmodal = "G4"
               \/ pc = "motion" /\ block.axis = "motion" /\ block.modal.G1 \in Probes
  \/ pc = "nonmodal" /\ block.nonmodal \in {"G10", "G28.1", "G30.1"}
  \/ pc = "flow" /\ block.flow # "none"
Planning == ~Check /\ pc \in {"home", "intermediate", "motion", "jog"}
Polling == pc \in {"idle", "paused", "probing"} \/ Synchronizing \/ Planning

Init ==
  /\ mode = "IDLE" /\ reset = "no"
  /\ store = [i \in Stored |-> Zero]
  /\ gc = [modal |-> [G1 |-> "G0", G2 |-> "G17", G3 |-> "G90", G5 |-> "G94", G6 |-> "G21",
                      G8 |-> "G49", G12 |-> "G54", M7 |-> "M5", M8 |-> "M9"],
           feed |-> 0, speed |-> 0, tool |-> 0, length |-> 0,
           system |-> Zero, offset |-> Zero, position |-> Zero]
  /\ queue = <<>> /\ machine = Zero
  /\ spindle = <<"M5", 0>> /\ coolant = "M9"
  /\ pc = "idle" /\ syncing = FALSE
  /\ line = {} /\ rest = {} /\ jogging = FALSE /\ block = Blank
  /\ lines = 0 /\ events = 0

Parser == <<pc, syncing, line, rest, jogging, block, lines>>
Others == <<gc, store, spindle, coolant>>

(* The automatic cycle start: at rest, in a synchronization, and when the  *)
(* planner is full.                                                        *)
Start ==
  /\ mode = "IDLE" /\ queue # <<>> /\ reset = "no"
  /\ pc = "idle" \/ Synchronizing \/ (Planning /\ Len(queue) = BlockBuffer)
  /\ mode' = "CYCLE"
  /\ UNCHANGED <<reset, queue, machine, events, Parser, Others>>

Move ==
  /\ mode \in {"CYCLE", "JOG"} /\ queue # <<>> /\ reset = "no"
  /\ machine' = Head(queue) /\ queue' = Tail(queue)
  /\ UNCHANGED <<mode, reset, events, Parser, Others>>

EndCycle ==
  /\ mode \in {"CYCLE", "JOG"} /\ queue = <<>> /\ Polling /\ reset = "no"
  /\ mode' = "IDLE"
  /\ UNCHANGED <<reset, queue, machine, events, Parser, Others>>

(* mc_reset, by the interrupt of the reset byte.                           *)
McReset ==
  /\ reset' = IF mode \in {"CYCLE", "JOG"} THEN "cut" ELSE "asked"
  /\ machine' \in Cut
  /\ spindle' = <<"M5", 0>> /\ coolant' = "M9"

Reset ==
  /\ reset = "no" /\ events < MaxEvents /\ events' = events + 1
  /\ McReset
  /\ UNCHANGED <<mode, gc, store, queue, Parser>>

TakeReset ==
  /\ reset \in {"asked", "cut"} /\ Polling
  /\ reset' = "abort"
  /\ mode' = IF reset = "cut" THEN "ALARM" ELSE mode
  /\ UNCHANGED <<queue, machine, events, Parser, Others>>

(* A soft limit waits for a reset whatever else is asked for.              *)
Unlock ==
  /\ reset = "locked"
  /\ reset' = "abort"
  /\ UNCHANGED <<mode, queue, machine, events, Parser, Others>>

(* Mutant: the parser is left at the target of the jog that was cancelled. *)
CancelledAway(p) == gc
Cancelled(p) == [gc EXCEPT !.position = p]

JogCancel ==
  /\ mode = "JOG" /\ Polling /\ reset = "no" /\ events < MaxEvents /\ events' = events + 1
  /\ \E p \in Cut : machine' = p /\ gc' = Cancelled(p)
  /\ queue' = <<>> /\ mode' = "IDLE"
  /\ UNCHANGED <<reset, store, spindle, coolant, Parser>>

ToggleCoolant ==
  /\ mode \in {"IDLE", "CYCLE", "JOG", "HOLD"} /\ Polling /\ reset = "no"
  /\ events < MaxEvents /\ events' = events + 1
  /\ coolant' = IF gc.modal.M8 = "M8" THEN "M9" ELSE "M8"
  /\ gc' = [gc EXCEPT !.modal.M8 = coolant']
  /\ UNCHANGED <<mode, reset, store, queue, machine, spindle, Parser>>

----------------------------------------------------------------------------
(* The main loop.                                                          *)

GcInit ==
  [modal |-> [G1 |-> "G0", G2 |-> "G17", G3 |-> "G90", G5 |-> "G94", G6 |-> "G21",
              G8 |-> "G49", G12 |-> "G54", M7 |-> "M5", M8 |-> "M9"],
   feed |-> 0, speed |-> 0, tool |-> 0, length |-> 0,
   system |-> store[0], offset |-> Zero, position |-> machine]

Initialize ==
  /\ pc = "idle" /\ Abort
  /\ reset' = "no" /\ mode' = IF mode = "ALARM" THEN mode ELSE "IDLE"
  /\ gc' = GcInit /\ queue' = <<>>
  /\ spindle' = <<"M5", 0>> /\ coolant' = "M9"
  /\ UNCHANGED <<store, machine, events, Parser>>

NextLine == pc = "idle" /\ reset = "no" /\ lines < MaxLines /\ lines' = lines + 1
Take(words, asJog) ==
  /\ pc' = "words" /\ line' = words /\ rest' = words /\ jogging' = asJog /\ block' = Blank
  /\ UNCHANGED <<mode, reset, queue, machine, syncing, events, Others>>

ReceiveLine == NextLine /\ mode \notin {"ALARM", "JOG"} /\ \E words \in Lines : Take(words, FALSE)
ReceiveJog == NextLine /\ mode \in {"IDLE", "JOG"} /\ \E words \in Jogs : Take(words, TRUE)

(* $C                                                                      *)
ToggleCheck ==
  /\ NextLine
  /\ \/ mode = "IDLE" /\ mode' = "CHECK" /\ UNCHANGED <<reset, machine, spindle, coolant>>
     \/ mode = "CHECK" /\ McReset /\ UNCHANGED mode
  /\ UNCHANGED <<gc, store, queue, pc, syncing, line, rest, jogging, block, events>>

(* $X                                                                      *)
KillAlarm ==
  /\ NextLine /\ mode = "ALARM" /\ mode' = "IDLE"
  /\ UNCHANGED <<reset, queue, machine, pc, syncing, line, rest, jogging, block, events, Others>>

----------------------------------------------------------------------------
(* The parser: STEP 1 and STEP 2, STEP 3.                                  *)

Done == pc' = "idle" /\ line' = {} /\ rest' = {} /\ jogging' = FALSE /\ block' = Blank
World == <<mode, reset, queue, machine, events, lines, syncing, Others>>

ImportWord ==
  /\ pc = "words"
  /\ \E w \in rest :
       /\ rest' = rest \ {w}
       /\ IF Refused(block, w) THEN pc' = "fail" /\ UNCHANGED block
          ELSE block' = Import(block, w) /\ UNCHANGED pc
  /\ UNCHANGED <<line, jogging, World>>

Fail == pc = "fail" /\ Done /\ UNCHANGED World

Prepared(b) ==
  [modal |-> Modal(b), nonmodal |-> Word(b, "G0"), axis |-> AxisExecuted(b),
   flow |-> IF Word(b, "M4") = "M1" THEN "none" ELSE Word(b, "M4"),
   feed |-> Feed(b), speed |-> IF Has(b, "S") THEN b.values["S"] ELSE gc.speed,
   tool |-> ValueOf(b, "T"), words |-> [a \in AxisWords(b) |-> AxisValue(b, a)],
   xyz |-> IF Word(b, "G0") = "G92" THEN Offset(b) ELSE Target(b),
   system |-> System(b), limited |-> FALSE,
   index |-> IF Word(b, "G0") = "G10" THEN Index(b) ELSE 0,
   ijk |-> IF Word(b, "G0") = "G10" THEN SystemData(b)
           ELSE IF Word(b, "G0") \in {"G28", "G30"} THEN Home(b) ELSE Zero,
   sets |-> Word(b, "G0") = "G10" /\ WordL(b) = 20]

CheckLine ==
  /\ pc = "words" /\ rest = {}
  /\ IF Error(block) THEN pc' = "fail" /\ UNCHANGED <<block, line, jogging>>
     ELSE /\ pc' = IF jogging THEN "jog" ELSE "speed"
          /\ block' = Prepared(block) /\ line' = {} /\ jogging' = FALSE
  /\ UNCHANGED <<rest, World>>

----------------------------------------------------------------------------
(* STEP 4: the order of execution. A step that synchronizes first is taken *)
(* once the synchronization is over.                                       *)

Step(at, next) ==
  /\ pc = at /\ ~syncing /\ reset # "locked"
  /\ Synchronizing => Settled
  /\ pc' = next
  /\ UNCHANGED <<mode, reset, store, events, lines, line, rest, jogging>>

Rpm(direction, speed) == IF direction = "M5" THEN <<"M5", 0>> ELSE <<direction, speed>>
(* spindle_sync and coolant_sync, once synchronized.                       *)
SetSpindle(direction, speed) ==
  spindle' = IF Check \/ Abort THEN spindle ELSE Rpm(direction, speed)
SetCoolant(state) == coolant' = IF Check \/ Abort THEN coolant ELSE state

(* Mutant: the new speed is only remembered.                               *)
SetSpeedLater ==
  /\ Step("speed", "spindle")
  /\ gc' = [gc EXCEPT !.modal.G5 = block.modal.G5, !.feed = block.feed, !.speed = block.speed]
  /\ UNCHANGED <<queue, machine, spindle, coolant, syncing, block>>

SetSpeed ==
  /\ Step("speed", "spindle")
  /\ gc' = [gc EXCEPT !.modal.G5 = block.modal.G5, !.feed = block.feed, !.speed = block.speed]
  /\ IF gc.speed # block.speed /\ gc.modal.M7 # "M5"
     THEN SetSpindle(gc.modal.M7, block.speed) ELSE UNCHANGED spindle
  /\ UNCHANGED <<queue, machine, coolant, syncing, block>>

SpindleControl ==
  /\ Step("spindle", "coolant")
  /\ gc' = [gc EXCEPT !.tool = block.tool, !.modal.M7 = block.modal.M7]
  /\ IF gc.modal.M7 # block.modal.M7
     THEN SetSpindle(block.modal.M7, block.speed) ELSE UNCHANGED spindle
  /\ UNCHANGED <<queue, machine, coolant, syncing, block>>

CoolantControl ==
  /\ Step("coolant", "dwell")
  /\ gc' = [gc EXCEPT !.modal.M8 = block.modal.M8]
  /\ IF gc.modal.M8 # block.modal.M8 THEN SetCoolant(block.modal.M8) ELSE UNCHANGED coolant
  /\ UNCHANGED <<queue, machine, spindle, syncing, block>>

Dwell ==
  /\ Step("dwell", "length")
  /\ gc' = [gc EXCEPT !.modal.G2 = block.modal.G2, !.modal.G6 = block.modal.G6]
  /\ UNCHANGED <<queue, machine, spindle, coolant, syncing, block>>

(* system_flag_wco_change synchronizes after the assignment.               *)
EndSync ==
  /\ syncing /\ Settled /\ reset \in {"no", "abort"} /\ syncing' = FALSE
  /\ UNCHANGED <<mode, reset, queue, machine, events, lines, line, rest, jogging, pc, block, Others>>

ToolLength ==
  LET length == IF block.modal.G8 = "G49" THEN 0 ELSE block.xyz[ToolAxis]
  IN  /\ Step("length", "select")
      /\ IF block.axis = "length"
         THEN /\ gc' = [gc EXCEPT !.modal.G8 = block.modal.G8, !.length = length]
              /\ syncing' = (gc.length # length)
         ELSE UNCHANGED <<gc, syncing>>
      /\ UNCHANGED <<queue, machine, spindle, coolant, block>>

SelectSystem ==
  /\ Step("select", "nonmodal")
  /\ syncing' = (gc.modal.G12 # block.modal.G12)
  /\ gc' = [gc EXCEPT !.modal.G12 = block.modal.G12, !.modal.G3 = block.modal.G3,
                      !.system = IF syncing' THEN block.system ELSE @]
  /\ UNCHANGED <<queue, machine, spindle, coolant, block>>

(* Mutant: a G10 does not update the system in force.                      *)
WrittenApart == gc
Written ==
  IF SystemOf(gc.modal.G12) = block.index THEN [gc EXCEPT !.system = block.ijk] ELSE gc

(* settings_write_coord_data synchronizes before it writes.                *)
NonModal ==
  /\ pc = "nonmodal" /\ ~syncing
  /\ Synchronizing => Settled
  /\ UNCHANGED <<mode, reset, events, lines, line, rest, jogging, queue, machine, spindle,
                 coolant, block>>
  /\ pc' = IF block.nonmodal \notin {"G28", "G30"} THEN "motion"
           ELSE IF block.axis = "none" THEN "home" ELSE "intermediate"
  /\ syncing' = (block.nonmodal \in {"G92", "G92.1"}
                   \/ (block.nonmodal = "G10" /\ SystemOf(gc.modal.G12) = block.index))
  /\ store' = CASE block.nonmodal = "G10" -> [store EXCEPT ![block.index] = block.ijk]
                [] block.nonmodal \in {"G28.1", "G30.1"} ->
                     [store EXCEPT ![HomeOf(block.nonmodal)] = gc.position]
                [] OTHER -> store
  /\ gc' = CASE block.nonmodal = "G10"   -> Written
             [] block.nonmodal = "G92"   -> [gc EXCEPT !.offset = block.xyz]
             [] block.nonmodal = "G92.1" -> [gc EXCEPT !.offset = Zero]
             [] OTHER                    -> gc

(* mc_line: limits_soft_check, then a place in the queue.                  *)
Outside(target) == \E a \in Axes : target[a] \notin Travel
Limited(target) == mode # "JOG" /\ Outside(target) /\ ~block.limited

Plan(target) ==
  /\ ~Limited(target)
  /\ IF Check \/ Abort THEN UNCHANGED queue
     ELSE /\ reset = "no" /\ Len(queue) < BlockBuffer
          /\ queue' = IF target = PlanEnd THEN queue ELSE Append(queue, target)

Executes == block.axis = "motion"
Probing == Executes /\ block.modal.G1 \in Probes

(* The cycle is held and everything reset; then only a reset helps.        *)
SoftLimit ==
  /\ \/ pc = "intermediate" /\ Limited(block.xyz)
     \/ pc = "home" /\ Limited(block.ijk)
     \/ /\ pc = "motion" /\ Executes /\ Limited(block.xyz)
        /\ Probing => Settled /\ ~Abort /\ ~Check
  /\ reset # "locked" /\ ~syncing
  /\ block' = [block EXCEPT !.limited = TRUE]
  /\ reset' = "locked" /\ mode' = "ALARM"
  /\ machine' \in Cut /\ queue' = <<>>
  /\ spindle' = <<"M5", 0>> /\ coolant' = "M9"
  /\ UNCHANGED <<gc, store, pc, syncing, line, rest, jogging, lines, events>>

Intermediate ==
  /\ Step("intermediate", "home") /\ Plan(block.xyz)
  /\ block' = [block EXCEPT !.limited = FALSE]
  /\ UNCHANGED <<gc, machine, spindle, coolant, syncing>>

(* Mutant: the parser is left at the intermediate point.                   *)
ArrivesShort == block.xyz
Arrives == block.ijk

GoHome ==
  /\ Step("home", "motion") /\ Plan(block.ijk)
  /\ gc' = [gc EXCEPT !.position = Arrives]
  /\ block' = [block EXCEPT !.limited = FALSE]
  /\ UNCHANGED <<machine, spindle, coolant, syncing>>

(* G0 to G3; the segments of an arc are taken together.                    *)
Motion ==
  /\ Step("motion", "flow")
  /\ ~Probing
  /\ IF Executes
     THEN Plan(block.xyz) /\ gc' = [gc EXCEPT !.modal.G1 = block.modal.G1, !.position = block.xyz]
     ELSE UNCHANGED queue /\ gc' = [gc EXCEPT !.modal.G1 = block.modal.G1]
  /\ UNCHANGED <<machine, spindle, coolant, syncing, block>>

(* mc_probe_cycle: without motion in check mode, after an abort and on a   *)
(* probe in contact; else the motion starts.                               *)
StartProbe ==
  /\ pc = "motion" /\ ~syncing /\ Probing /\ (Settled \/ Check)
  /\ \/ /\ Check \/ Abort
        /\ pc' = "flow" /\ UNCHANGED <<mode, queue>>
        /\ gc' = [gc EXCEPT !.modal.G1 = block.modal.G1,
                            !.position = IF Check THEN block.xyz ELSE @]
     \/ /\ ~Check /\ ~Abort
        /\ pc' = "flow" /\ mode' = "ALARM" /\ UNCHANGED queue
        /\ gc' = [gc EXCEPT !.modal.G1 = block.modal.G1]
     \/ /\ ~Check /\ ~Abort /\ ~Limited(block.xyz)
        /\ pc' = "probing" /\ mode' = "CYCLE" /\ queue' = <<block.xyz>>
        /\ gc' = [gc EXCEPT !.modal.G1 = block.modal.G1]
  /\ UNCHANGED <<reset, store, machine, spindle, coolant, syncing, line, rest, jogging, block,
                 lines, events>>

(* Contact, the end of travel without it, or an abort.                     *)
EndProbe ==
  /\ pc = "probing" /\ pc' = "flow"
  /\ \/ /\ reset = "no" /\ mode = "CYCLE" /\ machine' \in Cut
        /\ mode' = "IDLE" /\ queue' = <<>> /\ gc' = [gc EXCEPT !.position = machine']
     \/ /\ reset = "no" /\ mode = "IDLE"
        /\ mode' = IF block.modal.G1 \in {"G38.2", "G38.4"} THEN "ALARM" ELSE mode
        /\ gc' = [gc EXCEPT !.position = block.xyz] /\ UNCHANGED <<queue, machine>>
     \/ Abort /\ UNCHANGED <<mode, queue, machine, gc>>
  /\ UNCHANGED <<reset, store, spindle, coolant, syncing, line, rest, jogging, block, lines, events>>

(* The program end stops the spindle and the coolant after a further       *)
(* synchronization.                                                        *)
ProgramFlow ==
  /\ pc = "flow" /\ reset # "locked" /\ ~syncing
  /\ Synchronizing => Settled
  /\ UNCHANGED <<reset, store, queue, machine, spindle, coolant, lines, events>>
  /\ \/ /\ \/ block.flow = "none"
           \/ block.flow = "M0" /\ (Abort \/ mode # "IDLE")
        /\ Done /\ UNCHANGED <<mode, gc, syncing>>
     \/ /\ block.flow = "M0" /\ ~Abort /\ mode = "IDLE"
        /\ mode' = "HOLD" /\ pc' = "paused"
        /\ UNCHANGED <<gc, syncing, line, rest, jogging, block>>
     \/ /\ block.flow \in {"M2", "M30"}
        /\ gc' = [gc EXCEPT !.modal = [@ EXCEPT !.G1 = "G1", !.G2 = "G17", !.G3 = "G90",
                                                !.G5 = "G94", !.G12 = "G54", !.M7 = "M5",
                                                !.M8 = "M9"],
                            !.system = IF Check THEN @ ELSE store[0]]
        /\ syncing' = ~Check /\ pc' = "end" /\ UNCHANGED <<mode, line, rest, jogging, block>>

EndProgram ==
  /\ pc = "end" /\ ~syncing /\ Done
  /\ SetSpindle("M5", 0) /\ SetCoolant("M9")
  /\ UNCHANGED <<mode, reset, gc, store, queue, machine, syncing, lines, events>>

(* The cycle start that ends a pause, or an abort.                         *)
Resume ==
  /\ pc = "paused" /\ reset \in {"no", "abort"} /\ Done
  /\ mode' = IF Abort THEN mode ELSE "IDLE"
  /\ UNCHANGED <<reset, queue, machine, syncing, lines, events, Others>>

(* jog_execute: the travel check, mc_line and the start of the jog.        *)
ExecuteJog ==
  /\ pc = "jog"
  /\ IF Outside(block.xyz) THEN pc' = "fail" /\ UNCHANGED <<mode, queue, gc>>
     ELSE /\ (Abort \/ (reset = "no" /\ Len(queue) < BlockBuffer))
          /\ queue' = IF Abort \/ block.xyz = PlanEnd THEN queue ELSE Append(queue, block.xyz)
          /\ mode' = IF mode = "IDLE" /\ queue' # <<>> THEN "JOG" ELSE mode
          /\ gc' = [gc EXCEPT !.position = block.xyz]
          /\ pc' = "flow"
  /\ UNCHANGED <<reset, store, machine, spindle, coolant, syncing, line, rest, jogging, block,
                 lines, events>>

----------------------------------------------------------------------------
Realtime == Start \/ Move \/ EndCycle \/ Reset \/ TakeReset \/ Unlock \/ JogCancel \/ ToggleCoolant
MainLoop == Initialize \/ ReceiveLine \/ ReceiveJog \/ ToggleCheck \/ KillAlarm
Parse == ImportWord \/ Fail \/ CheckLine
Execute ==
  \/ SetSpeed \/ SpindleControl \/ CoolantControl \/ Dwell \/ EndSync \/ ToolLength \/ SelectSystem
  \/ NonModal \/ SoftLimit \/ Intermediate \/ GoHome \/ Motion \/ StartProbe \/ EndProbe
  \/ ProgramFlow \/ EndProgram \/ Resume \/ ExecuteJog

Next == Realtime \/ MainLoop \/ Parse \/ Execute
Spec == Init /\ [][Next]_vars

----------------------------------------------------------------------------
(* The state is of its type, and a target planned is within the limits.    *)
TypeOK ==
  /\ mode \in {"IDLE", "CYCLE", "JOG", "HOLD", "ALARM", "CHECK"}
  /\ reset \in {"no", "asked", "cut", "locked", "abort"}
  /\ store \in [Stored -> Vector]
  /\ {gc.system, gc.offset, gc.position} \subseteq Vector
  /\ \A g \in ModalGroups : gc.modal[g] \in Groups[g]
  /\ machine \in [Axes -> Travel] /\ queue \in Seq([Axes -> Travel]) /\ Len(queue) <= BlockBuffer
  /\ spindle \in {<<"M5", 0>>} \cup ({"M3", "M4"} \X Nat) /\ coolant \in Groups.M8

(* A line is taken for what its words are, in whatever order they come:    *)
(* refused if and only if a word is unsupported or negative, two are of a  *)
(* group or a letter, or two would use the axis words; else each command   *)
(* and each value is known (gc_execute_line, STEP 2).                      *)
Legal(words) ==
  LET commands == {w \in words : w.letter = "command"}
      values == words \ commands
  IN  /\ \A w \in commands : Supported(w.name)
      /\ \A g \in DOMAIN Groups : Cardinality({w \in commands : w.name \in Groups[g]}) <= 1
      /\ Cardinality({w \in commands : AxisCommand(w.name) # "none"}) <= 1
      /\ \A l \in ValueLetters : Cardinality({w \in values : w.letter = l}) <= 1
      /\ \A w \in values : /\ w.letter \in ValueLetters
                           /\ w.letter \in NotNegative => w.value >= 0
                           /\ w.letter = "T" => w.value <= MaxToolNumber
ParsedAsWritten ==
  LET words == line \ rest IN
  /\ pc = "words" =>
       /\ Legal(words)
       /\ \A w \in words : IF w.letter = "command" THEN block.commands[GroupOf(w.name)] = w.name
                           ELSE block.values[w.letter] = w.value
       /\ Cardinality(DOMAIN block.commands) + Cardinality(DOMAIN block.values) = Cardinality(words)
  /\ pc = "fail" /\ line # {} => (~Legal(words) \/ rest = {})

AtRest == pc = "idle" /\ reset = "no" /\ mode # "CHECK"

(* Between lines the parser's coordinate system is the stored one it has   *)
(* selected, whatever wrote it (G10, G54 to G59, M30, a reset).            *)
CoordinatesCoherent == AtRest => gc.system = store[SystemOf(gc.modal.G12)]

(* Between lines the parser's position is where the plan ends: the end of  *)
(* the last block, or of the motion that a cancel or a reset cut.          *)
PositionsAgree == AtRest => gc.position = PlanEnd

(* Between lines the spindle turns as the modal state says, at its speed   *)
(* (spindle_sync, M30, mc_reset).                                          *)
SpindleAsCommanded == AtRest => spindle = Rpm(gc.modal.M7, gc.speed)

(* After a move of G0 or G1 in absolute distance, a G92 or a G10 L20 of    *)
(* the active system, the work position (report.c: MPos - WCO) of each     *)
(* axis named is the value programmed, also when the line selects another  *)
(* system or units.                                                        *)
WorkPosition(g, a) ==
  g.position[a] - g.system[a] - g.offset[a] - (IF a = ToolAxis THEN g.length ELSE 0)
Programs ==
  /\ pc = "flow" /\ block.flow \in {"none", "M0"} /\ ~Abort
  /\ \/ /\ block.nonmodal = "none" /\ Executes /\ block.modal.G3 = "G90"
        /\ block.modal.G1 \in {"G0", "G1"}
     \/ block.nonmodal = "G92"
     \/ block.sets /\ SystemOf(gc.modal.G12) = block.index
WorkPositionAsProgrammed ==
  Programs => \A a \in DOMAIN block.words : WorkPosition(gc, a) = block.words[a]

(* protocol.c:464, "Since coolant state always performs a planner sync     *)
(* whenever it changes, the current run state can be determined by         *)
(* checking the parser state": a toggle executed in the synchronization of *)
(* the program end is undone in the output alone.                          *)
CoolantAsCommanded == AtRest => coolant = gc.modal.M8

(* gcode.c, of a jog: "Feed rate word and axis word checks have already    *)
(* been performed in STEP 3": a jog moves only the axes it names. A jog    *)
(* that names none goes to the machine zero.                               *)
JogMovesItsAxes ==
  [][pc = "jog" /\ pc' = "flow"
       => \A a \in Axes \ DOMAIN block.words : gc'.position[a] = gc.position[a]]_vars
================================================================================
