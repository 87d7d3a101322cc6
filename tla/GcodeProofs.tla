------------------------------ MODULE GcodeProofs ------------------------------
(* Between lines the parser agrees with the store, the spindle and the     *)
(* plan (IInv); a line is taken for the words it holds (ParseInv); and the *)
(* work position becomes what the words say (WorkInv): for any lines and   *)
(* jogs, coordinate systems, limits and buffers.                           *)
EXTENDS Gcode, TLAPS, FiniteSetTheorems

GcFields == {"modal", "feed", "speed", "tool", "length", "system", "offset", "position"}
ImportFields == {"commands", "values", "axis"}
BlockFields ==
  {"modal", "nonmodal", "axis", "flow", "feed", "speed", "tool", "words", "xyz", "system", "limited",
   "index", "ijk", "sets"}

(* The points of STEP 4, those before the coordinate system is selected    *)
(* first.                                                                  *)
Selecting == {"speed", "spindle", "coolant", "dwell", "length", "select"}
Executing ==
  Selecting \cup {"nonmodal", "intermediate", "home", "motion", "probing", "flow", "end", "paused", "jog"}

Shapes ==
  /\ DOMAIN gc = GcFields /\ DOMAIN gc.modal = ModalGroups /\ DOMAIN store = Stored
  /\ pc \in Executing \cup {"idle", "words", "fail"}
  /\ pc = "words" => DOMAIN block = ImportFields
  /\ pc \in Executing => DOMAIN block = BlockFields

(* A coordinate system there is; a line names no other.                    *)
Selectable(name) == name \in Groups.G12 /\ SystemOf(name) \in 0..(N_COORDINATE_SYSTEM - 1)
Words ==
  /\ pc = "words" => rest \subseteq line /\ line \in Lines \cup Jogs
  /\ pc = "words" /\ "G12" \in DOMAIN block.commands => Selectable(block.commands["G12"])

Modes ==
  /\ pc = "paused" => mode # "CHECK"
  /\ pc = "probing" => mode \in {"CYCLE", "IDLE", "ALARM"}

Queued == \E targets : queue \in Seq(targets)

(* The parser is of no account in check mode, which ends in a reset, and   *)
(* while a reset is on its way to the initialization.                      *)
NoAccount == mode = "CHECK" \/ reset # "no"

(* A line that selects a coordinate system carries what is stored of it,   *)
(* and nothing is stored before it is selected.                            *)
Coherent ==
  /\ Selectable(gc.modal.G12)
  /\ pc \in Selecting =>
       /\ Selectable(block.modal.G12)
       /\ block.modal.G12 # gc.modal.G12 => block.system = store[SystemOf(block.modal.G12)]
  /\ NoAccount \/ gc.system = store[SystemOf(gc.modal.G12)]

(* The program end has reset the modal state, but not stopped the spindle. *)
Turning ==
  /\ NoAccount \/ pc = "end" \/ spindle = Rpm(gc.modal.M7, gc.speed)
  /\ pc = "spindle" => block.speed = gc.speed
  /\ pc = "end" => gc.modal.M7 = "M5"

(* G28 takes the position after its second motion, a probe when it ends.   *)
Positioned ==
  /\ NoAccount \/ pc \in {"home", "probing"} \/ gc.position = PlanEnd
  /\ NoAccount \/ pc # "probing" \/ PlanEnd = block.xyz

IInv == Shapes /\ Words /\ Modes /\ Queued /\ Coherent /\ Turning /\ Positioned

----------------------------------------------------------------------------
LEMMA Systems ==
  /\ Selectable("G54") /\ SystemOf("G54") = 0
  /\ \A name : Selectable(name) => SystemOf(name) \in Stored
<1>1. SystemOf("G54") = 0
  <2>1. \A i \in 0..5 : "G54" = <<"G54", "G55", "G56", "G57", "G58", "G59">>[i + 1] => i = 0
    OBVIOUS
  <2>2. "G54" = <<"G54", "G55", "G56", "G57", "G58", "G59">>[0 + 1]
    OBVIOUS
  <2> QED
    BY <2>1, <2>2 DEF SystemOf
<1>2. Selectable("G54")
  BY <1>1, GcodeAssumption DEF Selectable, Groups
<1>3. \A name : Selectable(name) => SystemOf(name) \in Stored
  BY GcodeAssumption DEF Selectable, Stored, IndexG30
<1> QED
  BY <1>1, <1>2, <1>3

LEMMA LineSystems ==
  \A words \in Lines \cup Jogs : \A w \in words : w.name \in Groups.G12 => Selectable(w.name)
<1> SUFFICES ASSUME NEW words \in Lines \cup Jogs, NEW w \in words, w.name \in Groups.G12
             PROVE  SystemOf(w.name) \in 0..(N_COORDINATE_SYSTEM - 1)
  BY DEF Selectable
<1>1. SystemOf(w.name) < N_COORDINATE_SYSTEM /\ N_COORDINATE_SYSTEM \in 1..6
  BY GcodeAssumption
<1>2. SystemOf(w.name) \in 0..5
  <2>1. \E i \in 0..5 : w.name = <<"G54", "G55", "G56", "G57", "G58", "G59">>[i + 1]
    <3>1. w.name \in {"G54", "G55", "G56", "G57", "G58", "G59"}
      BY DEF Groups
    <3>2. /\ "G54" = <<"G54", "G55", "G56", "G57", "G58", "G59">>[0 + 1]
          /\ "G55" = <<"G54", "G55", "G56", "G57", "G58", "G59">>[1 + 1]
          /\ "G56" = <<"G54", "G55", "G56", "G57", "G58", "G59">>[2 + 1]
          /\ "G57" = <<"G54", "G55", "G56", "G57", "G58", "G59">>[3 + 1]
          /\ "G58" = <<"G54", "G55", "G56", "G57", "G58", "G59">>[4 + 1]
          /\ "G59" = <<"G54", "G55", "G56", "G57", "G58", "G59">>[5 + 1]
      OBVIOUS
    <3>3. 0 \in 0..5 /\ 1 \in 0..5 /\ 2 \in 0..5 /\ 3 \in 0..5 /\ 4 \in 0..5 /\ 5 \in 0..5
      OBVIOUS
    <3> QED
      BY <3>1, <3>2, <3>3
  <2> QED
    BY <2>1 DEF SystemOf
<1> QED
  BY <1>1, <1>2

(* The plan ends where the last target is, whether it needed a block.      *)
LEMMA PlanEnds ==
  ASSUME Queued, machine' = machine, NEW target,
         queue' = IF target = PlanEnd THEN queue ELSE Append(queue, target)
  PROVE  Queued' /\ PlanEnd' = target
<1>1. CASE target = PlanEnd
  BY <1>1 DEF Queued, PlanEnd
<1>2. CASE target # PlanEnd
  <2>1. PICK targets : queue \in Seq(targets)
    BY DEF Queued
  <2>2. queue \in Seq(targets \cup {target}) /\ queue' = Append(queue, target)
    BY <1>2, <2>1
  <2>3. queue' \in Seq(targets \cup {target}) /\ queue' # <<>> /\ queue'[Len(queue')] = target
    BY <2>2
  <2> QED
    BY <2>3 DEF Queued, PlanEnd
<1> QED
  BY <1>1, <1>2

(* What a step leaves alone if it touches neither words nor coordinates.   *)
LEMMA PlanKept ==
  ASSUME Queued, UNCHANGED <<queue, machine>> PROVE Queued' /\ PlanEnd' = PlanEnd
BY DEF Queued, PlanEnd
LEMMA PlanDropped ==
  ASSUME queue' = <<>> PROVE Queued' /\ PlanEnd' = machine'
<1>1. queue' \in Seq({})
  OBVIOUS
<1> QED
  BY <1>1 DEF Queued, PlanEnd

LEMMA Initial == Init => IInv
<1> SUFFICES ASSUME Init PROVE IInv
  OBVIOUS
<1>1. Shapes /\ Words /\ Modes
  BY DEF Init, Shapes, GcFields, ModalGroups, Words, Modes, Executing, Selecting
<1>2. Queued /\ PlanEnd = machine
  <2>1. queue \in Seq({})
    BY DEF Init
  <2> QED
    BY <2>1 DEF Queued, PlanEnd, Init
<1>3. Coherent
  BY Systems DEF Init, Coherent, NoAccount, Selecting, Stored
<1>4. Turning /\ Positioned
  BY <1>2 DEF Init, Turning, Positioned, NoAccount, Rpm
<1> QED
  BY <1>1, <1>2, <1>3, <1>4 DEF IInv

----------------------------------------------------------------------------
(* What runs besides the parser.                                           *)

(* What leaves the parser and the plan alone and takes no mode out of its  *)
(* account.                                                                *)
LEMMA Aside ==
  ASSUME IInv, UNCHANGED <<gc, store, queue, pc, rest, line, block>>, NoAccount => NoAccount',
         Modes', machine' = machine \/ NoAccount', spindle' = spindle \/ NoAccount'
  PROVE  IInv'
<1>1. Shapes' /\ Words' /\ Queued'
  BY DEF IInv, Shapes, Words, Queued
<1>2. Coherent' /\ Turning'
  BY DEF IInv, Coherent, Turning, Rpm
<1>3. Positioned'
  BY DEF IInv, Positioned, PlanEnd
<1> QED
  BY <1>1, <1>2, <1>3 DEF IInv

LEMMA StatesKeep ==
  IInv /\ (Start \/ EndCycle \/ Reset \/ TakeReset \/ Unlock \/ ToggleCheck \/ KillAlarm) => IInv'
<1> SUFFICES ASSUME IInv, Start \/ EndCycle \/ Reset \/ TakeReset \/ Unlock \/ ToggleCheck \/ KillAlarm
             PROVE  IInv'
  OBVIOUS
<1> USE DEF Parser, Others, McReset, NextLine
<1>1. UNCHANGED <<gc, store, queue, pc, rest, line, block>>
  BY DEF Start, EndCycle, Reset, TakeReset, Unlock, ToggleCheck, KillAlarm
<1>2. NoAccount => NoAccount'
  BY DEF NoAccount, Start, EndCycle, Reset, TakeReset, Unlock, ToggleCheck, KillAlarm
<1>3. Modes'
  BY DEF IInv, Modes, Start, EndCycle, Reset, TakeReset, Unlock, ToggleCheck, KillAlarm
<1>4. (machine' = machine \/ NoAccount') /\ (spindle' = spindle \/ NoAccount')
  BY DEF NoAccount, Start, EndCycle, Reset, TakeReset, Unlock, ToggleCheck, KillAlarm
<1> QED
  BY <1>1, <1>2, <1>3, <1>4, Aside

(* A block that is done takes the machine to where the plan went.          *)
LEMMA MoveKeeps == IInv /\ Move => IInv'
<1> SUFFICES ASSUME IInv, Move PROVE IInv'
  OBVIOUS
<1> USE DEF Parser, Others
<1>1. Queued' /\ PlanEnd' = PlanEnd
  <2>1. PICK targets : queue \in Seq(targets)
    BY DEF IInv, Queued
  <2>2. queue # <<>> /\ queue' = Tail(queue) /\ machine' = Head(queue)
    BY DEF Move
  <2>3. queue' \in Seq(targets)
    BY <2>1, <2>2
  <2>4. CASE Len(queue) = 1
    <3>1. queue' = <<>> /\ machine' = queue[Len(queue)]
      BY <2>1, <2>2, <2>4
    <3> QED
      BY <2>2, <2>3, <3>1 DEF Queued, PlanEnd
  <2>5. CASE Len(queue) # 1
    <3>1. Len(queue) \in Nat /\ Len(queue) > 1
      <4>1. Len(queue) \in Nat /\ Len(queue) # 0
        BY <2>1, <2>2
      <4>2. \A n \in Nat : n # 0 /\ n # 1 => n > 1
        OBVIOUS
      <4> QED
        BY <2>5, <4>1, <4>2
    <3>2. Len(queue') = Len(queue) - 1 /\ \A i \in 1..(Len(queue) - 1) : queue'[i] = queue[i + 1]
      BY <2>1, <2>2
    <3>3. queue'[Len(queue')] = queue[Len(queue)]
      <4>1. Len(queue) - 1 \in 1..(Len(queue) - 1) /\ Len(queue) - 1 + 1 = Len(queue)
        BY <3>1
      <4> QED
        BY <3>2, <4>1
    <3>4. queue' # <<>>
      <4>1. Len(<<>>) = 0 /\ Len(queue') # 0
        BY <3>1, <3>2
      <4> QED
        BY <4>1
    <3> QED
      BY <2>2, <2>3, <3>3, <3>4 DEF Queued, PlanEnd
  <2> QED
    BY <2>4, <2>5
<1>2. Shapes' /\ Words' /\ Modes'
  BY DEF IInv, Shapes, Words, Modes, Move
<1>3. Coherent' /\ Turning'
  BY DEF IInv, Coherent, Turning, NoAccount, Rpm, Move
<1>4. Positioned'
  BY <1>1 DEF IInv, Positioned, NoAccount, Move
<1> QED
  BY <1>1, <1>2, <1>3, <1>4 DEF IInv

LEMMA JogCancelKeeps == IInv /\ JogCancel => IInv'
<1> SUFFICES ASSUME IInv, JogCancel PROVE IInv'
  OBVIOUS
<1> USE DEF Parser
<1>1. /\ queue' = <<>> /\ mode = "JOG" /\ gc' = [gc EXCEPT !.position = machine']
      /\ UNCHANGED <<store, pc, line, rest, block, spindle, reset>>
      /\ mode' = "IDLE"
  BY DEF JogCancel, Cancelled
<1>2. DOMAIN gc = GcFields
  BY DEF IInv, Shapes
<1>3. /\ gc'.modal = gc.modal /\ gc'.system = gc.system /\ gc'.speed = gc.speed
      /\ gc'.position = machine' /\ DOMAIN gc' = GcFields
  BY <1>1, <1>2 DEF GcFields
<1>4. Queued' /\ PlanEnd' = machine'
  BY <1>1, PlanDropped
<1>5. Shapes' /\ Words' /\ Modes'
  BY <1>1, <1>3 DEF IInv, Shapes, Words, Modes
<1>6. Coherent' /\ Turning'
  BY <1>1, <1>3 DEF IInv, Coherent, Turning, NoAccount, Rpm
<1>7. Positioned'
  BY <1>1, <1>3, <1>4 DEF IInv, Modes, Positioned
<1> QED
  BY <1>4, <1>5, <1>6, <1>7 DEF IInv

LEMMA ToggleCoolantKeeps == IInv /\ ToggleCoolant => IInv'
<1> SUFFICES ASSUME IInv, ToggleCoolant PROVE IInv'
  OBVIOUS
<1> USE DEF Parser
<1>1. /\ UNCHANGED <<mode, reset, store, queue, machine, spindle, pc, line, rest, block>>
      /\ gc' = [gc EXCEPT !.modal.M8 = coolant']
  BY DEF ToggleCoolant
<1>2. DOMAIN gc = GcFields /\ DOMAIN gc.modal = ModalGroups
  BY DEF IInv, Shapes
<1>3. /\ gc'.modal = [gc.modal EXCEPT !.M8 = coolant'] /\ DOMAIN gc' = GcFields
      /\ gc'.system = gc.system /\ gc'.speed = gc.speed /\ gc'.position = gc.position
  BY <1>1, <1>2 DEF GcFields
<1>4. gc'.modal.G12 = gc.modal.G12 /\ gc'.modal.M7 = gc.modal.M7 /\ DOMAIN gc'.modal = ModalGroups
  BY <1>2, <1>3 DEF ModalGroups
<1>5. Queued' /\ PlanEnd' = PlanEnd
  BY <1>1, PlanKept DEF IInv
<1>6. Shapes' /\ Words' /\ Modes'
  BY <1>1, <1>3, <1>4 DEF IInv, Shapes, Words, Modes
<1>7. Coherent' /\ Turning'
  BY <1>1, <1>3, <1>4 DEF IInv, Coherent, Turning, NoAccount, Rpm
<1>8. Positioned'
  BY <1>1, <1>3, <1>5 DEF IInv, Positioned, NoAccount
<1> QED
  BY <1>5, <1>6, <1>7, <1>8 DEF IInv

(* The initialization sets the parser up from the store and the machine.   *)
LEMMA InitializeKeeps == IInv /\ Initialize => IInv'
<1> SUFFICES ASSUME IInv, Initialize PROVE IInv'
  OBVIOUS
<1> USE DEF Parser
<1>1. /\ pc = "idle" /\ queue' = <<>> /\ gc' = GcInit /\ spindle' = <<"M5", 0>>
      /\ UNCHANGED <<store, machine, pc, line, rest, block>>
  BY DEF Initialize
<1>2. /\ DOMAIN gc' = GcFields /\ DOMAIN gc'.modal = ModalGroups /\ gc'.modal.G12 = "G54"
      /\ gc'.modal.M7 = "M5" /\ gc'.system = store[0] /\ gc'.position = machine'
  BY <1>1 DEF GcInit, GcFields, ModalGroups
<1>3. Queued' /\ PlanEnd' = machine'
  BY <1>1, PlanDropped
<1>4. Shapes' /\ Words' /\ Modes'
  BY <1>1, <1>2 DEF IInv, Shapes, Words, Modes
<1>5. Coherent' /\ Turning' /\ Positioned'
  BY <1>1, <1>2, <1>3, Systems DEF Coherent, Turning, Positioned, Rpm, Selecting
<1> QED
  BY <1>3, <1>4, <1>5 DEF IInv

----------------------------------------------------------------------------
(* The import of a line.                                                   *)

(* A step of the import changes nothing but where the parser is.           *)
LEMMA Importing ==
  ASSUME IInv, UNCHANGED <<mode, reset, gc, store, queue, machine, spindle>>,
         pc' \in {"idle", "words", "fail"}, Shapes', Words', pc \notin {"home", "probing", "end"}
  PROVE  IInv'
<1>1. Queued' /\ PlanEnd' = PlanEnd
  BY PlanKept DEF IInv
<1>2. Modes' /\ Coherent' /\ Turning' /\ Positioned'
  BY <1>1 DEF IInv, Modes, Coherent, Turning, Positioned, NoAccount, Rpm, Selecting
<1> QED
  BY <1>1, <1>2 DEF IInv

LEMMA ReceiveKeeps == IInv /\ (ReceiveLine \/ ReceiveJog) => IInv'
<1> SUFFICES ASSUME IInv, ReceiveLine \/ ReceiveJog PROVE IInv'
  OBVIOUS
<1> USE DEF ReceiveLine, ReceiveJog, NextLine, Take, Others
<1>1. UNCHANGED <<mode, reset, gc, store, queue, machine, spindle>> /\ pc' = "words" /\ pc = "idle"
  OBVIOUS
<1>2. block' = Blank /\ rest' = line' /\ line' \in Lines \cup Jogs
  OBVIOUS
<1>3. Shapes' /\ Words'
  BY <1>1, <1>2 DEF IInv, Shapes, Words, Blank, ImportFields, Executing, Selecting
<1> QED
  BY <1>1, <1>3, Importing

LEMMA ImportWordKeeps == IInv /\ ImportWord => IInv'
<1> SUFFICES ASSUME IInv, ImportWord PROVE IInv'
  OBVIOUS
<1> USE DEF World, Others
<1>1. /\ UNCHANGED <<mode, reset, gc, store, queue, machine, spindle, line>> /\ pc = "words"
      /\ pc' \in {"words", "fail"} /\ rest' \subseteq rest
  BY DEF ImportWord
<1>2. PICK w \in rest : IF Refused(block, w) THEN pc' = "fail" /\ UNCHANGED block
                        ELSE block' = Import(block, w) /\ UNCHANGED pc
  BY DEF ImportWord
<1>3. CASE Refused(block, w)
  <2>1. Shapes' /\ Words'
    BY <1>1, <1>2, <1>3 DEF IInv, Shapes, Words, Executing, Selecting
  <2> QED
    BY <1>1, <2>1, Importing
<1>4. CASE ~Refused(block, w) /\ w.letter = "command"
  <2>1. /\ DOMAIN block' = ImportFields
        /\ block'.commands = Known(block.commands, GroupOf(w.name), w.name)
    BY <1>1, <1>2, <1>4 DEF IInv, Shapes, Import, ImportFields
  <2>2. w.name \in Groups[GroupOf(w.name)]
    BY <1>4 DEF Refused, RefusedCommand, Supported, GroupOf
  <2>3. w.name \in Groups.G12 => Selectable(w.name)
    BY <1>1, LineSystems DEF IInv, Words
  <2>4. "G12" \in DOMAIN block'.commands => Selectable(block'.commands["G12"])
    <3>1. CASE GroupOf(w.name) = "G12"
      BY <2>1, <2>2, <2>3, <3>1 DEF Known
    <3>2. CASE GroupOf(w.name) # "G12"
      BY <1>1, <2>1, <3>2 DEF IInv, Words, Known
    <3> QED
      BY <3>1, <3>2
  <2>5. Shapes' /\ Words'
    BY <1>1, <1>2, <1>4, <2>1, <2>4 DEF IInv, Shapes, Words, Executing, Selecting
  <2> QED
    BY <1>1, <2>5, Importing
<1>5. CASE ~Refused(block, w) /\ w.letter # "command"
  <2>1. DOMAIN block' = ImportFields /\ block'.commands = block.commands
    BY <1>1, <1>2, <1>5 DEF IInv, Shapes, Import, ImportFields
  <2>2. Shapes' /\ Words'
    BY <1>1, <1>2, <1>5, <2>1 DEF IInv, Shapes, Words, Executing, Selecting
  <2> QED
    BY <1>1, <2>2, Importing
<1> QED
  BY <1>3, <1>4, <1>5

LEMMA FailKeeps == IInv /\ Fail => IInv'
<1> SUFFICES ASSUME IInv, Fail PROVE IInv'
  OBVIOUS
<1> USE DEF Fail, Done, World, Others
<1>1. UNCHANGED <<mode, reset, gc, store, queue, machine, spindle>> /\ pc = "fail" /\ pc' = "idle"
  OBVIOUS
<1>2. Shapes' /\ Words'
  BY <1>1 DEF IInv, Shapes, Words, Executing, Selecting
<1> QED
  BY <1>1, <1>2, Importing

(* The block that STEP 3 prepares carries what is stored of the system it  *)
(* selects.                                                                *)
LEMMA CheckLineKeeps == IInv /\ CheckLine => IInv'
<1> SUFFICES ASSUME IInv, CheckLine PROVE IInv'
  OBVIOUS
<1> USE DEF World, Others
<1>1. UNCHANGED <<mode, reset, gc, store, queue, machine, spindle, rest>> /\ pc = "words"
  BY DEF CheckLine
<1>2. CASE Error(block)
  <2>1. pc' = "fail" /\ UNCHANGED <<block, line>>
    BY <1>2 DEF CheckLine
  <2>2. Shapes' /\ Words'
    BY <1>1, <2>1 DEF IInv, Shapes, Words, Executing, Selecting
  <2> QED
    BY <1>1, <2>1, <2>2, Importing
<1>3. CASE ~Error(block)
  <2>1. pc' \in {"jog", "speed"} /\ block' = Prepared(block)
    BY <1>3 DEF CheckLine
  <2>2. DOMAIN block' = BlockFields /\ block'.modal = Modal(block) /\ block'.system = System(block)
    BY <2>1 DEF Prepared, BlockFields
  <2>3. block'.modal.G12 = IF "G12" \in DOMAIN block.commands THEN block.commands["G12"]
                           ELSE gc.modal.G12
    <3>1. Modal(block)["G12"] = IF "G12" \in DOMAIN block.commands THEN block.commands["G12"]
                                ELSE gc.modal["G12"]
      BY DEF Modal, ModalGroups
    <3> QED
      BY <2>2, <3>1
  <2>4. Selectable(block'.modal.G12)
    BY <1>1, <2>3 DEF IInv, Words, Coherent
  <2>5. block'.modal.G12 # gc.modal.G12 => block'.system = store[SystemOf(block'.modal.G12)]
    BY <2>2 DEF System
  <2>6. Queued' /\ PlanEnd' = PlanEnd
    BY <1>1, PlanKept DEF IInv
  <2>7. Shapes' /\ Words' /\ Modes'
    BY <1>1, <2>1, <2>2 DEF IInv, Shapes, Words, Modes, Executing, Selecting
  <2>8. Coherent' /\ Turning' /\ Positioned'
    BY <1>1, <2>1, <2>4, <2>5, <2>6 DEF IInv, Coherent, Turning, Positioned, NoAccount, Rpm
  <2> QED
    BY <2>6, <2>7, <2>8 DEF IInv
<1> QED
  BY <1>2, <1>3

----------------------------------------------------------------------------
(* STEP 4. What a step that leaves a part of the invariant's state alone   *)
(* keeps of it.                                                            *)
LEMMA Placed ==
  ASSUME IInv, pc \in Executing, pc' \in (Executing \ {"paused", "probing"}) \cup {"idle"},
         DOMAIN gc' = GcFields, DOMAIN gc'.modal = ModalGroups, DOMAIN store' = Stored,
         DOMAIN block' = BlockFields \/ pc' = "idle"
  PROVE  Shapes' /\ Words' /\ Modes'
BY DEF Shapes, Words, Modes, Executing, Selecting

LEMMA CoherentKept ==
  ASSUME IInv, gc'.modal.G12 = gc.modal.G12, gc'.system = gc.system, UNCHANGED store,
         pc' \in Selecting => pc \in Selecting /\ UNCHANGED block, NoAccount => NoAccount'
  PROVE  Coherent'
BY DEF IInv, Coherent

LEMMA TurningKept ==
  ASSUME IInv, gc'.modal.M7 = gc.modal.M7, gc'.speed = gc.speed, UNCHANGED spindle,
         pc # "end", pc' \notin {"spindle", "end"}, NoAccount => NoAccount'
  PROVE  Turning'
BY DEF IInv, Turning, Rpm

LEMMA PositionedKept ==
  ASSUME IInv, gc'.position = gc.position, UNCHANGED <<queue, machine>>,
         pc \notin {"home", "probing"}, pc' # "probing", NoAccount => NoAccount'
  PROVE  Queued' /\ Positioned'
<1>1. Queued' /\ PlanEnd' = PlanEnd
  BY PlanKept DEF IInv
<1> QED
  BY <1>1 DEF IInv, Positioned

LEMMA SetSpeedKeeps == IInv /\ SetSpeed => IInv'
<1> SUFFICES ASSUME IInv, SetSpeed PROVE IInv'
  OBVIOUS
<1>1. /\ pc = "speed" /\ pc' = "spindle" /\ UNCHANGED <<mode, reset, store, queue, machine, block>>
      /\ gc' = [gc EXCEPT !.modal.G5 = block.modal.G5, !.feed = block.feed, !.speed = block.speed]
  BY DEF SetSpeed, Step
<1>2. /\ DOMAIN gc = GcFields /\ DOMAIN gc.modal = ModalGroups
      /\ DOMAIN store = Stored /\ DOMAIN block = BlockFields
  BY <1>1 DEF IInv, Shapes, Executing, Selecting
<1>3. /\ DOMAIN gc' = GcFields /\ DOMAIN gc'.modal = ModalGroups /\ gc'.modal.G12 = gc.modal.G12
      /\ gc'.modal.M7 = gc.modal.M7 /\ gc'.speed = block.speed
      /\ gc'.system = gc.system /\ gc'.position = gc.position
  BY <1>1, <1>2 DEF GcFields, ModalGroups
<1>4. Shapes' /\ Words' /\ Modes'
  BY <1>1, <1>2, <1>3, Placed DEF Executing, Selecting
<1>5. Coherent' /\ Queued' /\ Positioned'
  BY <1>1, <1>3, CoherentKept, PositionedKept DEF NoAccount, Selecting
<1>6. Turning'
  <2>1. NoAccount \/ spindle' = Rpm(gc.modal.M7, block.speed)
    <3>1. CASE gc.speed # block.speed /\ gc.modal.M7 # "M5"
      BY <3>1 DEF SetSpeed, SetSpindle, Check, Abort, NoAccount
    <3>2. CASE gc.speed = block.speed \/ gc.modal.M7 = "M5"
      BY <1>1, <3>2 DEF SetSpeed, IInv, Turning, Rpm
    <3> QED
      BY <3>1, <3>2
  <2> QED
    BY <1>1, <1>3, <2>1 DEF Turning, NoAccount, Rpm
<1> QED
  BY <1>4, <1>5, <1>6 DEF IInv

LEMMA SpindleControlKeeps == IInv /\ SpindleControl => IInv'
<1> SUFFICES ASSUME IInv, SpindleControl PROVE IInv'
  OBVIOUS
<1>1. /\ pc = "spindle" /\ pc' = "coolant" /\ UNCHANGED <<mode, reset, store, queue, machine, block>>
      /\ gc' = [gc EXCEPT !.tool = block.tool, !.modal.M7 = block.modal.M7]
  BY DEF SpindleControl, Step
<1>2. /\ DOMAIN gc = GcFields /\ DOMAIN gc.modal = ModalGroups
      /\ DOMAIN store = Stored /\ DOMAIN block = BlockFields
  BY <1>1 DEF IInv, Shapes, Executing, Selecting
<1>3. /\ DOMAIN gc' = GcFields /\ DOMAIN gc'.modal = ModalGroups /\ gc'.modal.G12 = gc.modal.G12
      /\ gc'.modal.M7 = block.modal.M7 /\ gc'.speed = gc.speed
      /\ gc'.system = gc.system /\ gc'.position = gc.position
  BY <1>1, <1>2 DEF GcFields, ModalGroups
<1>4. Shapes' /\ Words' /\ Modes'
  BY <1>1, <1>2, <1>3, Placed DEF Executing, Selecting
<1>5. Coherent' /\ Queued' /\ Positioned'
  BY <1>1, <1>3, CoherentKept, PositionedKept DEF NoAccount, Selecting
<1>6. Turning'
  <2>1. NoAccount \/ spindle' = Rpm(block.modal.M7, gc.speed)
    <3>1. block.speed = gc.speed
      BY <1>1 DEF IInv, Turning
    <3>2. CASE gc.modal.M7 # block.modal.M7
      BY <3>1, <3>2 DEF SpindleControl, SetSpindle, Check, Abort, NoAccount
    <3>3. CASE gc.modal.M7 = block.modal.M7
      BY <1>1, <3>3 DEF SpindleControl, IInv, Turning
    <3> QED
      BY <3>2, <3>3
  <2> QED
    BY <1>1, <1>3, <2>1 DEF Turning, NoAccount, Rpm
<1> QED
  BY <1>4, <1>5, <1>6 DEF IInv

(* Coolant, dwell and tool length touch neither spindle, coordinates nor   *)
(* position.                                                               *)
LEMMA ModesKeep == IInv /\ (CoolantControl \/ Dwell \/ ToolLength) => IInv'
<1> SUFFICES ASSUME IInv, CoolantControl \/ Dwell \/ ToolLength PROVE IInv'
  OBVIOUS
<1>1. /\ pc \in {"coolant", "dwell", "length"} /\ pc' \in {"dwell", "length", "select"}
      /\ UNCHANGED <<mode, reset, store, queue, machine, spindle, block>>
  BY DEF CoolantControl, Dwell, ToolLength, Step
<1>2. /\ DOMAIN gc = GcFields /\ DOMAIN gc.modal = ModalGroups
      /\ DOMAIN store = Stored /\ DOMAIN block = BlockFields
  BY <1>1 DEF IInv, Shapes, Executing, Selecting
<1>3. \/ gc' = [gc EXCEPT !.modal.M8 = block.modal.M8]
      \/ gc' = [gc EXCEPT !.modal.G2 = block.modal.G2, !.modal.G6 = block.modal.G6]
      \/ \E length : gc' = [gc EXCEPT !.modal.G8 = block.modal.G8, !.length = length]
      \/ gc' = gc
  BY DEF CoolantControl, Dwell, ToolLength
<1>4. /\ DOMAIN gc' = GcFields /\ DOMAIN gc'.modal = ModalGroups /\ gc'.modal.G12 = gc.modal.G12
      /\ gc'.modal.M7 = gc.modal.M7 /\ gc'.speed = gc.speed
      /\ gc'.system = gc.system /\ gc'.position = gc.position
  <2>1. CASE gc' = [gc EXCEPT !.modal.M8 = block.modal.M8]
    BY <1>2, <2>1 DEF GcFields, ModalGroups
  <2>2. CASE gc' = [gc EXCEPT !.modal.G2 = block.modal.G2, !.modal.G6 = block.modal.G6]
    BY <1>2, <2>2 DEF GcFields, ModalGroups
  <2>3. CASE \E length : gc' = [gc EXCEPT !.modal.G8 = block.modal.G8, !.length = length]
    BY <1>2, <2>3 DEF GcFields, ModalGroups
  <2> QED
    BY <1>2, <1>3, <2>1, <2>2, <2>3
<1>5. Shapes' /\ Words' /\ Modes'
  BY <1>1, <1>2, <1>4, Placed DEF Executing, Selecting
<1>6. Coherent' /\ Queued' /\ Positioned' /\ Turning'
  BY <1>1, <1>4, CoherentKept, PositionedKept, TurningKept DEF NoAccount, Selecting
<1> QED
  BY <1>5, <1>6 DEF IInv

LEMMA EndSyncKeeps == IInv /\ EndSync => IInv'
<1> SUFFICES ASSUME IInv, EndSync PROVE IInv'
  OBVIOUS
<1>1. UNCHANGED <<mode, reset, gc, store, queue, machine, spindle, pc, line, rest, block>>
  BY DEF EndSync, Others
<1> QED
  BY <1>1, Aside DEF NoAccount, IInv, Modes

LEMMA SelectSystemKeeps == IInv /\ SelectSystem => IInv'
<1> SUFFICES ASSUME IInv, SelectSystem PROVE IInv'
  OBVIOUS
<1>1. /\ pc = "select" /\ pc' = "nonmodal"
      /\ UNCHANGED <<mode, reset, store, queue, machine, spindle, block>>
      /\ syncing' = (gc.modal.G12 # block.modal.G12)
      /\ gc' = [gc EXCEPT !.modal.G12 = block.modal.G12, !.modal.G3 = block.modal.G3,
                          !.system = IF syncing' THEN block.system ELSE @]
  BY DEF SelectSystem, Step
<1>2. /\ DOMAIN gc = GcFields /\ DOMAIN gc.modal = ModalGroups
      /\ DOMAIN store = Stored /\ DOMAIN block = BlockFields
  BY <1>1 DEF IInv, Shapes, Executing, Selecting
<1>3. /\ DOMAIN gc' = GcFields /\ DOMAIN gc'.modal = ModalGroups /\ gc'.modal.G12 = block.modal.G12
      /\ gc'.modal.M7 = gc.modal.M7 /\ gc'.speed = gc.speed /\ gc'.position = gc.position
      /\ gc'.system = IF gc.modal.G12 # block.modal.G12 THEN block.system ELSE gc.system
  BY <1>1, <1>2 DEF GcFields, ModalGroups
<1>4. Shapes' /\ Words' /\ Modes'
  BY <1>1, <1>2, <1>3, Placed DEF Executing, Selecting
<1>5. Queued' /\ Positioned' /\ Turning'
  BY <1>1, <1>3, PositionedKept, TurningKept DEF NoAccount
<1>6. Coherent'
  <2>1. Selectable(block.modal.G12)
    BY <1>1 DEF IInv, Coherent, Selecting
  <2>2. CASE gc.modal.G12 # block.modal.G12
    <3>1. gc'.system = store'[SystemOf(gc'.modal.G12)]
      BY <1>1, <1>3, <2>2 DEF IInv, Coherent, Selecting
    <3> QED
      BY <1>1, <1>3, <2>1, <3>1 DEF Coherent, Selecting
  <2>3. CASE gc.modal.G12 = block.modal.G12
    BY <1>1, <1>3, <2>3, CoherentKept DEF NoAccount, Selecting
  <2> QED
    BY <2>2, <2>3
<1> QED
  BY <1>4, <1>5, <1>6 DEF IInv

(* What G10 writes of the system in force, it is in force with.            *)
LEMMA NonModalKeeps == IInv /\ NonModal => IInv'
<1> SUFFICES ASSUME IInv, NonModal PROVE IInv'
  OBVIOUS
<1>1. /\ pc = "nonmodal" /\ pc' \in {"motion", "home", "intermediate"}
      /\ UNCHANGED <<mode, reset, queue, machine, spindle, block>>
  BY DEF NonModal
<1>2. /\ DOMAIN gc = GcFields /\ DOMAIN gc.modal = ModalGroups
      /\ DOMAIN store = Stored /\ DOMAIN block = BlockFields
  BY <1>1 DEF IInv, Shapes, Executing, Selecting
<1>3. /\ DOMAIN gc' = GcFields /\ gc'.modal = gc.modal /\ gc'.speed = gc.speed
      /\ gc'.position = gc.position /\ DOMAIN store' = Stored
  <2>1. /\ \/ gc' = gc \/ gc' = [gc EXCEPT !.system = block.ijk]
           \/ gc' = [gc EXCEPT !.offset = block.xyz] \/ gc' = [gc EXCEPT !.offset = Zero]
        /\ \/ store' = store \/ store' = [store EXCEPT ![block.index] = block.ijk]
           \/ store' = [store EXCEPT ![HomeOf(block.nonmodal)] = gc.position]
    <3>1. CASE block.nonmodal = "G10"
      BY <3>1 DEF NonModal, Written
    <3>2. CASE block.nonmodal # "G10"
      BY <3>2 DEF NonModal
    <3> QED
      BY <3>1, <3>2
  <2> QED
    BY <1>2, <2>1 DEF GcFields
<1>4. Shapes' /\ Words' /\ Modes'
  BY <1>1, <1>2, <1>3, Placed DEF Executing, Selecting
<1>5. Queued' /\ Positioned' /\ Turning'
  BY <1>1, <1>3, PositionedKept, TurningKept DEF NoAccount
<1>6. Coherent'
  <2>1. Selectable(gc.modal.G12) /\ SystemOf(gc.modal.G12) \in DOMAIN store
    BY <1>2, Systems DEF IInv, Coherent
  <2>2. NoAccount \/ gc.system = store[SystemOf(gc.modal.G12)]
    BY DEF IInv, Coherent
  <2>3. NoAccount \/ gc'.system = store'[SystemOf(gc.modal.G12)]
    <3>1. CASE block.nonmodal = "G10"
      <4>1. store' = [store EXCEPT ![block.index] = block.ijk] /\ gc' = Written
        BY <3>1 DEF NonModal
      <4>2. CASE SystemOf(gc.modal.G12) = block.index
        BY <1>2, <2>1, <4>1, <4>2 DEF Written, GcFields
      <4>3. CASE SystemOf(gc.modal.G12) # block.index
        BY <2>1, <2>2, <4>1, <4>3 DEF Written
      <4> QED
        BY <4>2, <4>3
    <3>2. CASE block.nonmodal \in {"G28.1", "G30.1"}
      <4>1. gc' = gc /\ store' = [store EXCEPT ![HomeOf(block.nonmodal)] = gc.position]
        BY <3>2 DEF NonModal
      <4>2. SystemOf(gc.modal.G12) # HomeOf(block.nonmodal)
        BY <2>1, GcodeAssumption DEF Selectable, HomeOf, IndexG28, IndexG30
      <4> QED
        BY <2>1, <2>2, <4>1, <4>2
    <3>3. CASE block.nonmodal \notin {"G10", "G28.1", "G30.1"}
      <4>1. store' = store /\ gc'.system = gc.system
        BY <1>2, <3>3 DEF NonModal, GcFields
      <4> QED
        BY <2>2, <4>1
    <3> QED
      BY <3>1, <3>2, <3>3
  <2> QED
    BY <1>1, <1>3, <2>1, <2>3 DEF Coherent, NoAccount, Selecting
<1> QED
  BY <1>4, <1>5, <1>6 DEF IInv

LEMMA SoftLimitKeeps == IInv /\ SoftLimit => IInv'
<1> SUFFICES ASSUME IInv, SoftLimit PROVE IInv'
  OBVIOUS
<1>1. /\ pc \in {"intermediate", "home", "motion"} /\ UNCHANGED <<gc, store, pc>>
      /\ reset' = "locked" /\ queue' = <<>> /\ block' = [block EXCEPT !.limited = TRUE]
  BY DEF SoftLimit
<1>2. /\ DOMAIN gc = GcFields /\ DOMAIN gc.modal = ModalGroups
      /\ DOMAIN store = Stored /\ DOMAIN block = BlockFields
  BY <1>1 DEF IInv, Shapes, Executing, Selecting
<1>3. Shapes' /\ Words' /\ Modes'
  BY <1>1, <1>2, Placed DEF Executing, Selecting
<1>4. NoAccount'
  BY <1>1 DEF NoAccount
<1>5. Coherent' /\ Turning' /\ Positioned'
  BY <1>1, <1>4 DEF IInv, Coherent, Turning, Positioned, Selecting
<1>6. Queued'
  BY <1>1, PlanDropped
<1> QED
  BY <1>3, <1>5, <1>6 DEF IInv

(* A target planned is where the plan then ends, unless it is dropped.     *)
LEMMA Planned ==
  ASSUME IInv, NEW target, Plan(target), machine' = machine
  PROVE  Queued' /\ (NoAccount \/ PlanEnd' = target)
<1>1. CASE Check \/ Abort
  <2>1. queue' = queue /\ NoAccount
    BY <1>1 DEF Plan, Check, Abort, NoAccount
  <2> QED
    BY <2>1, PlanKept DEF IInv
<1>2. CASE ~(Check \/ Abort)
  <2>1. queue' = IF target = PlanEnd THEN queue ELSE Append(queue, target)
    BY <1>2 DEF Plan
  <2> QED
    BY <2>1, PlanEnds DEF IInv
<1> QED
  BY <1>1, <1>2

LEMMA IntermediateKeeps == IInv /\ Intermediate => IInv'
<1> SUFFICES ASSUME IInv, Intermediate PROVE IInv'
  OBVIOUS
<1>1. /\ pc = "intermediate" /\ pc' = "home" /\ UNCHANGED <<mode, reset, store, gc, machine, spindle>>
      /\ block' = [block EXCEPT !.limited = FALSE]
  BY DEF Intermediate, Step
<1>2. /\ DOMAIN gc = GcFields /\ DOMAIN gc.modal = ModalGroups
      /\ DOMAIN store = Stored /\ DOMAIN block = BlockFields
  BY <1>1 DEF IInv, Shapes, Executing, Selecting
<1>3. Shapes' /\ Words' /\ Modes'
  BY <1>1, <1>2, Placed DEF Executing, Selecting
<1>4. Coherent' /\ Turning'
  BY <1>1, CoherentKept, TurningKept DEF NoAccount, Selecting
<1>5. Queued'
  BY <1>1, Planned DEF Intermediate
<1>6. Positioned'
  BY <1>1 DEF Positioned
<1> QED
  BY <1>3, <1>4, <1>5, <1>6 DEF IInv

LEMMA GoHomeKeeps == IInv /\ GoHome => IInv'
<1> SUFFICES ASSUME IInv, GoHome PROVE IInv'
  OBVIOUS
<1>1. /\ pc = "home" /\ pc' = "motion" /\ UNCHANGED <<mode, reset, store, machine, spindle>>
      /\ block' = [block EXCEPT !.limited = FALSE] /\ gc' = [gc EXCEPT !.position = block.ijk]
  BY DEF GoHome, Step, Arrives
<1>2. /\ DOMAIN gc = GcFields /\ DOMAIN gc.modal = ModalGroups
      /\ DOMAIN store = Stored /\ DOMAIN block = BlockFields
  BY <1>1 DEF IInv, Shapes, Executing, Selecting
<1>3. /\ DOMAIN gc' = GcFields /\ gc'.modal = gc.modal /\ gc'.speed = gc.speed
      /\ gc'.system = gc.system /\ gc'.position = block.ijk
  BY <1>1, <1>2 DEF GcFields
<1>4. Shapes' /\ Words' /\ Modes'
  BY <1>1, <1>2, <1>3, Placed DEF Executing, Selecting
<1>5. Coherent' /\ Turning'
  BY <1>1, <1>3, CoherentKept, TurningKept DEF NoAccount, Selecting
<1>6. Queued' /\ (NoAccount \/ PlanEnd' = block.ijk)
  BY <1>1, Planned DEF GoHome
<1>7. Positioned'
  BY <1>1, <1>3, <1>6 DEF Positioned, NoAccount
<1> QED
  BY <1>4, <1>5, <1>6, <1>7 DEF IInv

LEMMA MotionKeeps == IInv /\ Motion => IInv'
<1> SUFFICES ASSUME IInv, Motion PROVE IInv'
  OBVIOUS
<1>1. pc = "motion" /\ pc' = "flow" /\ UNCHANGED <<mode, reset, store, machine, spindle, block>>
  BY DEF Motion, Step
<1>2. /\ DOMAIN gc = GcFields /\ DOMAIN gc.modal = ModalGroups
      /\ DOMAIN store = Stored /\ DOMAIN block = BlockFields
  BY <1>1 DEF IInv, Shapes, Executing, Selecting
<1>3. \/ /\ Executes /\ Plan(block.xyz)
         /\ gc' = [gc EXCEPT !.modal.G1 = block.modal.G1, !.position = block.xyz]
      \/ UNCHANGED queue /\ gc' = [gc EXCEPT !.modal.G1 = block.modal.G1]
  BY DEF Motion
<1>4. /\ DOMAIN gc' = GcFields /\ DOMAIN gc'.modal = ModalGroups /\ gc'.modal.G12 = gc.modal.G12
      /\ gc'.modal.M7 = gc.modal.M7 /\ gc'.speed = gc.speed /\ gc'.system = gc.system
  BY <1>2, <1>3 DEF GcFields, ModalGroups
<1>5. Shapes' /\ Words' /\ Modes'
  BY <1>1, <1>2, <1>4, Placed DEF Executing, Selecting
<1>6. Coherent' /\ Turning'
  BY <1>1, <1>4, CoherentKept, TurningKept DEF NoAccount, Selecting
<1>7. Queued' /\ Positioned'
  <2>1. CASE Plan(block.xyz) /\ gc' = [gc EXCEPT !.modal.G1 = block.modal.G1, !.position = block.xyz]
    <3>1. Queued' /\ (NoAccount \/ PlanEnd' = block.xyz) /\ gc'.position = block.xyz
      BY <1>1, <1>2, <2>1, Planned DEF GcFields
    <3> QED
      BY <1>1, <3>1 DEF Positioned, NoAccount
  <2>2. CASE UNCHANGED queue /\ gc' = [gc EXCEPT !.modal.G1 = block.modal.G1]
    <3>1. gc'.position = gc.position
      BY <1>2, <2>2 DEF GcFields
    <3> QED
      BY <1>1, <2>2, <3>1, PositionedKept DEF NoAccount
  <2> QED
    BY <1>3, <2>1, <2>2
<1> QED
  BY <1>5, <1>6, <1>7 DEF IInv

(* A probe's motion is the whole plan.                                     *)
LEMMA StartProbeKeeps == IInv /\ StartProbe => IInv'
<1> SUFFICES ASSUME IInv, StartProbe PROVE IInv'
  OBVIOUS
<1>1. /\ pc = "motion" /\ pc' \in {"flow", "probing"}
      /\ UNCHANGED <<reset, store, machine, spindle, line, rest, block>>
  BY DEF StartProbe
<1>2. /\ DOMAIN gc = GcFields /\ DOMAIN gc.modal = ModalGroups
      /\ DOMAIN store = Stored /\ DOMAIN block = BlockFields
  BY <1>1 DEF IInv, Shapes, Executing, Selecting
<1>3. \/ gc' = [gc EXCEPT !.modal.G1 = block.modal.G1,
                          !.position = IF Check THEN block.xyz ELSE @]
      \/ gc' = [gc EXCEPT !.modal.G1 = block.modal.G1]
  BY DEF StartProbe
<1>4. /\ DOMAIN gc' = GcFields /\ DOMAIN gc'.modal = ModalGroups /\ gc'.modal.G12 = gc.modal.G12
      /\ gc'.modal.M7 = gc.modal.M7 /\ gc'.speed = gc.speed /\ gc'.system = gc.system
  BY <1>2, <1>3 DEF GcFields, ModalGroups
<1>5. NoAccount => NoAccount'
  BY <1>1 DEF StartProbe, NoAccount, Check
<1>6. Shapes' /\ Words'
  BY <1>1, <1>2, <1>4 DEF Shapes, Words, Executing, Selecting
<1>7. Modes'
  BY <1>1 DEF StartProbe, Modes
<1>8. Coherent' /\ Turning'
  BY <1>1, <1>4, <1>5, CoherentKept, TurningKept DEF Selecting
<1>9. Queued' /\ Positioned'
  <2>1. CASE UNCHANGED queue /\ pc' = "flow" /\ (Check \/ Abort)
    <3>1. Queued'
      BY <1>1, <2>1, PlanKept DEF IInv
    <3> QED
      BY <1>5, <2>1, <3>1 DEF Positioned, NoAccount, Check, Abort
  <2>2. CASE UNCHANGED queue /\ pc' = "flow" /\ gc' = [gc EXCEPT !.modal.G1 = block.modal.G1]
    <3>1. gc'.position = gc.position
      BY <1>2, <2>2 DEF GcFields
    <3> QED
      BY <1>1, <1>5, <2>2, <3>1, PositionedKept
  <2>3. CASE pc' = "probing" /\ queue' = <<block.xyz>>
    <3>1. queue' \in Seq({block.xyz}) /\ queue' # <<>> /\ queue'[Len(queue')] = block.xyz
      BY <2>3
    <3> QED
      BY <1>1, <2>3, <3>1 DEF Queued, Positioned, PlanEnd
  <2> QED
    BY <2>1, <2>2, <2>3 DEF StartProbe
<1> QED
  BY <1>6, <1>7, <1>8, <1>9 DEF IInv

LEMMA EndProbeKeeps == IInv /\ EndProbe => IInv'
<1> SUFFICES ASSUME IInv, EndProbe PROVE IInv'
  OBVIOUS
<1>1. pc = "probing" /\ pc' = "flow" /\ UNCHANGED <<reset, store, spindle, block>>
  BY DEF EndProbe
<1>2. /\ DOMAIN gc = GcFields /\ DOMAIN gc.modal = ModalGroups
      /\ DOMAIN store = Stored /\ DOMAIN block = BlockFields
  BY <1>1 DEF IInv, Shapes, Executing, Selecting
<1>3. gc' = gc \/ gc' = [gc EXCEPT !.position = machine'] \/ gc' = [gc EXCEPT !.position = block.xyz]
  BY DEF EndProbe
<1>4. /\ DOMAIN gc' = GcFields /\ gc'.modal = gc.modal /\ gc'.speed = gc.speed /\ gc'.system = gc.system
  BY <1>2, <1>3 DEF GcFields
<1>5. NoAccount => NoAccount'
  BY <1>1 DEF EndProbe, NoAccount, Abort
<1>6. Shapes' /\ Words' /\ Modes'
  BY <1>1, <1>2, <1>4, Placed DEF Executing, Selecting
<1>7. Coherent' /\ Turning'
  BY <1>1, <1>4, <1>5, CoherentKept, TurningKept DEF Selecting
<1>8. Queued' /\ Positioned'
  <2>1. CASE queue' = <<>> /\ gc' = [gc EXCEPT !.position = machine']
    <3>1. Queued' /\ PlanEnd' = machine' /\ gc'.position = machine'
      BY <1>2, <2>1, PlanDropped DEF GcFields
    <3> QED
      BY <1>1, <3>1 DEF Positioned
  <2>2. CASE UNCHANGED <<queue, machine>> /\ gc' = [gc EXCEPT !.position = block.xyz]
    <3>1. Queued' /\ PlanEnd' = PlanEnd /\ gc'.position = block.xyz
      BY <1>2, <2>2, PlanKept DEF IInv, GcFields
    <3> QED
      BY <1>1, <1>5, <3>1 DEF IInv, Positioned
  <2>3. CASE Abort /\ UNCHANGED <<queue, machine>>
    <3>1. Queued' /\ NoAccount
      BY <2>3, PlanKept DEF IInv, NoAccount, Abort
    <3> QED
      BY <1>1, <1>5, <3>1 DEF Positioned
  <2> QED
    BY <2>1, <2>2, <2>3 DEF EndProbe
<1> QED
  BY <1>6, <1>7, <1>8 DEF IInv

LEMMA ProgramFlowKeeps == IInv /\ ProgramFlow => IInv'
<1> SUFFICES ASSUME IInv, ProgramFlow PROVE IInv'
  OBVIOUS
<1>1. pc = "flow" /\ UNCHANGED <<reset, store, queue, machine, spindle>>
  BY DEF ProgramFlow
<1>2. /\ DOMAIN gc = GcFields /\ DOMAIN gc.modal = ModalGroups
      /\ DOMAIN store = Stored /\ DOMAIN block = BlockFields
  BY <1>1 DEF IInv, Shapes, Executing, Selecting
<1>3. CASE Done /\ UNCHANGED <<mode, gc>>
  <2>1. Shapes' /\ Words' /\ Modes'
    BY <1>1, <1>2, <1>3, Placed DEF Done, Executing, Selecting
  <2>2. Coherent' /\ Turning' /\ Queued' /\ Positioned'
    BY <1>1, <1>3, CoherentKept, TurningKept, PositionedKept DEF Done, NoAccount, Selecting
  <2> QED
    BY <2>1, <2>2 DEF IInv
<1>4. CASE mode = "IDLE" /\ mode' = "HOLD" /\ pc' = "paused" /\ UNCHANGED <<gc, line, rest, block>>
  <2>1. Shapes' /\ Words' /\ Modes'
    BY <1>1, <1>2, <1>4 DEF Shapes, Words, Modes, Executing, Selecting
  <2>2. Coherent' /\ Turning' /\ Queued' /\ Positioned'
    BY <1>1, <1>4, CoherentKept, TurningKept, PositionedKept DEF NoAccount, Selecting
  <2> QED
    BY <2>1, <2>2 DEF IInv
<1>5. CASE /\ gc' = [gc EXCEPT !.modal = [@ EXCEPT !.G1 = "G1", !.G2 = "G17", !.G3 = "G90",
                                                   !.G5 = "G94", !.G12 = "G54", !.M7 = "M5",
                                                   !.M8 = "M9"],
                               !.system = IF Check THEN @ ELSE store[0]]
           /\ pc' = "end" /\ UNCHANGED <<mode, block>>
  <2>1. /\ DOMAIN gc' = GcFields /\ gc'.position = gc.position
        /\ gc'.modal = [gc.modal EXCEPT !.G1 = "G1", !.G2 = "G17", !.G3 = "G90",
                                        !.G5 = "G94", !.G12 = "G54", !.M7 = "M5", !.M8 = "M9"]
        /\ gc'.system = IF Check THEN gc.system ELSE store[0]
    BY <1>2, <1>5 DEF GcFields
  <2>2. DOMAIN gc'.modal = ModalGroups /\ gc'.modal.G12 = "G54" /\ gc'.modal.M7 = "M5"
    BY <1>2, <2>1 DEF ModalGroups
  <2>3. Shapes' /\ Words' /\ Modes'
    BY <1>1, <1>2, <1>5, <2>1, <2>2, Placed DEF Executing, Selecting
  <2>4. Coherent'
    BY <1>1, <1>5, <2>1, <2>2, Systems DEF Coherent, NoAccount, Check, Selecting
  <2>5. Turning' /\ Queued' /\ Positioned'
    BY <1>1, <1>5, <2>1, <2>2, PositionedKept DEF Turning, NoAccount
  <2> QED
    BY <2>3, <2>4, <2>5 DEF IInv
<1> QED
  BY <1>3, <1>4, <1>5 DEF ProgramFlow

LEMMA EndProgramKeeps == IInv /\ EndProgram => IInv'
<1> SUFFICES ASSUME IInv, EndProgram PROVE IInv'
  OBVIOUS
<1>1. pc = "end" /\ pc' = "idle" /\ UNCHANGED <<mode, reset, gc, store, queue, machine>>
  BY DEF EndProgram, Done
<1>2. DOMAIN gc = GcFields /\ DOMAIN gc.modal = ModalGroups /\ DOMAIN store = Stored
  BY DEF IInv, Shapes
<1>3. Shapes' /\ Words' /\ Modes'
  BY <1>1, <1>2, Placed DEF Executing, Selecting
<1>4. Coherent' /\ Queued' /\ Positioned'
  BY <1>1, CoherentKept, PositionedKept DEF NoAccount, Selecting
<1>5. Turning'
  BY <1>1 DEF EndProgram, SetSpindle, Check, Abort, IInv, Turning, NoAccount, Rpm
<1> QED
  BY <1>3, <1>4, <1>5 DEF IInv

LEMMA ResumeKeeps == IInv /\ Resume => IInv'
<1> SUFFICES ASSUME IInv, Resume PROVE IInv'
  OBVIOUS
<1>1. pc = "paused" /\ pc' = "idle" /\ UNCHANGED <<reset, gc, store, queue, machine, spindle>>
  BY DEF Resume, Done, Others
<1>2. NoAccount => NoAccount'
  BY <1>1 DEF IInv, Modes, NoAccount
<1>3. DOMAIN gc = GcFields /\ DOMAIN gc.modal = ModalGroups /\ DOMAIN store = Stored
  BY DEF IInv, Shapes
<1>4. Shapes' /\ Words' /\ Modes'
  BY <1>1, <1>3, Placed DEF Executing, Selecting
<1>5. Coherent' /\ Turning' /\ Queued' /\ Positioned'
  BY <1>1, <1>2, CoherentKept, TurningKept, PositionedKept DEF Selecting
<1> QED
  BY <1>4, <1>5 DEF IInv

LEMMA ExecuteJogKeeps == IInv /\ ExecuteJog => IInv'
<1> SUFFICES ASSUME IInv, ExecuteJog PROVE IInv'
  OBVIOUS
<1>1. pc = "jog" /\ UNCHANGED <<reset, store, machine, spindle, block>>
  BY DEF ExecuteJog
<1>2. /\ DOMAIN gc = GcFields /\ DOMAIN gc.modal = ModalGroups
      /\ DOMAIN store = Stored /\ DOMAIN block = BlockFields
  BY <1>1 DEF IInv, Shapes, Executing, Selecting
<1>3. CASE Outside(block.xyz)
  <2>1. pc' = "fail" /\ UNCHANGED <<mode, queue, gc>>
    BY <1>3 DEF ExecuteJog
  <2>2. Shapes' /\ Words' /\ Modes'
    BY <1>1, <1>2, <2>1 DEF Shapes, Words, Modes, Executing, Selecting
  <2>3. Coherent' /\ Turning' /\ Queued' /\ Positioned'
    BY <1>1, <2>1, CoherentKept, TurningKept, PositionedKept DEF NoAccount, Selecting
  <2> QED
    BY <2>2, <2>3 DEF IInv
<1>4. CASE ~Outside(block.xyz)
  <2>1. /\ queue' = IF Abort \/ block.xyz = PlanEnd THEN queue ELSE Append(queue, block.xyz)
        /\ mode' = IF mode = "IDLE" /\ queue' # <<>> THEN "JOG" ELSE mode
        /\ gc' = [gc EXCEPT !.position = block.xyz] /\ pc' = "flow"
    BY <1>4 DEF ExecuteJog
  <2>2. /\ DOMAIN gc' = GcFields /\ gc'.modal = gc.modal /\ gc'.speed = gc.speed
        /\ gc'.system = gc.system /\ gc'.position = block.xyz
    BY <1>2, <2>1 DEF GcFields
  <2>3. NoAccount => NoAccount'
    BY <1>1, <2>1 DEF NoAccount
  <2>4. Shapes' /\ Words' /\ Modes'
    BY <1>1, <1>2, <2>1, <2>2, Placed DEF Executing, Selecting
  <2>5. Coherent' /\ Turning'
    BY <1>1, <2>1, <2>2, <2>3, CoherentKept, TurningKept DEF Selecting
  <2>6. Queued' /\ Positioned'
    <3>1. CASE Abort
      <4>1. NoAccount' /\ Queued'
        BY <1>1, <2>1, <2>3, <3>1, PlanKept DEF IInv, NoAccount, Abort
      <4> QED
        BY <2>1, <4>1 DEF Positioned
    <3>2. CASE ~Abort
      <4>1. Queued' /\ PlanEnd' = block.xyz
        BY <1>1, <2>1, <3>2, PlanEnds DEF IInv
      <4> QED
        BY <2>1, <2>2, <4>1 DEF Positioned
    <3> QED
      BY <3>1, <3>2
  <2> QED
    BY <2>4, <2>5, <2>6 DEF IInv
<1> QED
  BY <1>3, <1>4

----------------------------------------------------------------------------
LEMMA Stutters == IInv /\ UNCHANGED vars => IInv'
<1> SUFFICES ASSUME IInv, UNCHANGED vars PROVE IInv'
  OBVIOUS
<1>1. UNCHANGED <<mode, reset, gc, store, queue, machine, spindle, pc, line, rest, block>>
  BY DEF vars
<1> QED
  BY <1>1, Aside DEF NoAccount, IInv, Modes

LEMMA Inductive == IInv /\ [Next]_vars => IInv'
<1> SUFFICES ASSUME IInv, [Next]_vars PROVE IInv'
  OBVIOUS
<1>1. CASE Realtime
  BY <1>1, StatesKeep, MoveKeeps, JogCancelKeeps, ToggleCoolantKeeps DEF Realtime
<1>2. CASE MainLoop
  BY <1>2, InitializeKeeps, ReceiveKeeps, StatesKeep DEF MainLoop
<1>3. CASE Parse
  BY <1>3, ImportWordKeeps, FailKeeps, CheckLineKeeps DEF Parse
<1>4. CASE Execute
  BY <1>4, SetSpeedKeeps, SpindleControlKeeps, ModesKeep, EndSyncKeeps, SelectSystemKeeps,
     NonModalKeeps, SoftLimitKeeps, IntermediateKeeps, GoHomeKeeps, MotionKeeps, StartProbeKeeps,
     EndProbeKeeps, ProgramFlowKeeps, EndProgramKeeps, ResumeKeeps, ExecuteJogKeeps DEF Execute
<1> QED
  BY <1>1, <1>2, <1>3, <1>4, Stutters DEF Next

LEMMA Invariant == Spec => []IInv
<1> QED
  BY Initial, Inductive, PTL DEF Spec

(* Between lines the parser's coordinate system is the one stored, whoever *)
(* wrote it (gc_execute_line, STEP 4; gc_init).                            *)
THEOREM CoordinatesAgree == Spec => []CoordinatesCoherent
<1>1. IInv => CoordinatesCoherent
  BY DEF IInv, Coherent, NoAccount, CoordinatesCoherent, AtRest
<1> QED
  BY <1>1, Invariant, PTL

(* Between lines the spindle turns as the modal state says (spindle_sync,  *)
(* the program end, mc_reset).                                             *)
THEOREM SpindleFollows == Spec => []SpindleAsCommanded
<1>1. IInv => SpindleAsCommanded
  BY DEF IInv, Turning, NoAccount, SpindleAsCommanded, AtRest
<1> QED
  BY <1>1, Invariant, PTL

(* Between lines the parser's position is the end of the plan, also after  *)
(* what a probe, a jog cancel or a reset cut (gc_sync_position).           *)
THEOREM PositionFollows == Spec => []PositionsAgree
<1>1. IInv => PositionsAgree
  BY DEF IInv, Positioned, NoAccount, PositionsAgree, AtRest
<1> QED
  BY <1>1, Invariant, PTL

----------------------------------------------------------------------------
(* From the line to the words.                                             *)

(* What is read of a line: the commands and the values among its words.    *)
Commands(words) == {w \in words : w.letter = "command"}
Values(words) == words \ Commands(words)
AxisCommands(words) == {w \in Commands(words) : AxisCommand(w.name) # "none"}

(* A block holds exactly the words that are read: one command of a group,  *)
(* one value of a letter, one command at most that uses the axis words.    *)
ByCommand(words, b) ==
  /\ \A w \in Commands(words) : /\ Supported(w.name) /\ GroupOf(w.name) \in DOMAIN b.commands
                                /\ b.commands[GroupOf(w.name)] = w.name
  /\ \A g \in DOMAIN b.commands : \E w \in Commands(words) : GroupOf(w.name) = g
  /\ \A v, w \in Commands(words) : GroupOf(v.name) = GroupOf(w.name) => v = w
Allowed(w) == /\ w.letter \in ValueLetters
              /\ ~(w.letter \in NotNegative /\ w.value < 0)
              /\ ~(w.letter = "T" /\ w.value > MaxToolNumber)
ByValue(words, b) ==
  /\ \A w \in Values(words) : /\ Allowed(w) /\ w.letter \in DOMAIN b.values
                              /\ b.values[w.letter] = w.value
  /\ \A l \in DOMAIN b.values : \E w \in Values(words) : w.letter = l
  /\ \A v, w \in Values(words) : v.letter = w.letter => v = w
ByAxis(words, b) ==
  /\ \A w \in AxisCommands(words) : b.axis = AxisCommand(w.name)
  /\ b.axis # "none" => AxisCommands(words) # {}
  /\ \A v, w \in AxisCommands(words) : v = w
Counted(words, b) ==
  /\ IsFiniteSet(DOMAIN b.commands) /\ IsFiniteSet(DOMAIN b.values)
  /\ Cardinality(DOMAIN b.commands) + Cardinality(DOMAIN b.values) = Cardinality(words)
Imported(words, b) == ByCommand(words, b) /\ ByValue(words, b) /\ ByAxis(words, b) /\ Counted(words, b)

ParseInv ==
  /\ pc = "words" => Imported(line \ rest, block)
  /\ pc = "jog" => line = {}
  /\ pc = "fail" /\ line # {} => rest = {} \/ ~Legal(line \ rest)

LEMMA GroupsApart ==
  ASSUME NEW g \in DOMAIN Groups, NEW h \in DOMAIN Groups, NEW name \in Groups[g] \cap Groups[h]
  PROVE  g = h
BY SMTT(60) DEF Groups, Arcs, Probes

LEMMA InGroup ==
  ASSUME NEW name, Supported(name)
  PROVE  GroupOf(name) \in DOMAIN Groups /\ name \in Groups[GroupOf(name)]
BY DEF Supported, GroupOf

LEMMA AtMostOne == ASSUME NEW S, \A x, y \in S : x = y PROVE Cardinality(S) <= 1
<1>1. CASE S = {}
  BY <1>1, FS_EmptySet
<1>2. CASE S # {}
  <2>1. PICK x \in S : TRUE
    BY <1>2
  <2>2. S = {x}
    BY <2>1
  <2> QED
    BY <2>2, FS_Singleton
<1> QED
  BY <1>1, <1>2

LEMMA NotTwo ==
  ASSUME NEW S, IsFiniteSet(S), NEW x \in S, NEW y \in S, x # y PROVE ~(Cardinality(S) <= 1)
<1>1. IsFiniteSet({x, y}) /\ Cardinality({x, y}) = 2
  <2>1. IsFiniteSet({x}) /\ Cardinality({x}) = 1
    BY FS_Singleton
  <2>2. IsFiniteSet({x} \cup {y}) /\ Cardinality({x} \cup {y}) = Cardinality({x}) + 1
    BY <2>1, FS_AddElement
  <2>3. {x, y} = {x} \cup {y}
    OBVIOUS
  <2> QED
    BY <2>1, <2>2, <2>3
<1>2. Cardinality({x, y}) <= Cardinality(S) /\ Cardinality(S) \in Nat
  BY <1>1, FS_Subset, FS_CardinalityType
<1> QED
  BY <1>1, <1>2

LEMMA WordsAreValues ==
  \A words \in Lines \cup Jogs : IsFiniteSet(words) /\ \A w \in words : w.value \in Int
BY GcodeAssumption

(* What has been imported is legal.                                        *)
LEMMA ImportedLegal ==
  ASSUME NEW words, NEW b, ByCommand(words, b), ByValue(words, b), ByAxis(words, b),
         \A w \in words : w.value \in Int
  PROVE  Legal(words)
<1> DEFINE commands == {w \in words : w.letter = "command"}
           values == words \ commands
<1>1. commands = Commands(words) /\ values = Values(words)
  BY DEF Commands, Values
<1>2. \A w \in commands : Supported(w.name)
  BY <1>1 DEF ByCommand
<1>3. ASSUME NEW g \in DOMAIN Groups PROVE Cardinality({w \in commands : w.name \in Groups[g]}) <= 1
  <2>1. \A v, w \in {w \in commands : w.name \in Groups[g]} : v = w
    <3> SUFFICES ASSUME NEW v \in commands, NEW w \in commands, v.name \in Groups[g], w.name \in Groups[g]
                 PROVE  v = w
      OBVIOUS
    <3>1. GroupOf(v.name) = g /\ GroupOf(w.name) = g
      BY <1>2, InGroup, GroupsApart
    <3> QED
      BY <1>1, <3>1 DEF ByCommand
  <2> QED
    BY <2>1, AtMostOne
<1>4. Cardinality({w \in commands : AxisCommand(w.name) # "none"}) <= 1
  <2>1. {w \in commands : AxisCommand(w.name) # "none"} = AxisCommands(words)
    BY <1>1 DEF AxisCommands
  <2> QED
    BY <2>1, AtMostOne DEF ByAxis
<1>5. ASSUME NEW l \in ValueLetters PROVE Cardinality({w \in values : w.letter = l}) <= 1
  <2>1. \A v, w \in {w \in values : w.letter = l} : v = w
    BY <1>1 DEF ByValue
  <2> QED
    BY <2>1, AtMostOne
<1>6. ASSUME NEW w \in values
      PROVE  /\ w.letter \in ValueLetters
             /\ w.letter \in NotNegative => w.value >= 0
             /\ w.letter = "T" => w.value <= MaxToolNumber
  <2>1. Allowed(w) /\ w.value \in Int
    BY <1>1 DEF ByValue
  <2> QED
    BY <2>1 DEF Allowed, MaxToolNumber
<1> QED
  BY <1>2, <1>3, <1>4, <1>5, <1>6 DEF Legal

(* A word that is refused makes the words read with it illegal.            *)
LEMMA RefusedIllegal ==
  ASSUME NEW words, NEW b, ByCommand(words, b), ByValue(words, b), ByAxis(words, b),
         IsFiniteSet(words), NEW w, w \notin words, w.value \in Int, Refused(b, w)
  PROVE  ~Legal(words \cup {w})
<1> SUFFICES ASSUME Legal(words \cup {w}) PROVE FALSE
  OBVIOUS
<1> DEFINE all == words \cup {w}
           commands == {v \in all : v.letter = "command"}
           values == all \ commands
<1>1. IsFiniteSet(all)
  BY FS_AddElement
<1>2. \A S : S \subseteq all => IsFiniteSet(S)
  BY <1>1, FS_Subset
<1>3. /\ \A v \in commands : Supported(v.name)
      /\ \A g \in DOMAIN Groups : Cardinality({v \in commands : v.name \in Groups[g]}) <= 1
      /\ Cardinality({v \in commands : AxisCommand(v.name) # "none"}) <= 1
      /\ \A l \in ValueLetters : Cardinality({v \in values : v.letter = l}) <= 1
      /\ \A v \in values : /\ v.letter \in ValueLetters
                           /\ v.letter \in NotNegative => v.value >= 0
                           /\ v.letter = "T" => v.value <= MaxToolNumber
  BY DEF Legal
<1>4. Commands(words) \subseteq commands /\ Values(words) \subseteq values
  BY DEF Commands, Values
<1>5. CASE w.letter = "command"
  <2>1. w \in commands /\ RefusedCommand(b, w.name)
    BY <1>5 DEF Refused
  <2>2. Supported(w.name)
    BY <1>3, <2>1
  <2>3. CASE AxisCommand(w.name) # "none" /\ b.axis # "none"
    <3>1. PICK v \in AxisCommands(words) : TRUE
      BY <2>3 DEF ByAxis
    <3>2. v \in commands /\ AxisCommand(v.name) # "none" /\ v \in words
      BY <1>4, <3>1 DEF AxisCommands, Commands
    <3> DEFINE S == {u \in commands : AxisCommand(u.name) # "none"}
    <3>3. v \in S /\ w \in S /\ v # w /\ IsFiniteSet(S)
      BY <1>2, <2>1, <2>3, <3>2
    <3> HIDE DEF S
    <3>4. ~(Cardinality(S) <= 1)
      BY <3>3, NotTwo
    <3> QED
      BY <1>3, <3>4 DEF S
  <2>4. CASE GroupOf(w.name) \in DOMAIN b.commands
    <3>1. PICK v \in Commands(words) : GroupOf(v.name) = GroupOf(w.name)
      BY <2>4 DEF ByCommand
    <3>2. v \in commands /\ v \in words /\ Supported(v.name)
      BY <1>4, <3>1 DEF Commands, ByCommand
    <3> DEFINE g == GroupOf(w.name)
               S == {u \in commands : u.name \in Groups[g]}
    <3>3. g \in DOMAIN Groups /\ w.name \in Groups[g] /\ v.name \in Groups[g]
      BY <2>2, <3>1, <3>2, InGroup
    <3>4. v \in S /\ w \in S /\ v # w /\ IsFiniteSet(S)
      BY <1>2, <2>1, <3>2, <3>3
    <3> HIDE DEF S
    <3>5. ~(Cardinality(S) <= 1)
      BY <3>4, NotTwo
    <3> QED
      BY <1>3, <3>3, <3>5 DEF S
  <2> QED
    BY <2>1, <2>2, <2>3, <2>4 DEF RefusedCommand
<1>6. CASE w.letter # "command"
  <2>1. w \in values /\ RefusedValue(b, w)
    BY <1>6 DEF Refused
  <2>2. /\ w.letter \in ValueLetters
        /\ w.letter \in NotNegative => w.value >= 0
        /\ w.letter = "T" => w.value <= MaxToolNumber
    BY <1>3, <2>1
  <2>3. w.letter \in DOMAIN b.values
    BY <2>1, <2>2 DEF RefusedValue, MaxToolNumber
  <2>4. PICK v \in Values(words) : v.letter = w.letter
    BY <2>3 DEF ByValue
  <2>5. v \in values /\ v \in words
    BY <1>4, <2>4 DEF Values
  <2> DEFINE S == {u \in values : u.letter = w.letter}
  <2>6. v \in S /\ w \in S /\ v # w /\ IsFiniteSet(S)
    BY <1>2, <2>1, <2>4, <2>5
  <2> HIDE DEF S
  <2>7. ~(Cardinality(S) <= 1)
    BY <2>6, NotTwo
  <2> QED
    BY <1>3, <2>2, <2>7 DEF S
<1> QED
  BY <1>5, <1>6

(* A word that is not refused is imported.                                 *)
LEMMA ImportKeeps ==
  ASSUME NEW words, NEW b, Imported(words, b), IsFiniteSet(words), DOMAIN b = ImportFields,
         NEW w, w \notin words, ~Refused(b, w)
  PROVE  Imported(words \cup {w}, Import(b, w))
<1> DEFINE all == words \cup {w}
           c == Import(b, w)
<1>1. ByCommand(words, b) /\ ByValue(words, b) /\ ByAxis(words, b) /\ Counted(words, b)
  BY DEF Imported
<1>2. Cardinality(all) = Cardinality(words) + 1 /\ Cardinality(words) \in Nat
  BY FS_AddElement, FS_CardinalityType
<1>3. CASE w.letter = "command"
  <2>1. Commands(all) = Commands(words) \cup {w} /\ Values(all) = Values(words)
    BY <1>3 DEF Commands, Values
  <2>2. /\ c.commands = Known(b.commands, GroupOf(w.name), w.name)
        /\ c.axis = IF AxisCommand(w.name) # "none" THEN AxisCommand(w.name) ELSE b.axis
        /\ c.values = b.values
    BY <1>3 DEF Import, ImportFields
  <2>3. /\ Supported(w.name) /\ GroupOf(w.name) \notin DOMAIN b.commands
        /\ AxisCommand(w.name) = "none" \/ b.axis = "none"
    BY <1>3 DEF Refused, RefusedCommand
  <2>4. /\ DOMAIN c.commands = DOMAIN b.commands \cup {GroupOf(w.name)}
        /\ c.commands[GroupOf(w.name)] = w.name
        /\ \A g \in DOMAIN b.commands : c.commands[g] = b.commands[g]
    BY <2>2, <2>3 DEF Known
  <2> HIDE DEF c, all
  <2>5. ByCommand(all, c)
    <3>1. \A v \in Commands(words) : GroupOf(v.name) # GroupOf(w.name)
      BY <1>1, <2>3 DEF ByCommand
    <3> QED
      BY <1>1, <2>1, <2>3, <2>4, <3>1 DEF ByCommand
  <2>6. ByValue(all, c)
    BY <1>1, <2>1, <2>2 DEF ByValue
  <2>7. ByAxis(all, c)
    <3>1. CASE AxisCommand(w.name) = "none"
      <4>1. AxisCommands(all) = AxisCommands(words) /\ c.axis = b.axis
        BY <2>1, <2>2, <3>1 DEF AxisCommands
      <4> QED
        BY <1>1, <4>1 DEF ByAxis
    <3>2. CASE AxisCommand(w.name) # "none"
      <4>1. AxisCommands(words) = {}
        BY <1>1, <2>3, <3>2 DEF ByAxis, AxisCommands
      <4>2. AxisCommands(all) = {w} /\ c.axis = AxisCommand(w.name)
        BY <2>1, <2>2, <3>2, <4>1 DEF AxisCommands
      <4> QED
        BY <4>2 DEF ByAxis
    <3> QED
      BY <3>1, <3>2
  <2>8. Counted(all, c)
    <3>1. /\ IsFiniteSet(DOMAIN c.commands)
          /\ Cardinality(DOMAIN c.commands) = Cardinality(DOMAIN b.commands) + 1
      BY <1>1, <2>3, <2>4, FS_AddElement DEF Counted
    <3>2. Cardinality(DOMAIN b.commands) \in Nat /\ Cardinality(DOMAIN b.values) \in Nat
      BY <1>1, FS_CardinalityType DEF Counted
    <3> QED
      BY <1>1, <1>2, <2>2, <3>1, <3>2 DEF Counted, all
  <2> QED
    BY <2>5, <2>6, <2>7, <2>8 DEF Imported, all, c
<1>4. CASE w.letter # "command"
  <2>1. Commands(all) = Commands(words) /\ Values(all) = Values(words) \cup {w}
    BY <1>4 DEF Commands, Values
  <2>2. /\ c.commands = b.commands /\ c.axis = b.axis
        /\ c.values = Known(b.values, w.letter, w.value)
    BY <1>4 DEF Import, ImportFields
  <2>3. Allowed(w) /\ w.letter \notin DOMAIN b.values
    BY <1>4 DEF Refused, RefusedValue, Allowed
  <2>4. /\ DOMAIN c.values = DOMAIN b.values \cup {w.letter} /\ c.values[w.letter] = w.value
        /\ \A l \in DOMAIN b.values : c.values[l] = b.values[l]
    BY <2>2, <2>3 DEF Known
  <2> HIDE DEF c, all
  <2>5. ByCommand(all, c)
    BY <1>1, <2>1, <2>2 DEF ByCommand
  <2>6. ByValue(all, c)
    <3>1. \A v \in Values(words) : v.letter # w.letter
      BY <1>1, <2>3 DEF ByValue
    <3> QED
      BY <1>1, <2>1, <2>3, <2>4, <3>1 DEF ByValue
  <2>7. ByAxis(all, c)
    <3>1. AxisCommands(all) = AxisCommands(words)
      BY <2>1 DEF AxisCommands
    <3> QED
      BY <1>1, <2>2, <3>1 DEF ByAxis
  <2>8. Counted(all, c)
    <3>1. /\ IsFiniteSet(DOMAIN c.values)
          /\ Cardinality(DOMAIN c.values) = Cardinality(DOMAIN b.values) + 1
      BY <1>1, <2>3, <2>4, FS_AddElement DEF Counted
    <3>2. Cardinality(DOMAIN b.commands) \in Nat /\ Cardinality(DOMAIN b.values) \in Nat
      BY <1>1, FS_CardinalityType DEF Counted
    <3> QED
      BY <1>1, <1>2, <2>2, <3>1, <3>2 DEF Counted, all
  <2> QED
    BY <2>5, <2>6, <2>7, <2>8 DEF Imported, all, c
<1> QED
  BY <1>3, <1>4

LEMMA NothingImported == Imported({}, Blank)
<1>1. Commands({}) = {} /\ Values({}) = {} /\ AxisCommands({}) = {}
  BY DEF Commands, Values, AxisCommands
<1>2. DOMAIN Blank.commands = {} /\ DOMAIN Blank.values = {} /\ Blank.axis = "none"
  BY DEF Blank
<1>3. Counted({}, Blank)
  BY <1>2, FS_EmptySet DEF Counted
<1> QED
  BY <1>1, <1>2, <1>3 DEF Imported, ByCommand, ByValue, ByAxis

(* The words read are some of a line.                                      *)
LEMMA WordsRead ==
  ASSUME Words, pc = "words"
  PROVE  /\ IsFiniteSet(line) /\ IsFiniteSet(line \ rest) /\ rest \subseteq line
         /\ \A w \in line : w.value \in Int
<1>1. line \in Lines \cup Jogs /\ rest \subseteq line
  BY DEF Words
<1>2. IsFiniteSet(line) /\ \A w \in line : w.value \in Int
  BY <1>1, WordsAreValues
<1> QED
  BY <1>1, <1>2, FS_Subset

LEMMA ParseStep == IInv /\ ParseInv /\ [Next]_vars => ParseInv'
<1> SUFFICES ASSUME IInv, ParseInv, [Next]_vars PROVE ParseInv'
  OBVIOUS
<1> USE DEF Parser, World, Others
<1>1. CASE UNCHANGED <<pc, line, rest, block>>
  BY <1>1 DEF ParseInv
<1>2. CASE pc' \notin {"words", "jog", "fail"}
  BY <1>2 DEF ParseInv
<1>3. CASE pc' = "words" /\ line' = rest' /\ block' = Blank
  <2>1. line' \ rest' = {}
    BY <1>3
  <2> QED
    BY <1>3, <2>1, NothingImported DEF ParseInv
<1>4. CASE ImportWord
  <2>1. PICK w \in rest : /\ rest' = rest \ {w}
                          /\ IF Refused(block, w) THEN pc' = "fail" /\ UNCHANGED block
                             ELSE block' = Import(block, w) /\ UNCHANGED pc
    BY <1>4 DEF ImportWord
  <2>2. /\ pc = "words" /\ UNCHANGED line /\ Imported(line \ rest, block)
        /\ DOMAIN block = ImportFields
    BY <1>4 DEF ImportWord, ParseInv, IInv, Shapes
  <2>3. /\ IsFiniteSet(line \ rest) /\ rest \subseteq line /\ w.value \in Int
    BY <2>2, WordsRead DEF IInv
  <2>4. w \notin line \ rest /\ line' \ rest' = (line \ rest) \cup {w}
    BY <2>1, <2>2, <2>3
  <2>5. CASE Refused(block, w)
    <3>1. ~Legal(line' \ rest')
      BY <2>2, <2>3, <2>4, <2>5, RefusedIllegal DEF Imported
    <3> QED
      BY <2>1, <2>5, <3>1 DEF ParseInv
  <2>6. CASE ~Refused(block, w)
    <3>1. Imported(line' \ rest', block') /\ pc' = "words"
      BY <2>1, <2>2, <2>3, <2>4, <2>6, ImportKeeps
    <3> QED
      BY <3>1 DEF ParseInv
  <2> QED
    BY <2>5, <2>6
<1>5. CASE CheckLine
  BY <1>5 DEF CheckLine, ParseInv
<1>6. CASE ExecuteJog
  BY <1>6 DEF ExecuteJog, ParseInv
<1>7. CASE Realtime
  BY <1>1, <1>7 DEF Realtime, Start, Move, EndCycle, Reset, TakeReset, Unlock, JogCancel, ToggleCoolant
<1>8. CASE MainLoop
  BY <1>1, <1>3, <1>8 DEF MainLoop, Initialize, ReceiveLine, ReceiveJog, Take, ToggleCheck, KillAlarm
<1>9. CASE Fail
  BY <1>2, <1>9 DEF Fail, Done
<1>10. CASE SetSpeed \/ SpindleControl \/ CoolantControl \/ Dwell \/ ToolLength \/ SelectSystem
  BY <1>2, <1>10 DEF SetSpeed, SpindleControl, CoolantControl, Dwell, ToolLength, SelectSystem, Step
<1>11. CASE EndSync
  BY <1>1, <1>11 DEF EndSync
<1>12. CASE SoftLimit \/ NonModal \/ Intermediate \/ GoHome \/ Motion
  BY <1>2, <1>12 DEF SoftLimit, NonModal, Intermediate, GoHome, Motion, Step
<1>13. CASE StartProbe \/ EndProbe \/ ProgramFlow \/ EndProgram \/ Resume
  BY <1>2, <1>13 DEF StartProbe, EndProbe, ProgramFlow, EndProgram, Resume, Done
<1>14. CASE UNCHANGED vars
  BY <1>1, <1>14 DEF vars
<1> QED
  BY <1>4, <1>5, <1>6, <1>7, <1>8, <1>9, <1>10, <1>11, <1>12, <1>13, <1>14 DEF Next, Parse, Execute

LEMMA ParseAlways == Spec => []ParseInv
<1>1. Init => ParseInv
  BY DEF Init, ParseInv
<1> QED
  BY <1>1, ParseStep, Invariant, PTL DEF Spec

(* A line is taken for what its words are, in whatever order they come: it *)
(* is refused for its words if and only if they are illegal together, and  *)
(* else each is in the block and nothing else is (gc_execute_line, STEP 1  *)
(* and 2).                                                                 *)
THEOREM LinesAreParsed == Spec => []ParsedAsWritten
<1>1. IInv /\ ParseInv => ParsedAsWritten
  <2> SUFFICES ASSUME IInv, ParseInv PROVE ParsedAsWritten
    OBVIOUS
  <2> DEFINE words == line \ rest
  <2>1. ASSUME pc = "words"
        PROVE  /\ Legal(words)
               /\ \A w \in words : IF w.letter = "command" THEN block.commands[GroupOf(w.name)] = w.name
                                   ELSE block.values[w.letter] = w.value
               /\ Cardinality(DOMAIN block.commands) + Cardinality(DOMAIN block.values) = Cardinality(words)
    <3>1. ByCommand(words, block) /\ ByValue(words, block) /\ ByAxis(words, block) /\ Counted(words, block)
      BY <2>1 DEF ParseInv, Imported
    <3>2. \A w \in words : w.value \in Int
      BY <2>1, WordsRead DEF IInv
    <3>3. Legal(words)
      BY <3>1, <3>2, ImportedLegal
    <3> QED
      BY <3>1, <3>3 DEF ByCommand, ByValue, Counted, Commands, Values
  <2>2. pc = "fail" /\ line # {} => (~Legal(words) \/ rest = {})
    BY DEF ParseInv
  <2> QED
    BY <2>1, <2>2 DEF ParsedAsWritten
<1> QED
  BY <1>1, Invariant, ParseAlways, PTL

----------------------------------------------------------------------------
(* From the words to the work position.                                    *)

(* A jog is under way only before the next line is taken, unless that one  *)
(* is a jog too; and a jog is nothing but a motion.                        *)
JogsApart ==
  /\ syncing => pc \in {"select", "nonmodal", "motion", "end"}
  /\ mode = "JOG" => /\ pc \in {"idle", "words", "fail", "jog", "flow"}
                     /\ pc = "words" => jogging
                     /\ pc = "flow" => block.flow = "none"
  /\ pc = "jog" => /\ block.flow = "none" /\ block.modal.G12 = gc.modal.G12
                   /\ block.nonmodal \in {"G53", "none"}

BlockTypes ==
  pc \in Executing =>
    /\ {block.xyz, block.ijk, block.system} \subseteq Vector /\ block.speed \in Nat
    /\ \A g \in ModalGroups : block.modal[g] \in Groups[g]
    /\ DOMAIN block.words \subseteq Axes /\ \A a \in DOMAIN block.words : block.words[a] \in Int
    /\ block.limited => reset \in {"locked", "abort"}
Types == TypeOK /\ gc.length \in Int /\ gc.speed \in Nat /\ BlockTypes

(* What uses the axis words is one of a motion, a G92 and a G10.           *)
Uses ==
  pc \in Executing =>
    /\ block.nonmodal = "G92" => block.axis = "nonmodal"
    /\ block.sets => block.nonmodal = "G10" /\ block.axis = "nonmodal"
    /\ pc \in {"home", "intermediate"} => block.nonmodal \in {"G28", "G30"}
    /\ pc = "probing" => Probing

(* What STEP 3 has computed leads to the words, with the position, the     *)
(* offset and the tool of now and the system that will be in force.        *)
Before == Selecting \cup {"nonmodal", "jog"}
SystemThen ==
  IF pc \in Selecting /\ block.modal.G12 # gc.modal.G12 THEN block.system ELSE gc.system
Aimed ==
  /\ block.nonmodal = "none" /\ block.axis = "motion"
  /\ block.modal.G3 = "G90" /\ block.modal.G1 \in {"G0", "G1"}
Aims ==
  \A a \in DOMAIN block.words :
    /\ pc \in Before \cup {"motion"} /\ Aimed
         => block.xyz[a] = block.words[a] + SystemThen[a] + gc.offset[a] + Tool(a)
    /\ pc \in Before /\ block.nonmodal = "G92"
         => block.xyz[a] = gc.position[a] - SystemThen[a] - block.words[a] - Tool(a)
    /\ pc \in Before /\ block.sets
         => block.ijk[a] = gc.position[a] - gc.offset[a] - block.words[a] - Tool(a)

(* And when it has been executed, that is the work position.               *)
Reached ==
  \/ pc = "flow" /\ Aimed
  \/ block.nonmodal = "G92"
  \/ block.sets /\ SystemOf(gc.modal.G12) = block.index
Arrived ==
  pc \in {"motion", "flow"} /\ Reached =>
    \A a \in DOMAIN block.words : WorkPosition(gc, a) = block.words[a]

WorkInv == JogsApart /\ Types /\ Uses /\ Aims /\ Arrived

(* What STEP 3 makes of a line.                                            *)
LEMMA BlockWords ==
  ASSUME IInv, ParseInv, pc = "words", rest = {}
  PROVE  /\ \A g \in DOMAIN block.commands : g \in DOMAIN Groups /\ block.commands[g] \in Groups[g]
         /\ \A l \in DOMAIN block.values :
              block.values[l] \in Int /\ (l \in NotNegative => block.values[l] \in Nat)
         /\ Word(block, "G0") \in {"G10", "G92"} => block.axis = "nonmodal"
         /\ Selectable(Modal(block).G12)
<1>1. line \ rest = line /\ \A w \in line : w.value \in Int
  BY WordsRead DEF IInv
<1>2. ByCommand(line, block) /\ ByValue(line, block) /\ ByAxis(line, block)
  BY <1>1 DEF ParseInv, Imported
<1>3. ASSUME NEW g \in DOMAIN block.commands
      PROVE  \E w \in Commands(line) : g = GroupOf(w.name) /\ block.commands[g] = w.name /\ Supported(w.name)
  BY <1>2 DEF ByCommand
<1>4. ASSUME NEW g \in DOMAIN block.commands
      PROVE  g \in DOMAIN Groups /\ block.commands[g] \in Groups[g]
  BY <1>3, InGroup
<1>5. ASSUME NEW l \in DOMAIN block.values
      PROVE  block.values[l] \in Int /\ (l \in NotNegative => block.values[l] \in Nat)
  <2>1. PICK w \in Values(line) : w.letter = l /\ block.values[l] = w.value /\ Allowed(w)
    BY <1>2 DEF ByValue
  <2>2. w.value \in Int
    BY <1>1, <2>1 DEF Values
  <2> QED
    BY <2>1, <2>2 DEF Allowed
<1>6. ASSUME Word(block, "G0") \in {"G10", "G92"} PROVE block.axis = "nonmodal"
  <2>1. "G0" \in DOMAIN block.commands /\ block.commands["G0"] \in {"G10", "G92"}
    BY <1>6 DEF Word
  <2>2. PICK w \in Commands(line) : block.commands["G0"] = w.name
    BY <1>3, <2>1
  <2>3. AxisCommand(w.name) = "nonmodal"
    BY <2>1, <2>2 DEF AxisCommand, Groups, Arcs, Probes
  <2>4. w \in AxisCommands(line)
    BY <2>2, <2>3 DEF AxisCommands
  <2> QED
    BY <1>2, <2>3, <2>4 DEF ByAxis
<1>7. Selectable(Modal(block).G12)
  <2>1. Modal(block)["G12"] = IF "G12" \in DOMAIN block.commands THEN block.commands["G12"]
                              ELSE gc.modal["G12"]
    BY DEF Modal, ModalGroups
  <2> QED
    BY <2>1 DEF IInv, Words, Coherent
<1> QED
  BY <1>4, <1>5, <1>6, <1>7

(* The coordinates of a prepared block are vectors.                        *)
LEMMA Vectors == \A v : v \in Vector <=> v = [a \in Axes |-> v[a]] /\ \A a \in Axes : v[a] \in Int
BY DEF Vector

LEMMA PreparedVectors ==
  ASSUME IInv, ParseInv, Types, pc = "words", rest = {}, ~Error(block)
  PROVE  /\ \A a \in Axes : AxisValue(block, a) \in Int /\ Tool(a) \in Int
         /\ {System(block), Offset(block), Target(block), Home(block)} \subseteq Vector
         /\ Word(block, "G0") = "G10" => SystemData(block) \in Vector
<1> DEFINE b == block
<1>1. /\ {gc.system, gc.offset, gc.position} \subseteq Vector /\ gc.length \in Int
      /\ store \in [Stored -> Vector] /\ MmPerInch \in Nat /\ N_COORDINATE_SYSTEM \in 1..6
  BY GcodeAssumption DEF Types, TypeOK
<1>2. \A l : ValueOf(b, l) \in Int
  BY BlockWords DEF ValueOf, Has
<1>3. \A n \in Int : n * MmPerInch \in Int
  BY <1>1
<1>4. ASSUME NEW a \in Axes PROVE AxisValue(b, a) \in Int /\ Tool(a) \in Int
  BY <1>1, <1>2, <1>3 DEF AxisValue, Mm, Tool
<1>5. \A v \in Vector : \A a \in Axes : v[a] \in Int
  BY Vectors
<1>6. Selectable(Modal(b).G12) /\ SystemOf(Modal(b).G12) \in Stored
  BY BlockWords, Systems
<1>7. System(b) \in Vector
  BY <1>1, <1>6 DEF System
<1>8. Offset(b) \in Vector
  <2>1. ASSUME NEW a \in Axes PROVE Offset(b)[a] \in Int
    <3>1. /\ gc.position[a] \in Int /\ System(b)[a] \in Int /\ gc.offset[a] \in Int
          /\ AxisValue(b, a) \in Int /\ Tool(a) \in Int
      BY <1>1, <1>4, <1>5, <1>7
    <3> QED
      BY <3>1 DEF Offset
  <2> QED
    BY <2>1, Vectors DEF Offset
<1>9. Target(b) \in Vector
  <2>1. ASSUME NEW a \in Axes PROVE Target(b)[a] \in Int
    <3>1. /\ gc.position[a] \in Int /\ System(b)[a] \in Int /\ gc.offset[a] \in Int
          /\ AxisValue(b, a) \in Int /\ Tool(a) \in Int
      BY <1>1, <1>4, <1>5, <1>7
    <3> QED
      BY <3>1 DEF Target
  <2>2. Target(b) = [a \in Axes |-> Target(b)[a]]
    BY DEF Target
  <2> QED
    BY <2>1, <2>2, Vectors
<1>10. Home(b) \in Vector
  <2>1. ASSUME NEW a \in Axes PROVE Home(b)[a] \in Int
    <3>1. HomeOf(Word(b, "G0")) \in Stored
      BY <1>1 DEF HomeOf, Stored, IndexG28, IndexG30
    <3>2. store[HomeOf(Word(b, "G0"))][a] \in Int /\ gc.position[a] \in Int
      BY <1>1, <1>5, <3>1
    <3> QED
      BY <3>2 DEF Home
  <2> QED
    BY <2>1, Vectors DEF Home
<1>11. ASSUME Word(b, "G0") = "G10" PROVE SystemData(b) \in Vector
  <2>1. Index(b) \in Stored
    <3>1. ~(CoordSelect(b) > N_COORDINATE_SYSTEM)
      BY <1>11 DEF Error, NonModalError
    <3>2. CoordSelect(b) \in Nat
      BY <1>2 DEF CoordSelect, ByteValues
    <3> QED
      BY <1>1, <1>6, <3>1, <3>2 DEF Index, Stored, IndexG30
  <2>2. ASSUME NEW a \in Axes PROVE SystemData(b)[a] \in Int
    <3>1. /\ gc.position[a] \in Int /\ gc.offset[a] \in Int /\ store[Index(b)][a] \in Int
          /\ AxisValue(b, a) \in Int /\ Tool(a) \in Int
      BY <1>1, <1>4, <1>5, <2>1
    <3> QED
      BY <3>1 DEF SystemData
  <2> QED
    BY <2>2, Vectors DEF SystemData
<1> QED
  BY <1>4, <1>7, <1>8, <1>9, <1>10, <1>11

(* A block that STEP 3 accepts: its types, its use of the axis words, and  *)
(* where it leads.                                                         *)
LEMMA CheckLineWorks == IInv /\ ParseInv /\ WorkInv /\ CheckLine => WorkInv'
<1> SUFFICES ASSUME IInv, ParseInv, WorkInv, CheckLine PROVE WorkInv'
  OBVIOUS
<1> USE DEF World, Others
<1>1. /\ UNCHANGED <<mode, reset, gc, store, queue, machine, spindle, coolant, syncing>>
      /\ pc = "words" /\ rest = {}
  BY DEF CheckLine
<1>2. UNCHANGED TypeOK /\ JogsApart /\ Types /\ ~syncing
  BY <1>1 DEF TypeOK, WorkInv, JogsApart
<1>3. CASE Error(block)
  <2>1. pc' = "fail" /\ UNCHANGED <<block, jogging>>
    BY <1>3 DEF CheckLine
  <2> QED
    BY <1>1, <1>2, <2>1 DEF WorkInv, JogsApart, Types, BlockTypes, Uses, Aims, Arrived, Before,
       Executing, Selecting
<1>4. CASE ~Error(block)
  <2> DEFINE b == block
  <2>1. pc' = (IF jogging THEN "jog" ELSE "speed") /\ block' = Prepared(b)
    BY <1>4 DEF CheckLine
  <2>2. /\ block'.modal = Modal(b) /\ block'.nonmodal = Word(b, "G0") /\ block'.axis = AxisExecuted(b)
        /\ block'.flow = (IF Word(b, "M4") = "M1" THEN "none" ELSE Word(b, "M4"))
        /\ block'.speed = (IF Has(b, "S") THEN b.values["S"] ELSE gc.speed)
        /\ block'.words = [a \in AxisWords(b) |-> AxisValue(b, a)]
        /\ block'.xyz = (IF Word(b, "G0") = "G92" THEN Offset(b) ELSE Target(b))
        /\ block'.system = System(b) /\ block'.limited = FALSE
        /\ block'.ijk = (IF Word(b, "G0") = "G10" THEN SystemData(b)
                         ELSE IF Word(b, "G0") \in {"G28", "G30"} THEN Home(b) ELSE Zero)
        /\ block'.sets = (Word(b, "G0") = "G10" /\ WordL(b) = 20)
    BY <2>1 DEF Prepared
  <2>3. AxisWords(b) \subseteq Axes
    BY DEF AxisWords
  <2>4. jogging => /\ Word(b, "M4") = "none" /\ Word(b, "G0") \in {"G53", "none"}
                   /\ Modal(b).G12 = gc.modal.G12
    <3>1. jogging => "M4" \notin DOMAIN b.commands /\ "G12" \notin DOMAIN b.commands
      BY <1>4 DEF Error, JogError
    <3>2. jogging => Word(b, "G0") \in {"G53", "none"}
      BY <1>4 DEF Error, JogError
    <3>3. "G12" \notin DOMAIN b.commands => Modal(b)["G12"] = gc.modal["G12"]
      BY DEF Modal, ModalGroups
    <3> QED
      BY <3>1, <3>2, <3>3 DEF Word
  <2>5. JogsApart'
    BY <1>1, <1>2, <2>1, <2>2, <2>4 DEF JogsApart
  <2>6. Types'
    <3>1. \A g \in ModalGroups : Modal(b)[g] \in Groups[g]
      <4> SUFFICES ASSUME NEW g \in ModalGroups PROVE Modal(b)[g] \in Groups[g]
        OBVIOUS
      <4>1. g \in DOMAIN b.commands => b.commands[g] \in Groups[g]
        BY <1>1, BlockWords DEF WorkInv
      <4>2. gc.modal[g] \in Groups[g]
        BY <1>2 DEF Types, TypeOK
      <4>3. "G1" \in Groups["G1"] /\ "G94" \in Groups["G5"]
        BY DEF Groups
      <4> QED
        BY <4>1, <4>2, <4>3 DEF Modal
    <3>2. {block'.xyz, block'.ijk, block'.system} \subseteq Vector
      <4>1. Zero \in Vector
        BY DEF Zero, Vector
      <4> QED
        BY <1>1, <1>2, <1>4, <2>2, <4>1, PreparedVectors
    <3>3. block'.speed \in Nat
      BY <1>1, <1>2, <2>2, BlockWords DEF Has, NotNegative, Types
    <3>4. DOMAIN block'.words \subseteq Axes /\ \A a \in DOMAIN block'.words : block'.words[a] \in Int
      BY <1>1, <1>2, <1>4, <2>2, <2>3, PreparedVectors
    <3> QED
      BY <1>1, <1>2, <2>2, <3>1, <3>2, <3>3, <3>4 DEF Types, BlockTypes
  <2>7. Uses'
    <3>1. Word(b, "G0") \in {"G10", "G92"} => AxisExecuted(b) = "nonmodal"
      BY <1>1, BlockWords DEF AxisExecuted, AxisOf
    <3> QED
      BY <2>1, <2>2, <3>1 DEF Uses
  <2>8. System(b) = SystemThen'
    BY <1>1, <2>1, <2>2, <2>4 DEF System, SystemThen, Selecting
  <2>9. Aims'
    <3> SUFFICES ASSUME NEW a \in AxisWords(b)
                 PROVE  /\ Aimed' => block'.xyz[a] = AxisValue(b, a) + System(b)[a] + gc.offset[a] + Tool(a)
                        /\ Word(b, "G0") = "G92" =>
                             block'.xyz[a] = gc.position[a] - System(b)[a] - AxisValue(b, a) - Tool(a)
                        /\ block'.sets =>
                             block'.ijk[a] = gc.position[a] - gc.offset[a] - AxisValue(b, a) - Tool(a)
      BY <1>1, <2>2, <2>8 DEF Aims, Tool
    <3>1. a \in Axes /\ AxisWords(b) # {}
      BY <2>3
    <3>2. ASSUME Aimed' PROVE block'.xyz[a] = AxisValue(b, a) + System(b)[a] + gc.offset[a] + Tool(a)
      <4>1. Word(b, "G0") = "none" /\ AxisExecuted(b) = "motion" /\ Modal(b).G3 = "G90"
        BY <2>2, <3>2 DEF Aimed
      <4>2. AxisOf(b) = "motion"
        BY <4>1 DEF AxisExecuted
      <4>3. block'.xyz = Target(b)
        BY <2>2, <4>1
      <4> QED
        BY <3>1, <4>1, <4>2, <4>3 DEF Target
    <3>3. ASSUME Word(b, "G0") = "G92"
          PROVE  block'.xyz[a] = gc.position[a] - System(b)[a] - AxisValue(b, a) - Tool(a)
      BY <2>2, <3>1, <3>3 DEF Offset
    <3>4. ASSUME block'.sets
          PROVE  block'.ijk[a] = gc.position[a] - gc.offset[a] - AxisValue(b, a) - Tool(a)
      <4>1. Word(b, "G0") = "G10" /\ WordL(b) = 20
        BY <2>2, <3>4
      <4>2. block'.ijk = SystemData(b)
        BY <2>2, <4>1
      <4> QED
        BY <3>1, <4>1, <4>2 DEF SystemData
    <3> QED
      BY <3>2, <3>3, <3>4
  <2>10. Arrived'
    BY <2>1 DEF Arrived
  <2> QED
    BY <2>5, <2>6, <2>7, <2>9, <2>10 DEF WorkInv
<1> QED
  BY <1>3, <1>4

(* What a step keeps that changes neither the coordinates nor the block.   *)
SameCoordinates ==
  /\ gc'.position = gc.position /\ gc'.system = gc.system /\ gc'.offset = gc.offset
  /\ gc'.length = gc.length /\ gc'.modal.G12 = gc.modal.G12
SameBlock ==
  /\ block'.words = block.words /\ block'.xyz = block.xyz /\ block'.ijk = block.ijk
  /\ block'.system = block.system /\ block'.modal = block.modal /\ block'.nonmodal = block.nonmodal
  /\ block'.axis = block.axis /\ block'.sets = block.sets /\ block'.index = block.index

LEMMA AimsKept ==
  ASSUME WorkInv, SameCoordinates, SameBlock, pc' = pc \/ (pc \in Selecting /\ pc' \in Selecting)
  PROVE  Uses' /\ Aims' /\ Arrived'
<1> USE DEF SameCoordinates, SameBlock, WorkInv
<1>1. Uses'
  BY DEF Uses, Executing, Selecting, Probing, Executes
<1>2. Aims'
  BY DEF Aims, Aimed, SystemThen, Tool, Before, Selecting
<1>3. Arrived'
  BY DEF Arrived, Reached, Aimed, WorkPosition, Selecting
<1> QED
  BY <1>1, <1>2, <1>3

LEMMA NotExecuting ==
  ASSUME pc' \notin Executing PROVE BlockTypes' /\ Uses' /\ Aims' /\ Arrived'
BY DEF BlockTypes, Uses, Aims, Arrived, Before, Executing, Selecting

LEMMA CutInTravel == TypeOK => Cut \subseteq [Axes -> Travel]
BY DEF TypeOK, Cut, Between

LEMMA QueueTakes ==
  ASSUME NEW S, NEW q \in Seq(S), NEW n \in Nat, Len(q) <= n
  PROVE  /\ q # <<>> => Head(q) \in S /\ Tail(q) \in Seq(S) /\ Len(Tail(q)) <= n
         /\ \A x \in S : Len(q) < n => Append(q, x) \in Seq(S) /\ Len(Append(q, x)) <= n
OBVIOUS

(* The parser leaves its coordinates in order if those that it changes are *)
(* vectors, and the modes if each is one of its group.                     *)
LEMMA ModeSet ==
  ASSUME NEW m, DOMAIN m = ModalGroups, \A g \in ModalGroups : m[g] \in Groups[g],
         NEW k \in ModalGroups, NEW name \in Groups[k]
  PROVE  LET n == [m EXCEPT ![k] = name]
         IN  DOMAIN n = ModalGroups /\ \A g \in ModalGroups : n[g] \in Groups[g]
OBVIOUS

GcTypes ==
  /\ {gc.system, gc.offset, gc.position} \subseteq Vector /\ gc.length \in Int /\ gc.speed \in Nat
  /\ \A g \in ModalGroups : gc.modal[g] \in Groups[g]
MachineTypes ==
  /\ mode \in {"IDLE", "CYCLE", "JOG", "HOLD", "ALARM", "CHECK"}
  /\ reset \in {"no", "asked", "cut", "locked", "abort"}
  /\ store \in [Stored -> Vector]
  /\ machine \in [Axes -> Travel] /\ queue \in Seq([Axes -> Travel]) /\ Len(queue) <= BlockBuffer
  /\ spindle \in {<<"M5", 0>>} \cup ({"M3", "M4"} \X Nat) /\ coolant \in Groups.M8

LEMMA TypeParts == Types <=> GcTypes /\ MachineTypes /\ BlockTypes
BY DEF Types, TypeOK, GcTypes, MachineTypes

LEMMA TypesAgain == ASSUME GcTypes', MachineTypes', BlockTypes' PROVE Types'
BY DEF Types, TypeOK, GcTypes, MachineTypes

LEMMA Constants ==
  /\ Travel \subseteq Int /\ 0 \in Travel /\ BlockBuffer \in Nat \ {0} /\ 0 \in Stored
  /\ [Axes -> Travel] \subseteq Vector /\ Zero \in Vector /\ Zero \in [Axes -> Travel]
  /\ "M9" \in Groups.M8 /\ "M8" \in Groups.M8
<1>1. /\ Travel \subseteq Int /\ 0 \in Travel /\ BlockBuffer \in Nat \ {0} /\ 0 \in Stored
  BY GcodeAssumption DEF Stored, IndexG30
<1>2. "M9" \in Groups.M8 /\ "M8" \in Groups.M8
  BY DEF Groups
<1> QED
  BY <1>1, <1>2 DEF Vector, Zero

(* What runs besides the parser changes modes and machine only, but for    *)
(* the jog cancel, the coolant and the initialization.                     *)
LEMMA StatesWork ==
  IInv /\ WorkInv /\ (Start \/ Move \/ EndCycle \/ Reset \/ TakeReset \/ Unlock \/ ToggleCheck \/ KillAlarm
                        \/ EndSync) => WorkInv'
<1> SUFFICES ASSUME IInv, WorkInv,
                    Start \/ Move \/ EndCycle \/ Reset \/ TakeReset \/ Unlock \/ ToggleCheck \/ KillAlarm \/ EndSync
             PROVE  WorkInv'
  OBVIOUS
<1> USE DEF Parser, Others, McReset, NextLine
<1>1. UNCHANGED <<gc, store, pc, line, rest, block, jogging>>
  BY DEF Start, Move, EndCycle, Reset, TakeReset, Unlock, ToggleCheck, KillAlarm, EndSync
<1>2. /\ syncing' => syncing
      /\ mode' = "JOG" => mode = "JOG"
  BY DEF Start, Move, EndCycle, Reset, TakeReset, Unlock, ToggleCheck, KillAlarm, EndSync
<1>3. JogsApart'
  BY <1>1, <1>2 DEF WorkInv, JogsApart
<1>4. Uses' /\ Aims' /\ Arrived'
  BY <1>1, AimsKept DEF SameCoordinates, SameBlock
<1>5. GcTypes /\ MachineTypes /\ BlockTypes
  BY TypeParts DEF WorkInv
<1>6. GcTypes'
  BY <1>1, <1>5 DEF GcTypes
<1>7. BlockTypes'
  <2>1. reset \in {"locked", "abort"} => reset' \in {"locked", "abort"} \/ pc = "idle"
    BY DEF Start, Move, EndCycle, Reset, TakeReset, Unlock, ToggleCheck, KillAlarm, EndSync
  <2> QED
    BY <1>1, <1>5, <2>1 DEF BlockTypes, Executing, Selecting
<1>8. MachineTypes'
  <2>1. /\ mode' \in {"IDLE", "CYCLE", "JOG", "HOLD", "ALARM", "CHECK"}
        /\ reset' \in {"no", "asked", "cut", "locked", "abort"}
    BY <1>5 DEF MachineTypes, Start, Move, EndCycle, Reset, TakeReset, Unlock, ToggleCheck, KillAlarm, EndSync
  <2>2. /\ spindle' = spindle \/ spindle' = <<"M5", 0>>
        /\ coolant' = coolant \/ coolant' = "M9"
    BY DEF Start, Move, EndCycle, Reset, TakeReset, Unlock, ToggleCheck, KillAlarm, EndSync
  <2>3. \/ UNCHANGED <<queue, machine>>
        \/ machine' \in Cut /\ UNCHANGED queue
        \/ queue # <<>> /\ machine' = Head(queue) /\ queue' = Tail(queue)
    BY DEF Start, Move, EndCycle, Reset, TakeReset, Unlock, ToggleCheck, KillAlarm, EndSync
  <2>4. /\ machine' \in [Axes -> Travel] /\ queue' \in Seq([Axes -> Travel])
        /\ Len(queue') <= BlockBuffer
    <3>1. /\ Cut \subseteq [Axes -> Travel] /\ BlockBuffer \in Nat
          /\ machine \in [Axes -> Travel] /\ queue \in Seq([Axes -> Travel])
          /\ Len(queue) <= BlockBuffer
      BY <1>5, Constants, CutInTravel DEF WorkInv, Types, MachineTypes
    <3> QED
      BY <2>3, <3>1, QueueTakes
  <2> QED
    BY <1>1, <1>5, <2>1, <2>2, <2>4, Constants DEF MachineTypes
<1> QED
  BY <1>3, <1>4, <1>6, <1>7, <1>8, TypesAgain DEF WorkInv

(* A jog cancel finds a jog that is not executed yet, or none.             *)
LEMMA JogCancelWorks == IInv /\ WorkInv /\ JogCancel => WorkInv'
<1> SUFFICES ASSUME IInv, WorkInv, JogCancel PROVE WorkInv'
  OBVIOUS
<1> USE DEF Parser
<1>1. /\ queue' = <<>> /\ mode = "JOG" /\ gc' = [gc EXCEPT !.position = machine'] /\ machine' \in Cut
      /\ UNCHANGED <<store, pc, line, rest, block, jogging, syncing, spindle, coolant, reset>>
      /\ mode' = "IDLE"
  BY DEF JogCancel, Cancelled
<1>2. DOMAIN gc = GcFields
  BY DEF IInv, Shapes
<1>3. /\ gc'.modal = gc.modal /\ gc'.system = gc.system /\ gc'.speed = gc.speed
      /\ gc'.offset = gc.offset /\ gc'.length = gc.length /\ gc'.position = machine'
  BY <1>1, <1>2 DEF GcFields
<1>4. pc \in {"idle", "jog"}
  <2>1. Polling /\ pc \in {"idle", "words", "fail", "jog", "flow"} /\ ~syncing
        /\ (pc = "flow" => block.flow = "none")
    BY <1>1 DEF JogCancel, WorkInv, JogsApart
  <2> QED
    BY <2>1 DEF Polling, Synchronizing, Planning
<1>5. JogsApart'
  BY <1>1, <1>3 DEF WorkInv, JogsApart
<1>6. Types'
  <2>1. GcTypes /\ MachineTypes /\ BlockTypes
    BY TypeParts DEF WorkInv
  <2>2. machine' \in [Axes -> Travel] /\ machine' \in Vector
    BY <1>1, CutInTravel, Constants DEF WorkInv, Types
  <2>3. queue' \in Seq([Axes -> Travel]) /\ Len(queue') <= BlockBuffer
    BY <1>1, Constants
  <2>4. GcTypes' /\ MachineTypes' /\ BlockTypes'
    BY <1>1, <1>3, <2>1, <2>2, <2>3 DEF GcTypes, MachineTypes, BlockTypes
  <2> QED
    BY <2>4, TypesAgain
<1>7. CASE pc = "idle"
  BY <1>1, <1>5, <1>6, <1>7, NotExecuting DEF WorkInv, Executing, Selecting
<1>8. CASE pc = "jog"
  <2>1. block.nonmodal \in {"G53", "none"}
    BY <1>8 DEF WorkInv, JogsApart
  <2>2. Uses'
    BY <1>1, <1>8 DEF WorkInv, Uses
  <2>3. ~block.sets
    BY <1>8, <2>1 DEF WorkInv, Uses, Executing
  <2>4. Aims'
    BY <1>1, <1>3, <1>8, <2>1, <2>3 DEF WorkInv, Aims, Aimed, SystemThen, Tool, Before, Selecting
  <2>5. Arrived'
    BY <1>1, <1>8 DEF Arrived
  <2> QED
    BY <1>5, <1>6, <2>2, <2>4, <2>5 DEF WorkInv
<1> QED
  BY <1>4, <1>7, <1>8

LEMMA ToggleCoolantWorks == IInv /\ WorkInv /\ ToggleCoolant => WorkInv'
<1> SUFFICES ASSUME IInv, WorkInv, ToggleCoolant PROVE WorkInv'
  OBVIOUS
<1> USE DEF Parser
<1>1. /\ UNCHANGED <<mode, reset, store, queue, machine, spindle, pc, line, rest, block, jogging, syncing>>
      /\ gc' = [gc EXCEPT !.modal.M8 = coolant'] /\ coolant' \in {"M8", "M9"}
  BY DEF ToggleCoolant
<1>2. DOMAIN gc = GcFields /\ DOMAIN gc.modal = ModalGroups
  BY DEF IInv, Shapes
<1>3. /\ gc'.modal = [gc.modal EXCEPT !.M8 = coolant'] /\ gc'.position = gc.position
      /\ gc'.system = gc.system /\ gc'.offset = gc.offset /\ gc'.length = gc.length
      /\ gc'.speed = gc.speed
  BY <1>1, <1>2 DEF GcFields
<1>4. gc'.modal.G12 = gc.modal.G12
  BY <1>2, <1>3 DEF ModalGroups
<1>5. GcTypes /\ MachineTypes /\ BlockTypes
  BY TypeParts DEF WorkInv
<1>6. \A g \in ModalGroups : gc'.modal[g] \in Groups[g]
  <2>1. "M8" \in ModalGroups /\ coolant' \in Groups["M8"]
    BY <1>1, Constants DEF ModalGroups
  <2> QED
    BY <1>2, <1>3, <1>5, <2>1, ModeSet DEF GcTypes
<1>7. GcTypes' /\ MachineTypes' /\ BlockTypes'
  <2>1. GcTypes'
    BY <1>3, <1>5, <1>6 DEF GcTypes
  <2>2. MachineTypes'
    BY <1>1, <1>5, Constants DEF MachineTypes
  <2>3. BlockTypes'
    BY <1>1, <1>5 DEF BlockTypes
  <2> QED
    BY <2>1, <2>2, <2>3
<1>8. Uses' /\ Aims' /\ Arrived'
  BY <1>1, <1>3, <1>4, AimsKept DEF SameCoordinates, SameBlock
<1>9. JogsApart'
  BY <1>1, <1>4 DEF WorkInv, JogsApart
<1> QED
  BY <1>7, <1>8, <1>9, TypesAgain DEF WorkInv

LEMMA GcInitTypes ==
  ASSUME Types, UNCHANGED <<store, machine>>, gc' = GcInit PROVE GcTypes'
<1>1. store[0] \in Vector /\ machine \in Vector
  BY Constants DEF Types, TypeOK
<1>2. /\ gc'.system = store[0] /\ gc'.offset = Zero /\ gc'.position = machine
      /\ gc'.length = 0 /\ gc'.speed = 0
      /\ gc'.modal = [G1 |-> "G0", G2 |-> "G17", G3 |-> "G90", G5 |-> "G94", G6 |-> "G21",
                      G8 |-> "G49", G12 |-> "G54", M7 |-> "M5", M8 |-> "M9"]
  BY DEF GcInit
<1>3. \A g \in ModalGroups : gc'.modal[g] \in Groups[g]
  BY <1>2 DEF ModalGroups, Groups
<1> QED
  BY <1>1, <1>2, <1>3, Constants DEF GcTypes

LEMMA InitializeWorks == IInv /\ WorkInv /\ Initialize => WorkInv'
<1> SUFFICES ASSUME IInv, WorkInv, Initialize PROVE WorkInv'
  OBVIOUS
<1> USE DEF Parser
<1>1. /\ pc = "idle" /\ queue' = <<>> /\ gc' = GcInit /\ spindle' = <<"M5", 0>> /\ coolant' = "M9"
      /\ reset' = "no" /\ mode' \in {"ALARM", "IDLE"}
      /\ UNCHANGED <<store, machine, pc, line, rest, block, syncing, jogging>>
  BY DEF Initialize
<1>2. JogsApart'
  BY <1>1 DEF WorkInv, JogsApart
<1>3. GcTypes'
  BY <1>1, GcInitTypes DEF WorkInv
<1>4. MachineTypes'
  BY <1>1, Constants DEF WorkInv, Types, TypeOK, MachineTypes
<1> QED
  BY <1>1, <1>2, <1>3, <1>4, TypesAgain, NotExecuting DEF WorkInv, Executing, Selecting

(* Outside STEP 4 nothing is claimed of the block.                         *)
LEMMA OutsideWorks ==
  ASSUME WorkInv, pc' \notin Executing, JogsApart', GcTypes', MachineTypes' PROVE WorkInv'
BY NotExecuting, TypesAgain DEF WorkInv

LEMMA LineWorks ==
  IInv /\ WorkInv /\ (ReceiveLine \/ ReceiveJog \/ ImportWord \/ Fail \/ Resume) => WorkInv'
<1> SUFFICES ASSUME IInv, WorkInv, ReceiveLine \/ ReceiveJog \/ ImportWord \/ Fail \/ Resume PROVE WorkInv'
  OBVIOUS
<1> USE DEF World, Others, NextLine, Take, Done
<1>1. /\ UNCHANGED <<reset, gc, store, queue, machine, spindle, coolant, syncing>>
      /\ pc \in {"idle", "words", "fail", "paused"} /\ pc' \in {"idle", "words", "fail"}
      /\ mode' = mode \/ mode' = "IDLE"
  BY DEF ReceiveLine, ReceiveJog, ImportWord, Fail, Resume
<1>2. GcTypes /\ MachineTypes
  BY TypeParts DEF WorkInv
<1>3. GcTypes' /\ MachineTypes'
  BY <1>1, <1>2 DEF GcTypes, MachineTypes
<1>4. JogsApart'
  <2>1. ~syncing
    BY <1>1 DEF WorkInv, JogsApart
  <2>2. mode' = "JOG" /\ pc' = "words" => jogging'
    BY DEF ReceiveLine, ReceiveJog, ImportWord, Fail, Resume, WorkInv, JogsApart
  <2> QED
    BY <1>1, <2>1, <2>2 DEF JogsApart
<1> QED
  BY <1>1, <1>3, <1>4, OutsideWorks DEF Executing, Selecting

(* STEP 4. Each of its steps is taken at a point of its own, with no jog   *)
(* under way before the motion.                                            *)
LEMMA NoJog ==
  ASSUME WorkInv, pc \in Executing \ {"jog", "flow"}, mode' = mode, pc' # "jog",
         syncing' => pc' \in {"select", "nonmodal", "motion", "end"}
  PROVE  mode # "JOG" /\ JogsApart'
BY DEF WorkInv, JogsApart, Executing, Selecting

LEMMA BlockKept ==
  ASSUME WorkInv, pc \in Executing, block' = block, reset' = reset PROVE BlockTypes'
BY DEF WorkInv, Types, BlockTypes

LEMMA SetSpindleTypes ==
  ASSUME MachineTypes, NEW direction \in Groups["M7"], NEW speed \in Nat, SetSpindle(direction, speed)
  PROVE  spindle' \in {<<"M5", 0>>} \cup ({"M3", "M4"} \X Nat)
<1>1. spindle' = spindle \/ spindle' = Rpm(direction, speed)
  BY DEF SetSpindle
<1>2. direction \in {"M3", "M4", "M5"}
  BY DEF Groups
<1>3. Rpm(direction, speed) \in {<<"M5", 0>>} \cup ({"M3", "M4"} \X Nat)
  BY <1>2 DEF Rpm
<1> QED
  BY <1>1, <1>3 DEF MachineTypes

(* The steps that set modes and outputs.                                   *)
LEMMA ModesStep ==
  ASSUME IInv, WorkInv, SetSpeed \/ SpindleControl \/ CoolantControl \/ Dwell
  PROVE  /\ pc \in {"speed", "spindle", "coolant", "dwell"} /\ pc' \in Selecting
         /\ UNCHANGED <<mode, reset, store, queue, machine, syncing, block>>
         /\ SameCoordinates /\ gc'.speed \in {gc.speed, block.speed}
         /\ \A g \in ModalGroups : gc'.modal[g] \in {gc.modal[g], block.modal[g]}
         /\ \/ spindle' = spindle
            \/ \E d \in {gc.modal.M7, block.modal.M7} : SetSpindle(d, block.speed)
         /\ coolant' \in {coolant, block.modal.M8}
<1> USE DEF Step, Selecting, SameCoordinates
<1>1. DOMAIN gc = GcFields /\ DOMAIN gc.modal = ModalGroups
  BY DEF IInv, Shapes
<1>2. CASE SetSpeed
  <2>1. gc' = [gc EXCEPT !.modal.G5 = block.modal.G5, !.feed = block.feed, !.speed = block.speed]
    BY <1>2 DEF SetSpeed
  <2>2. /\ gc'.modal = [gc.modal EXCEPT !.G5 = block.modal.G5] /\ gc'.speed = block.speed
        /\ gc'.position = gc.position /\ gc'.system = gc.system /\ gc'.offset = gc.offset
        /\ gc'.length = gc.length
    BY <1>1, <2>1 DEF GcFields
  <2>3. SameCoordinates /\ \A g \in ModalGroups : gc'.modal[g] \in {gc.modal[g], block.modal[g]}
    BY <1>1, <2>2 DEF ModalGroups
  <2> QED
    BY <1>2, <2>2, <2>3 DEF SetSpeed
<1>3. CASE SpindleControl
  <2>1. gc' = [gc EXCEPT !.tool = block.tool, !.modal.M7 = block.modal.M7]
    BY <1>3 DEF SpindleControl
  <2>2. /\ gc'.modal = [gc.modal EXCEPT !.M7 = block.modal.M7] /\ gc'.speed = gc.speed
        /\ gc'.position = gc.position /\ gc'.system = gc.system /\ gc'.offset = gc.offset
        /\ gc'.length = gc.length
    BY <1>1, <2>1 DEF GcFields
  <2>3. SameCoordinates /\ \A g \in ModalGroups : gc'.modal[g] \in {gc.modal[g], block.modal[g]}
    BY <1>1, <2>2 DEF ModalGroups
  <2> QED
    BY <1>3, <2>2, <2>3 DEF SpindleControl
<1>4. CASE CoolantControl
  <2>1. gc' = [gc EXCEPT !.modal.M8 = block.modal.M8]
    BY <1>4 DEF CoolantControl
  <2>2. /\ gc'.modal = [gc.modal EXCEPT !.M8 = block.modal.M8] /\ gc'.speed = gc.speed
        /\ gc'.position = gc.position /\ gc'.system = gc.system /\ gc'.offset = gc.offset
        /\ gc'.length = gc.length
    BY <1>1, <2>1 DEF GcFields
  <2>3. SameCoordinates /\ \A g \in ModalGroups : gc'.modal[g] \in {gc.modal[g], block.modal[g]}
    BY <1>1, <2>2 DEF ModalGroups
  <2>4. coolant' \in {coolant, block.modal.M8}
    BY <1>4 DEF CoolantControl, SetCoolant
  <2> QED
    BY <1>4, <2>2, <2>3, <2>4 DEF CoolantControl
<1>5. CASE Dwell
  <2>1. gc' = [gc EXCEPT !.modal.G2 = block.modal.G2, !.modal.G6 = block.modal.G6]
    BY <1>5 DEF Dwell
  <2>2. /\ gc'.modal = [gc.modal EXCEPT !.G2 = block.modal.G2, !.G6 = block.modal.G6]
        /\ gc'.position = gc.position /\ gc'.system = gc.system /\ gc'.offset = gc.offset
        /\ gc'.length = gc.length /\ gc'.speed = gc.speed
    BY <1>1, <2>1 DEF GcFields
  <2>3. SameCoordinates /\ \A g \in ModalGroups : gc'.modal[g] \in {gc.modal[g], block.modal[g]}
    BY <1>1, <2>2 DEF ModalGroups
  <2> QED
    BY <1>5, <2>2, <2>3 DEF Dwell
<1> QED
  BY <1>2, <1>3, <1>4, <1>5

LEMMA ModesWork ==
  IInv /\ WorkInv /\ (SetSpeed \/ SpindleControl \/ CoolantControl \/ Dwell) => WorkInv'
<1> SUFFICES ASSUME IInv, WorkInv, SetSpeed \/ SpindleControl \/ CoolantControl \/ Dwell PROVE WorkInv'
  OBVIOUS
<1>1. /\ pc \in Executing \ {"jog", "flow"} /\ pc \in Selecting /\ pc' \in Selecting
      /\ UNCHANGED <<mode, reset, store, queue, machine, syncing, block>>
      /\ SameCoordinates /\ SameBlock
  BY ModesStep DEF Executing, Selecting, SameBlock
<1>2. GcTypes /\ MachineTypes /\ BlockTypes
  BY TypeParts DEF WorkInv
<1>3. /\ block.speed \in Nat /\ \A g \in ModalGroups : block.modal[g] \in Groups[g]
      /\ "M7" \in ModalGroups /\ "M8" \in ModalGroups
  BY <1>1, <1>2 DEF BlockTypes, ModalGroups
<1>4. GcTypes'
  BY <1>1, <1>2, <1>3, ModesStep DEF GcTypes, SameCoordinates
<1>5. MachineTypes'
  <2>1. spindle' \in {<<"M5", 0>>} \cup ({"M3", "M4"} \X Nat)
    <3>1. CASE spindle' = spindle
      BY <1>2, <3>1 DEF MachineTypes
    <3>2. ASSUME NEW d \in {gc.modal.M7, block.modal.M7}, SetSpindle(d, block.speed)
          PROVE  spindle' \in {<<"M5", 0>>} \cup ({"M3", "M4"} \X Nat)
      <4>1. d \in Groups["M7"]
        BY <1>2, <1>3 DEF GcTypes
      <4> QED
        BY <1>2, <1>3, <3>2, <4>1, SetSpindleTypes
    <3> QED
      BY <3>1, <3>2, ModesStep
  <2>2. coolant' \in Groups.M8
    BY <1>2, <1>3, ModesStep DEF MachineTypes
  <2> QED
    BY <1>1, <1>2, <2>1, <2>2 DEF MachineTypes
<1>6. BlockTypes'
  BY <1>1, BlockKept
<1>7. Uses' /\ Aims' /\ Arrived'
  BY <1>1, AimsKept
<1>8. JogsApart'
  <2>1. syncing => pc = "select"
    BY <1>1 DEF WorkInv, JogsApart, Selecting
  <2>2. ~syncing
    BY <2>1, ModesStep
  <2> QED
    BY <1>1, <2>2, NoJog DEF Selecting
<1> QED
  BY <1>4, <1>5, <1>6, <1>7, <1>8, TypesAgain DEF WorkInv

(* G43.1 and G49 leave nothing for a motion of the line.                   *)
LEMMA ToolLengthWorks == IInv /\ WorkInv /\ ToolLength => WorkInv'
<1> SUFFICES ASSUME IInv, WorkInv, ToolLength PROVE WorkInv'
  OBVIOUS
<1> DEFINE length == IF block.modal.G8 = "G49" THEN 0 ELSE block.xyz[ToolAxis]
<1>1. /\ pc = "length" /\ pc' = "select" /\ ~syncing
      /\ UNCHANGED <<mode, reset, store, queue, machine, spindle, coolant, block>>
  BY DEF ToolLength, Step
<1>2. DOMAIN gc = GcFields /\ DOMAIN gc.modal = ModalGroups
  BY DEF IInv, Shapes
<1>3. GcTypes /\ MachineTypes /\ BlockTypes
  BY TypeParts DEF WorkInv
<1>4. MachineTypes' /\ BlockTypes'
  BY <1>1, <1>3, BlockKept DEF MachineTypes, Executing, Selecting
<1>5. JogsApart'
  BY <1>1, NoJog DEF Executing, Selecting
<1>6. CASE UNCHANGED gc
  <2>1. GcTypes'
    BY <1>3, <1>6 DEF GcTypes
  <2>2. Uses' /\ Aims' /\ Arrived'
    BY <1>1, <1>6, AimsKept DEF SameCoordinates, SameBlock, Selecting
  <2> QED
    BY <1>4, <1>5, <2>1, <2>2, TypesAgain DEF WorkInv
<1>7. CASE block.axis = "length" /\ gc' = [gc EXCEPT !.modal.G8 = block.modal.G8, !.length = length]
  <2>1. /\ gc'.modal = [gc.modal EXCEPT !.G8 = block.modal.G8] /\ gc'.length = length
        /\ gc'.position = gc.position /\ gc'.system = gc.system /\ gc'.offset = gc.offset
        /\ gc'.speed = gc.speed
    BY <1>2, <1>7 DEF GcFields
  <2>2. length \in Int
    <3>1. pc \in Executing /\ ToolAxis \in Axes
      BY <1>1 DEF Executing, Selecting, ToolAxis, Axes
    <3> QED
      BY <1>3, <3>1 DEF BlockTypes, Vector
  <2>3. \A g \in ModalGroups : gc'.modal[g] \in Groups[g]
    <3>1. pc \in Executing /\ "G8" \in ModalGroups
      BY <1>1 DEF Executing, Selecting, ModalGroups
    <3> QED
      BY <1>2, <1>3, <2>1, <3>1, ModeSet DEF BlockTypes, GcTypes
  <2>4. GcTypes'
    BY <1>3, <2>1, <2>2, <2>3 DEF GcTypes
  <2>5. ~Aimed /\ block.nonmodal # "G92" /\ ~block.sets
    BY <1>1, <1>7 DEF WorkInv, Uses, Aimed, Executing, Selecting
  <2>6. Uses'
    BY <1>1 DEF WorkInv, Uses, Executing, Selecting
  <2>7. Aims' /\ Arrived'
    BY <1>1, <2>5 DEF Aims, Aimed, Arrived
  <2> QED
    BY <1>4, <1>5, <2>4, <2>6, <2>7, TypesAgain DEF WorkInv
<1> QED
  BY <1>6, <1>7 DEF ToolLength

LEMMA SelectSystemWorks == IInv /\ WorkInv /\ SelectSystem => WorkInv'
<1> SUFFICES ASSUME IInv, WorkInv, SelectSystem PROVE WorkInv'
  OBVIOUS
<1>1. /\ pc = "select" /\ pc' = "nonmodal" /\ pc \in Executing /\ pc \in Selecting
      /\ UNCHANGED <<mode, reset, store, queue, machine, spindle, coolant, block>>
      /\ syncing' = (gc.modal.G12 # block.modal.G12)
      /\ gc' = [gc EXCEPT !.modal.G12 = block.modal.G12, !.modal.G3 = block.modal.G3,
                          !.system = IF syncing' THEN block.system ELSE @]
  BY DEF SelectSystem, Step, Executing, Selecting
<1>2. DOMAIN gc = GcFields /\ DOMAIN gc.modal = ModalGroups
  BY DEF IInv, Shapes
<1>3. GcTypes /\ MachineTypes /\ BlockTypes
  BY TypeParts DEF WorkInv
<1>4. /\ gc'.modal = [gc.modal EXCEPT !.G12 = block.modal.G12, !.G3 = block.modal.G3]
      /\ gc'.system = SystemThen /\ gc'.position = gc.position /\ gc'.offset = gc.offset
      /\ gc'.length = gc.length /\ gc'.speed = gc.speed
  BY <1>1, <1>2 DEF GcFields, SystemThen
<1>5. MachineTypes' /\ BlockTypes'
  BY <1>1, <1>3, BlockKept DEF MachineTypes
<1>6. JogsApart'
  BY <1>1, NoJog
<1>7. GcTypes'
  <2>1. SystemThen \in Vector
    BY <1>1, <1>3 DEF GcTypes, BlockTypes, SystemThen
  <2>2. \A g \in ModalGroups : gc'.modal[g] \in {gc.modal[g], block.modal[g]}
    BY <1>2, <1>4 DEF ModalGroups
  <2>3. \A g \in ModalGroups : gc'.modal[g] \in Groups[g]
    BY <1>1, <1>3, <2>2 DEF GcTypes, BlockTypes
  <2> QED
    BY <1>3, <1>4, <2>1, <2>3 DEF GcTypes
<1>8. Uses'
  BY <1>1 DEF WorkInv, Uses, Executing, Selecting
<1>9. Aims'
  <2>1. SystemThen' = SystemThen
    BY <1>1, <1>4 DEF SystemThen, Selecting
  <2>2. Aimed' = Aimed /\ pc \in Before /\ \A a : Tool(a)' = Tool(a)
    BY <1>1, <1>4 DEF Aimed, Tool, Before
  <2> QED
    BY <1>1, <1>4, <2>1, <2>2 DEF WorkInv, Aims
<1>10. Arrived'
  BY <1>1 DEF Arrived
<1> QED
  BY <1>5, <1>6, <1>7, <1>8, <1>9, <1>10, TypesAgain DEF WorkInv

(* G92 and G10 L20 put the work position where they are programmed.        *)
LEMMA NonModalStep ==
  ASSUME IInv, WorkInv, NonModal
  PROVE  /\ DOMAIN gc' = GcFields /\ gc'.modal = gc.modal /\ gc'.position = gc.position
         /\ gc'.length = gc.length /\ gc'.speed = gc.speed
         /\ gc'.offset = CASE block.nonmodal = "G92"   -> block.xyz
                           [] block.nonmodal = "G92.1" -> Zero
                           [] OTHER                    -> gc.offset
         /\ gc'.system = IF block.nonmodal = "G10" /\ SystemOf(gc.modal.G12) = block.index
                         THEN block.ijk ELSE gc.system
<1>1. DOMAIN gc = GcFields
  BY DEF IInv, Shapes
<1>2. CASE block.nonmodal = "G10"
  <2>1. gc' = Written
    BY <1>2 DEF NonModal
  <2> QED
    BY <1>1, <1>2, <2>1 DEF Written, GcFields
<1>3. CASE block.nonmodal = "G92"
  <2>1. gc' = [gc EXCEPT !.offset = block.xyz]
    BY <1>3 DEF NonModal
  <2> QED
    BY <1>1, <1>3, <2>1 DEF GcFields
<1>4. CASE block.nonmodal = "G92.1"
  <2>1. gc' = [gc EXCEPT !.offset = Zero]
    BY <1>4 DEF NonModal
  <2> QED
    BY <1>1, <1>4, <2>1 DEF GcFields
<1>5. CASE block.nonmodal \notin {"G10", "G92", "G92.1"}
  <2>1. gc' = gc
    BY <1>5 DEF NonModal
  <2> QED
    BY <1>1, <1>5, <2>1
<1> QED
  BY <1>2, <1>3, <1>4, <1>5

LEMMA NonModalWorks == IInv /\ WorkInv /\ NonModal => WorkInv'
<1> SUFFICES ASSUME IInv, WorkInv, NonModal PROVE WorkInv'
  OBVIOUS
<1>1. /\ pc = "nonmodal" /\ pc' \in {"motion", "home", "intermediate"} /\ pc \in Executing
      /\ UNCHANGED <<mode, reset, queue, machine, spindle, coolant, block>>
      /\ block.nonmodal \notin {"G28", "G30"} <=> pc' = "motion"
      /\ syncing' => block.nonmodal \in {"G92", "G92.1", "G10"}
  <2>1. /\ pc = "nonmodal" /\ pc \in Executing
        /\ UNCHANGED <<mode, reset, queue, machine, spindle, coolant, block>>
    BY DEF NonModal, Executing
  <2>2. pc' = IF block.nonmodal \notin {"G28", "G30"} THEN "motion"
              ELSE IF block.axis = "none" THEN "home" ELSE "intermediate"
    BY DEF NonModal
  <2>3. /\ pc' \in {"motion", "home", "intermediate"}
        /\ block.nonmodal \notin {"G28", "G30"} <=> pc' = "motion"
    BY <2>2
  <2>4. syncing' => block.nonmodal \in {"G92", "G92.1", "G10"}
    BY DEF NonModal
  <2> QED
    BY <2>1, <2>3, <2>4
<1>2. GcTypes /\ MachineTypes /\ BlockTypes /\ Zero \in Vector
  BY TypeParts, Constants DEF WorkInv
<1>3. {block.xyz, block.ijk} \subseteq Vector
  BY <1>1, <1>2 DEF BlockTypes
<1>4. GcTypes'
  <2>1. gc'.offset \in Vector /\ gc'.system \in Vector
    BY <1>2, <1>3, NonModalStep DEF GcTypes
  <2> QED
    BY <1>2, <2>1, NonModalStep DEF GcTypes
<1>5. MachineTypes'
  <2>1. store' \in [Stored -> Vector]
    <3>1. /\ \/ store' = store
             \/ \E i : store' = [store EXCEPT ![i] = block.ijk]
             \/ \E i : store' = [store EXCEPT ![i] = gc.position]
      BY DEF NonModal
    <3> QED
      BY <1>2, <1>3, <3>1 DEF MachineTypes, GcTypes
  <2> QED
    BY <1>1, <1>2, <2>1 DEF MachineTypes
<1>6. BlockTypes'
  BY <1>1, BlockKept
<1>7. JogsApart'
  BY <1>1, NoJog
<1>8. Uses'
  BY <1>1 DEF WorkInv, Uses, Executing, Selecting
<1>9. Aims'
  <2>1. pc' \notin Before /\ SystemThen = gc.system /\ SystemThen' = gc'.system
    BY <1>1 DEF Before, Selecting, SystemThen
  <2>2. Aimed' = Aimed /\ \A a : Tool(a)' = Tool(a)
    BY <1>1, NonModalStep DEF Aimed, Tool
  <2>3. Aimed => gc'.system = gc.system /\ gc'.offset = gc.offset
    BY NonModalStep DEF Aimed
  <2> QED
    BY <1>1, <2>1, <2>2, <2>3 DEF WorkInv, Aims, Before
<1>10. Arrived'
  <2> SUFFICES ASSUME pc' = "motion", Reached', NEW a \in DOMAIN block.words
               PROVE  WorkPosition(gc', a) = block.words[a]
    BY <1>1 DEF Arrived
  <2>1. /\ gc.position[a] \in Int /\ gc.system[a] \in Int /\ gc.offset[a] \in Int
        /\ block.words[a] \in Int /\ Tool(a) \in Int
    BY <1>1, <1>2 DEF GcTypes, BlockTypes, Vector, Tool
  <2>2. SystemThen = gc.system /\ pc \in Before
    BY <1>1 DEF SystemThen, Before, Selecting
  <2>3. WorkPosition(gc', a) = gc.position[a] - gc'.system[a] - gc'.offset[a] - Tool(a)
    BY NonModalStep DEF WorkPosition, Tool
  <2>4. CASE block.nonmodal = "G92"
    <3>1. block.xyz[a] = gc.position[a] - gc.system[a] - block.words[a] - Tool(a)
      BY <2>2, <2>4 DEF WorkInv, Aims
    <3>2. gc'.offset = block.xyz /\ gc'.system = gc.system
      BY <2>4, NonModalStep
    <3> QED
      BY <2>1, <2>3, <3>1, <3>2
  <2>5. CASE block.sets /\ SystemOf(gc.modal.G12) = block.index
    <3>1. block.ijk[a] = gc.position[a] - gc.offset[a] - block.words[a] - Tool(a)
      BY <2>2, <2>5 DEF WorkInv, Aims
    <3>2. block.nonmodal = "G10"
      BY <1>1, <2>5 DEF WorkInv, Uses
    <3>3. gc'.offset = gc.offset /\ gc'.system = block.ijk
      BY <2>5, <3>2, NonModalStep
    <3> QED
      BY <2>1, <2>3, <3>1, <3>3
  <2> QED
    BY <1>1, <2>4, <2>5, NonModalStep DEF Reached
<1> QED
  BY <1>4, <1>5, <1>6, <1>7, <1>8, <1>9, <1>10, TypesAgain DEF WorkInv

(* A target that is planned is within the limits.                          *)
LEMMA PlanTypes ==
  ASSUME WorkInv, pc \in Executing, mode # "JOG", NEW target \in Vector, Plan(target)
  PROVE  queue' \in Seq([Axes -> Travel]) /\ Len(queue') <= BlockBuffer
<1>1. queue \in Seq([Axes -> Travel]) /\ Len(queue) <= BlockBuffer /\ BlockBuffer \in Nat
  BY Constants DEF WorkInv, Types, TypeOK
<1>2. CASE Check \/ Abort
  BY <1>1, <1>2 DEF Plan
<1>3. CASE ~(Check \/ Abort)
  <2>1. /\ reset = "no" /\ Len(queue) < BlockBuffer /\ ~Limited(target)
        /\ queue' = queue \/ queue' = Append(queue, target)
    BY <1>3 DEF Plan
  <2>2. ~block.limited
    BY <2>1 DEF WorkInv, Types, BlockTypes
  <2>3. \A a \in Axes : target[a] \in Travel
    BY <2>1, <2>2 DEF Limited, Outside
  <2>4. target \in [Axes -> Travel]
    BY <2>3, Vectors
  <2> QED
    BY <1>1, <2>1, <2>4, QueueTakes
<1> QED
  BY <1>2, <1>3

LEMMA SoftLimitWorks == IInv /\ WorkInv /\ SoftLimit => WorkInv'
<1> SUFFICES ASSUME IInv, WorkInv, SoftLimit PROVE WorkInv'
  OBVIOUS
<1>1. /\ pc \in {"intermediate", "home", "motion"} /\ reset' = "locked" /\ mode' = "ALARM"
      /\ machine' \in Cut /\ queue' = <<>> /\ spindle' = <<"M5", 0>> /\ coolant' = "M9"
      /\ block' = [block EXCEPT !.limited = TRUE] /\ UNCHANGED <<gc, store, pc, syncing>>
  BY DEF SoftLimit
<1>2. pc \in Executing /\ DOMAIN block = BlockFields
  BY <1>1 DEF IInv, Shapes, Executing, Selecting
<1>3. SameBlock /\ SameCoordinates /\ block'.speed = block.speed /\ block'.flow = block.flow
  BY <1>1, <1>2 DEF SameBlock, SameCoordinates, BlockFields
<1>4. GcTypes /\ MachineTypes /\ BlockTypes
  BY TypeParts DEF WorkInv
<1>5. GcTypes'
  BY <1>1, <1>4 DEF GcTypes
<1>6. MachineTypes'
  BY <1>1, <1>4, Constants, CutInTravel DEF MachineTypes, WorkInv, Types
<1>7. BlockTypes'
  BY <1>1, <1>2, <1>3, <1>4 DEF BlockTypes, SameBlock
<1>8. JogsApart'
  BY <1>1 DEF WorkInv, JogsApart
<1>9. Uses' /\ Aims' /\ Arrived'
  BY <1>1, <1>3, AimsKept
<1> QED
  BY <1>5, <1>6, <1>7, <1>8, <1>9, TypesAgain DEF WorkInv

(* G28 and G30 leave nothing for a motion of the line either.              *)
LEMMA HomingMotionsWork == IInv /\ WorkInv /\ (Intermediate \/ GoHome) => WorkInv'
<1> SUFFICES ASSUME IInv, WorkInv, Intermediate \/ GoHome PROVE WorkInv'
  OBVIOUS
<1> DEFINE target == IF pc = "home" THEN block.ijk ELSE block.xyz
<1>1. /\ pc \in {"intermediate", "home"} /\ pc' \in {"home", "motion"} /\ ~syncing
      /\ Plan(target) /\ block' = [block EXCEPT !.limited = FALSE]
      /\ UNCHANGED <<mode, reset, store, machine, spindle, coolant, syncing>>
      /\ gc' = gc \/ gc' = [gc EXCEPT !.position = block.ijk]
  BY DEF Intermediate, GoHome, Step, Arrives
<1>2. pc \in Executing /\ DOMAIN block = BlockFields /\ DOMAIN gc = GcFields
  BY <1>1 DEF IInv, Shapes, Executing, Selecting
<1>3. /\ SameBlock /\ block'.speed = block.speed /\ block'.limited = FALSE
      /\ gc'.modal = gc.modal /\ gc'.system = gc.system /\ gc'.offset = gc.offset
      /\ gc'.length = gc.length /\ gc'.speed = gc.speed /\ gc'.position \in {gc.position, block.ijk}
  BY <1>1, <1>2 DEF SameBlock, GcFields, BlockFields
<1>4. GcTypes /\ MachineTypes /\ BlockTypes
  BY TypeParts DEF WorkInv
<1>5. block.nonmodal \in {"G28", "G30"} /\ {block.ijk, block.xyz} \subseteq Vector
  BY <1>1, <1>2, <1>4 DEF WorkInv, Uses, BlockTypes
<1>6. JogsApart' /\ mode # "JOG"
  BY <1>1, <1>2, NoJog
<1>7. GcTypes'
  BY <1>3, <1>4, <1>5 DEF GcTypes
<1>8. MachineTypes'
  BY <1>1, <1>2, <1>4, <1>5, <1>6, PlanTypes DEF MachineTypes
<1>9. BlockTypes'
  BY <1>1, <1>2, <1>3, <1>4 DEF BlockTypes, SameBlock
<1>10. Uses'
  BY <1>1, <1>2, <1>3, <1>5 DEF WorkInv, Uses, SameBlock, Executing, Selecting
<1>11. ~block.sets
  BY <1>2, <1>5 DEF WorkInv, Uses
<1>12. Aims' /\ Arrived'
  BY <1>1, <1>3, <1>5, <1>11 DEF Aims, Aimed, Before, Selecting, Arrived, Reached, SameBlock
<1> QED
  BY <1>6, <1>7, <1>8, <1>9, <1>10, <1>12, TypesAgain DEF WorkInv

(* G0 to G3 end at their target; a probe is none of them.                  *)
LEMMA MotionWorks == IInv /\ WorkInv /\ Motion => WorkInv'
<1> SUFFICES ASSUME IInv, WorkInv, Motion PROVE WorkInv'
  OBVIOUS
<1>1. /\ pc = "motion" /\ pc' = "flow" /\ pc \in Executing /\ ~syncing
      /\ UNCHANGED <<mode, reset, store, machine, spindle, coolant, syncing, block>>
  BY DEF Motion, Step, Executing
<1>2. \/ Executes /\ Plan(block.xyz) /\ gc' = [gc EXCEPT !.modal.G1 = block.modal.G1, !.position = block.xyz]
      \/ ~Executes /\ UNCHANGED queue /\ gc' = [gc EXCEPT !.modal.G1 = block.modal.G1]
  BY DEF Motion
<1>3. DOMAIN gc = GcFields /\ DOMAIN gc.modal = ModalGroups
  BY DEF IInv, Shapes
<1>4. /\ gc'.modal = [gc.modal EXCEPT !.G1 = block.modal.G1] /\ gc'.speed = gc.speed
      /\ gc'.system = gc.system /\ gc'.offset = gc.offset /\ gc'.length = gc.length
      /\ gc'.position = IF Executes THEN block.xyz ELSE gc.position
  BY <1>2, <1>3 DEF GcFields
<1>5. GcTypes /\ MachineTypes /\ BlockTypes
  BY TypeParts DEF WorkInv
<1>6. /\ block.xyz \in Vector /\ \A a \in DOMAIN block.words : a \in Axes /\ block.words[a] \in Int
      /\ block.modal.G1 \in Groups["G1"] /\ "G1" \in ModalGroups
  BY <1>1, <1>5 DEF BlockTypes, ModalGroups
<1>7. JogsApart' /\ mode # "JOG"
  BY <1>1, NoJog
<1>8. GcTypes'
  <2>1. \A g \in ModalGroups : gc'.modal[g] \in Groups[g]
    BY <1>3, <1>4, <1>5, <1>6, ModeSet DEF GcTypes
  <2> QED
    BY <1>4, <1>5, <1>6, <2>1 DEF GcTypes
<1>9. MachineTypes'
  <2>1. queue' \in Seq([Axes -> Travel]) /\ Len(queue') <= BlockBuffer
    BY <1>1, <1>2, <1>5, <1>6, <1>7, PlanTypes DEF MachineTypes
  <2> QED
    BY <1>1, <1>5, <2>1 DEF MachineTypes
<1>10. BlockTypes'
  BY <1>1, BlockKept
<1>11. Uses' /\ Aims'
  BY <1>1 DEF WorkInv, Uses, Aims, Before, Executing, Selecting
<1>12. Arrived'
  <2> SUFFICES ASSUME Reached', NEW a \in DOMAIN block.words PROVE WorkPosition(gc', a) = block.words[a]
    BY <1>1 DEF Arrived
  <2>1. gc'.modal.G12 = gc.modal.G12
    BY <1>3, <1>4 DEF ModalGroups
  <2>2. CASE Aimed
    <3>1. Executes /\ pc \notin Selecting
      BY <1>1, <2>2 DEF Aimed, Executes, Selecting
    <3>2. block.xyz[a] = block.words[a] + gc.system[a] + gc.offset[a] + Tool(a)
      BY <1>1, <2>2, <3>1 DEF WorkInv, Aims, SystemThen
    <3>3. WorkPosition(gc', a) = block.xyz[a] - gc.system[a] - gc.offset[a] - Tool(a)
      BY <1>4, <3>1 DEF WorkPosition, Tool
    <3>4. /\ block.words[a] \in Int /\ gc.system[a] \in Int /\ gc.offset[a] \in Int /\ Tool(a) \in Int
      BY <1>5, <1>6 DEF GcTypes, Vector, Tool
    <3> QED
      BY <3>2, <3>3, <3>4
  <2>3. CASE block.nonmodal = "G92" \/ (block.sets /\ SystemOf(gc.modal.G12) = block.index)
    <3>1. ~Executes
      BY <1>1, <2>3 DEF WorkInv, Uses, Executes
    <3>2. WorkPosition(gc', a) = WorkPosition(gc, a)
      BY <1>4, <3>1 DEF WorkPosition
    <3> QED
      BY <1>1, <2>3, <3>2 DEF WorkInv, Arrived, Reached
  <2>4. Aimed' = Aimed
    BY <1>1 DEF Aimed
  <2> QED
    BY <1>1, <2>1, <2>2, <2>3, <2>4 DEF Reached
<1> QED
  BY <1>7, <1>8, <1>9, <1>10, <1>11, <1>12, TypesAgain DEF WorkInv

(* A probe reaches nothing that is claimed.                                *)
LEMMA ProbeApart ==
  ASSUME WorkInv, Probing, pc \in Executing
  PROVE  ~Aimed /\ block.nonmodal # "G92" /\ ~block.sets
BY DEF WorkInv, Uses, Probing, Executes, Aimed, Probes

LEMMA StartProbeWorks == IInv /\ WorkInv /\ StartProbe => WorkInv'
<1> SUFFICES ASSUME IInv, WorkInv, StartProbe PROVE WorkInv'
  OBVIOUS
<1>1. /\ pc = "motion" /\ pc' \in {"flow", "probing"} /\ pc \in Executing /\ ~syncing /\ Probing
      /\ UNCHANGED <<reset, store, machine, spindle, coolant, syncing, block>>
      /\ mode' \in {mode, "ALARM", "CYCLE"}
      /\ \/ gc' = [gc EXCEPT !.modal.G1 = block.modal.G1, !.position = IF Check THEN block.xyz ELSE @]
         \/ gc' = [gc EXCEPT !.modal.G1 = block.modal.G1]
  BY DEF StartProbe, Executing
<1>2. DOMAIN gc = GcFields /\ DOMAIN gc.modal = ModalGroups
  BY DEF IInv, Shapes
<1>3. /\ gc'.modal = [gc.modal EXCEPT !.G1 = block.modal.G1] /\ gc'.speed = gc.speed
      /\ gc'.system = gc.system /\ gc'.offset = gc.offset /\ gc'.length = gc.length
      /\ gc'.position \in {block.xyz, gc.position}
  BY <1>1, <1>2 DEF GcFields
<1>4. GcTypes /\ MachineTypes /\ BlockTypes
  BY TypeParts DEF WorkInv
<1>5. /\ block.xyz \in Vector /\ block.modal.G1 \in Groups["G1"] /\ "G1" \in ModalGroups
  BY <1>1, <1>4 DEF BlockTypes, ModalGroups
<1>6. mode # "JOG" /\ JogsApart'
  <2>1. mode # "JOG"
    BY <1>1 DEF WorkInv, JogsApart
  <2> QED
    BY <1>1, <2>1 DEF JogsApart
<1>7. GcTypes'
  <2>1. \A g \in ModalGroups : gc'.modal[g] \in Groups[g]
    BY <1>2, <1>3, <1>4, <1>5, ModeSet DEF GcTypes
  <2> QED
    BY <1>3, <1>4, <1>5, <2>1 DEF GcTypes
<1>8. MachineTypes'
  <2>1. queue' = queue \/ (queue' = <<block.xyz>> /\ block.xyz \in [Axes -> Travel])
    <3>1. CASE UNCHANGED queue
      BY <3>1
    <3>2. CASE ~Check /\ ~Abort /\ ~Limited(block.xyz) /\ queue' = <<block.xyz>>
      <4>1. reset = "no"
        BY <3>2 DEF StartProbe, Settled
      <4>2. ~block.limited
        BY <1>1, <1>4, <4>1 DEF BlockTypes
      <4>3. \A a \in Axes : block.xyz[a] \in Travel
        BY <1>6, <3>2, <4>2 DEF Limited, Outside
      <4> QED
        BY <1>5, <3>2, <4>3, Vectors
    <3> QED
      BY <3>1, <3>2 DEF StartProbe
  <2>2. queue' \in Seq([Axes -> Travel]) /\ Len(queue') <= BlockBuffer
    <3>1. CASE queue' = queue
      BY <1>4, <3>1 DEF MachineTypes
    <3>2. CASE queue' = <<block.xyz>> /\ block.xyz \in [Axes -> Travel]
      BY <3>2, Constants
    <3> QED
      BY <2>1, <3>1, <3>2
  <2> QED
    BY <1>1, <1>4, <2>2 DEF MachineTypes
<1>9. BlockTypes'
  BY <1>1, BlockKept
<1>10. Uses' /\ Aims'
  BY <1>1 DEF WorkInv, Uses, Aims, Before, Executing, Selecting, Probing, Executes
<1>11. Arrived'
  BY <1>1, ProbeApart DEF Arrived, Reached, Aimed
<1> QED
  BY <1>6, <1>7, <1>8, <1>9, <1>10, <1>11, TypesAgain DEF WorkInv

LEMMA EndProbeWorks == IInv /\ WorkInv /\ EndProbe => WorkInv'
<1> SUFFICES ASSUME IInv, WorkInv, EndProbe PROVE WorkInv'
  OBVIOUS
<1>1. /\ pc = "probing" /\ pc' = "flow" /\ pc \in Executing
      /\ UNCHANGED <<reset, store, spindle, coolant, syncing, block>>
      /\ mode' \in {mode, "IDLE", "ALARM"}
      /\ machine' = machine \/ machine' \in Cut
      /\ queue' = queue \/ queue' = <<>>
      /\ gc' = gc \/ gc' = [gc EXCEPT !.position = machine'] \/ gc' = [gc EXCEPT !.position = block.xyz]
  BY DEF EndProbe, Executing
<1>2. DOMAIN gc = GcFields
  BY DEF IInv, Shapes
<1>3. /\ gc'.modal = gc.modal /\ gc'.speed = gc.speed
      /\ gc'.system = gc.system /\ gc'.offset = gc.offset /\ gc'.length = gc.length
      /\ gc'.position \in {block.xyz, machine', gc.position}
  BY <1>1, <1>2 DEF GcFields
<1>4. GcTypes /\ MachineTypes /\ BlockTypes
  BY TypeParts DEF WorkInv
<1>5. block.xyz \in Vector /\ Probing
  BY <1>1, <1>4 DEF BlockTypes, WorkInv, Uses
<1>6. JogsApart'
  <2>1. mode # "JOG" /\ ~syncing
    BY <1>1 DEF WorkInv, JogsApart
  <2> QED
    BY <1>1, <2>1 DEF JogsApart
<1>7. machine' \in [Axes -> Travel] /\ machine' \in Vector
  BY <1>1, <1>4, CutInTravel, Constants DEF MachineTypes, WorkInv, Types
<1>8. GcTypes'
  BY <1>3, <1>4, <1>5, <1>7 DEF GcTypes
<1>9. MachineTypes'
  <2>1. queue' \in Seq([Axes -> Travel]) /\ Len(queue') <= BlockBuffer
    <3>1. CASE queue' = queue
      BY <1>4, <3>1 DEF MachineTypes
    <3>2. CASE queue' = <<>>
      BY <3>2, Constants
    <3> QED
      BY <1>1, <3>1, <3>2
  <2>2. mode' \in {"IDLE", "CYCLE", "JOG", "HOLD", "ALARM", "CHECK"}
    BY <1>1, <1>4 DEF MachineTypes
  <2> QED
    BY <1>1, <1>4, <1>7, <2>1, <2>2 DEF MachineTypes
<1>10. BlockTypes'
  BY <1>1, BlockKept
<1>11. Uses' /\ Aims'
  BY <1>1 DEF WorkInv, Uses, Aims, Before, Executing, Selecting
<1>12. Arrived'
  BY <1>1, <1>5, ProbeApart DEF Arrived, Reached, Aimed
<1> QED
  BY <1>6, <1>8, <1>9, <1>10, <1>11, <1>12, TypesAgain DEF WorkInv

LEMMA FlowWorks == IInv /\ WorkInv /\ ProgramFlow => WorkInv'
<1> SUFFICES ASSUME IInv, WorkInv, ProgramFlow PROVE WorkInv'
  OBVIOUS
<1>1. /\ pc = "flow" /\ pc \in Executing /\ ~syncing
      /\ UNCHANGED <<reset, store, queue, machine, spindle, coolant>>
  BY DEF ProgramFlow, Executing
<1>2. DOMAIN gc = GcFields /\ DOMAIN gc.modal = ModalGroups
  BY DEF IInv, Shapes
<1>3. GcTypes /\ MachineTypes /\ BlockTypes
  BY TypeParts DEF WorkInv
<1>4. CASE Done /\ UNCHANGED <<mode, gc, syncing>>
  <2>1. GcTypes' /\ MachineTypes'
    BY <1>1, <1>3, <1>4 DEF GcTypes, MachineTypes
  <2>2. JogsApart' /\ pc' = "idle"
    BY <1>1, <1>4 DEF JogsApart, Done
  <2> QED
    BY <2>1, <2>2, OutsideWorks DEF Executing, Selecting
<1>5. CASE pc' = "paused" /\ mode' = "HOLD" /\ UNCHANGED <<gc, syncing, block>>
  <2>1. GcTypes' /\ MachineTypes' /\ BlockTypes'
    BY <1>1, <1>3, <1>5, BlockKept DEF GcTypes, MachineTypes
  <2>2. JogsApart'
    BY <1>1, <1>5 DEF JogsApart
  <2>3. Uses' /\ Aims' /\ Arrived'
    BY <1>1, <1>5 DEF WorkInv, Uses, Aims, Arrived, Before, Executing, Selecting
  <2> QED
    BY <2>1, <2>2, <2>3, TypesAgain DEF WorkInv
<1>6. CASE /\ block.flow \in {"M2", "M30"}
           /\ gc' = [gc EXCEPT !.modal = [@ EXCEPT !.G1 = "G1", !.G2 = "G17", !.G3 = "G90",
                                                   !.G5 = "G94", !.G12 = "G54", !.M7 = "M5",
                                                   !.M8 = "M9"],
                               !.system = IF Check THEN @ ELSE store[0]]
           /\ pc' = "end" /\ UNCHANGED <<mode, block>>
  <2>1. /\ gc'.modal = [gc.modal EXCEPT !.G1 = "G1", !.G2 = "G17", !.G3 = "G90",
                                        !.G5 = "G94", !.G12 = "G54", !.M7 = "M5", !.M8 = "M9"]
        /\ gc'.position = gc.position /\ gc'.offset = gc.offset /\ gc'.length = gc.length
        /\ gc'.speed = gc.speed /\ gc'.system \in {gc.system, store[0]}
    BY <1>2, <1>6 DEF GcFields
  <2>2. \A g \in ModalGroups : gc'.modal[g] \in Groups[g]
    <3>1. /\ "G1" \in Groups["G1"] /\ "G17" \in Groups["G2"] /\ "G90" \in Groups["G3"]
          /\ "G94" \in Groups["G5"] /\ "G54" \in Groups["G12"] /\ "M5" \in Groups["M7"]
          /\ "M9" \in Groups["M8"]
      BY DEF Groups
    <3>2. \A g \in ModalGroups : gc.modal[g] \in Groups[g]
      BY <1>3 DEF GcTypes
    <3> SUFFICES ASSUME NEW g \in ModalGroups PROVE gc'.modal[g] \in Groups[g]
      OBVIOUS
    <3>3. CASE g \in {"G6", "G8"}
      <4>1. gc'.modal[g] = gc.modal[g]
        BY <1>2, <2>1, <3>3
      <4> QED
        BY <3>2, <4>1
    <3>4. CASE g \in {"G1", "G2", "G3", "G5"}
      BY <1>2, <2>1, <3>1, <3>4
    <3>5. CASE g \in {"G12", "M7", "M8"}
      BY <1>2, <2>1, <3>1, <3>5
    <3> QED
      BY <3>3, <3>4, <3>5 DEF ModalGroups
  <2>3. store[0] \in Vector
    BY <1>3, Constants DEF MachineTypes
  <2>4. GcTypes' /\ MachineTypes' /\ BlockTypes'
    BY <1>1, <1>3, <1>6, <2>1, <2>2, <2>3, BlockKept DEF GcTypes, MachineTypes
  <2>5. JogsApart'
    <3>1. mode # "JOG"
      BY <1>1, <1>6 DEF WorkInv, JogsApart
    <3> QED
      BY <1>6, <3>1 DEF JogsApart
  <2>6. Uses' /\ Aims' /\ Arrived'
    BY <1>1, <1>6 DEF WorkInv, Uses, Aims, Arrived, Before, Executing, Selecting
  <2> QED
    BY <2>4, <2>5, <2>6, TypesAgain DEF WorkInv
<1> QED
  BY <1>4, <1>5, <1>6 DEF ProgramFlow

LEMMA EndProgramWorks == IInv /\ WorkInv /\ EndProgram => WorkInv'
<1> SUFFICES ASSUME IInv, WorkInv, EndProgram PROVE WorkInv'
  OBVIOUS
<1>1. /\ pc = "end" /\ pc' = "idle" /\ ~syncing
      /\ UNCHANGED <<mode, reset, gc, store, queue, machine, syncing>>
      /\ SetSpindle("M5", 0) /\ coolant' \in {coolant, "M9"}
  BY DEF EndProgram, Done, SetCoolant
<1>2. GcTypes /\ MachineTypes
  BY TypeParts DEF WorkInv
<1>3. spindle' \in {<<"M5", 0>>} \cup ({"M3", "M4"} \X Nat)
  <2>1. "M5" \in Groups["M7"] /\ 0 \in Nat
    BY DEF Groups
  <2> QED
    BY <1>1, <1>2, <2>1, SetSpindleTypes
<1>4. GcTypes' /\ MachineTypes'
  BY <1>1, <1>2, <1>3, Constants DEF GcTypes, MachineTypes
<1>5. JogsApart'
  BY <1>1 DEF WorkInv, JogsApart
<1> QED
  BY <1>1, <1>4, <1>5, OutsideWorks DEF Executing, Selecting

(* A jog is planned only within the limits.                                *)
LEMMA ExecuteJogWorks == IInv /\ WorkInv /\ ExecuteJog => WorkInv'
<1> SUFFICES ASSUME IInv, WorkInv, ExecuteJog PROVE WorkInv'
  OBVIOUS
<1>1. /\ pc = "jog" /\ pc \in Executing /\ UNCHANGED <<reset, store, machine, spindle, coolant, syncing, block>>
  BY DEF ExecuteJog, Executing
<1>2. DOMAIN gc = GcFields
  BY DEF IInv, Shapes
<1>3. GcTypes /\ MachineTypes /\ BlockTypes
  BY TypeParts DEF WorkInv
<1>4. block.flow = "none" /\ block.nonmodal \in {"G53", "none"} /\ ~syncing
  BY <1>1 DEF WorkInv, JogsApart
<1>5. CASE Outside(block.xyz)
  <2>1. pc' = "fail" /\ UNCHANGED <<mode, queue, gc>>
    BY <1>5 DEF ExecuteJog
  <2>2. GcTypes' /\ MachineTypes' /\ JogsApart'
    BY <1>1, <1>3, <1>4, <2>1 DEF GcTypes, MachineTypes, JogsApart
  <2> QED
    BY <2>1, <2>2, OutsideWorks DEF Executing, Selecting
<1>6. CASE ~Outside(block.xyz)
  <2>1. /\ Abort \/ (reset = "no" /\ Len(queue) < BlockBuffer)
        /\ queue' = IF Abort \/ block.xyz = PlanEnd THEN queue ELSE Append(queue, block.xyz)
        /\ mode' \in {mode, "JOG"} /\ gc' = [gc EXCEPT !.position = block.xyz] /\ pc' = "flow"
    BY <1>6 DEF ExecuteJog
  <2>2. /\ gc'.modal = gc.modal /\ gc'.speed = gc.speed /\ gc'.system = gc.system
        /\ gc'.offset = gc.offset /\ gc'.length = gc.length /\ gc'.position = block.xyz
    BY <1>2, <2>1 DEF GcFields
  <2>3. block.xyz \in Vector /\ block.xyz \in [Axes -> Travel]
    <3>1. block.xyz \in Vector
      BY <1>1, <1>3 DEF BlockTypes
    <3>2. \A a \in Axes : block.xyz[a] \in Travel
      BY <1>6 DEF Outside
    <3> QED
      BY <3>1, <3>2, Vectors
  <2>4. queue' \in Seq([Axes -> Travel]) /\ Len(queue') <= BlockBuffer
    <3>1. queue \in Seq([Axes -> Travel]) /\ Len(queue) <= BlockBuffer /\ BlockBuffer \in Nat
      BY <1>3, Constants DEF MachineTypes
    <3> QED
      BY <2>1, <2>3, <3>1, QueueTakes DEF Abort
  <2>5. GcTypes' /\ MachineTypes' /\ BlockTypes'
    BY <1>1, <1>3, <2>1, <2>2, <2>3, <2>4, BlockKept DEF GcTypes, MachineTypes
  <2>6. JogsApart'
    BY <1>1, <1>4, <2>1 DEF JogsApart
  <2>7. Uses' /\ Aims' /\ ~block.sets
    BY <1>1, <1>4, <2>1 DEF WorkInv, Uses, Aims, Before, Executing, Selecting
  <2>8. Arrived'
    <3> SUFFICES ASSUME Aimed, NEW a \in DOMAIN block.words PROVE WorkPosition(gc', a) = block.words[a]
      BY <1>1, <1>4, <2>7 DEF Arrived, Reached, Aimed
    <3>1. block.xyz[a] = block.words[a] + gc.system[a] + gc.offset[a] + Tool(a)
      BY <1>1 DEF WorkInv, Aims, SystemThen, Before, Selecting
    <3>2. WorkPosition(gc', a) = block.xyz[a] - gc.system[a] - gc.offset[a] - Tool(a)
      BY <2>2 DEF WorkPosition, Tool
    <3>3. /\ block.words[a] \in Int /\ gc.system[a] \in Int /\ gc.offset[a] \in Int /\ Tool(a) \in Int
      BY <1>1, <1>3 DEF GcTypes, BlockTypes, Vector, Tool
    <3> QED
      BY <3>1, <3>2, <3>3
  <2> QED
    BY <2>5, <2>6, <2>7, <2>8, TypesAgain DEF WorkInv
<1> QED
  BY <1>5, <1>6

LEMMA WorkInitial == Init => WorkInv
<1> SUFFICES ASSUME Init PROVE WorkInv
  OBVIOUS
<1>1. /\ mode = "IDLE" /\ reset = "no" /\ pc = "idle" /\ ~syncing /\ queue = <<>> /\ machine = Zero
      /\ spindle = <<"M5", 0>> /\ coolant = "M9" /\ store = [i \in Stored |-> Zero]
      /\ gc.system = Zero /\ gc.offset = Zero /\ gc.position = Zero /\ gc.length = 0 /\ gc.speed = 0
      /\ gc.modal = [G1 |-> "G0", G2 |-> "G17", G3 |-> "G90", G5 |-> "G94", G6 |-> "G21",
                     G8 |-> "G49", G12 |-> "G54", M7 |-> "M5", M8 |-> "M9"]
  BY DEF Init
<1>2. \A g \in ModalGroups : gc.modal[g] \in Groups[g]
  BY <1>1 DEF ModalGroups, Groups
<1>3. GcTypes
  BY <1>1, <1>2, Constants DEF GcTypes
<1>4. MachineTypes
  BY <1>1, Constants DEF MachineTypes
<1>5. pc \notin Executing /\ pc \notin Before
  BY <1>1 DEF Executing, Selecting, Before
<1>6. BlockTypes /\ Uses /\ Aims /\ Arrived /\ JogsApart
  BY <1>1, <1>5 DEF BlockTypes, Uses, Aims, Arrived, JogsApart
<1> QED
  BY <1>3, <1>4, <1>6, TypeParts DEF WorkInv

LEMMA WorkStutters == WorkInv /\ UNCHANGED vars => WorkInv'
BY DEF vars, WorkInv, JogsApart, Types, TypeOK, BlockTypes, Uses, Probing, Executes, Aims, Aimed,
   SystemThen, Tool, Arrived, Reached, WorkPosition

LEMMA WorkInductive == IInv /\ ParseInv /\ WorkInv /\ [Next]_vars => WorkInv'
<1>1. IInv /\ WorkInv /\ Realtime => WorkInv'
  BY StatesWork, JogCancelWorks, ToggleCoolantWorks DEF Realtime
<1>2. IInv /\ WorkInv /\ MainLoop => WorkInv'
  BY StatesWork, InitializeWorks, LineWorks DEF MainLoop
<1>3. IInv /\ ParseInv /\ WorkInv /\ Parse => WorkInv'
  BY LineWorks, CheckLineWorks DEF Parse
<1>4. IInv /\ WorkInv /\ Execute => WorkInv'
  BY StatesWork, ModesWork, ToolLengthWorks, SelectSystemWorks, NonModalWorks, SoftLimitWorks,
     HomingMotionsWork, MotionWorks, StartProbeWorks, EndProbeWorks, FlowWorks, EndProgramWorks,
     LineWorks, ExecuteJogWorks DEF Execute
<1> QED
  BY <1>1, <1>2, <1>3, <1>4, WorkStutters DEF Next

LEMMA WorkAlways == Spec => []WorkInv
BY Invariant, ParseAlways, WorkInitial, WorkInductive, PTL DEF Spec

(* The state is of its type whatever the lines, the jogs and the realtime  *)
(* bytes: positions, offsets and stored coordinates are whole, each mode   *)
(* is one of its group, the planner never overflows, and a target that is  *)
(* planned is within the limits (mc_line, jog_execute, mc_probe_cycle).    *)
THEOREM GcodeTypeCorrect == Spec => []TypeOK
<1>1. WorkInv => TypeOK
  BY DEF WorkInv, Types
<1> QED
  BY <1>1, WorkAlways, PTL

(* After a move of G0 or G1 in absolute distance, a G92 or a G10 L20 of    *)
(* the active system, the work position of each axis named is the value    *)
(* programmed, also when the line selects another system or units and      *)
(* whatever was done to the offsets before (gc_execute_line, STEP 3.3 to   *)
(* STEP 4).                                                                *)
THEOREM WordsAreReached == Spec => []WorkPositionAsProgrammed
<1>1. WorkInv => WorkPositionAsProgrammed
  <2> SUFFICES ASSUME WorkInv, Programs PROVE \A a \in DOMAIN block.words : WorkPosition(gc, a) = block.words[a]
    BY DEF WorkPositionAsProgrammed
  <2>1. pc = "flow" /\ Reached
    BY DEF Programs, Reached, Aimed, Executes
  <2> QED
    BY <2>1 DEF WorkInv, Arrived
<1> QED
  BY <1>1, WorkAlways, PTL
================================================================================
