------------------------------- MODULE Settings -------------------------------
(***************************************************************************)
(* What the controller remembers without power: the settings, the work     *)
(* coordinates, the startup lines and the build info (settings.c), written *)
(* one byte at a time (eeprom.c), by commands (system.c) and by the        *)
(* initialization that repairs what it cannot read (main.c, gcode.c).      *)
(*                                                                         *)
(* A command or an initialization is a sequence of operations, todo; an    *)
(* operation may leave a sequence of bytes to write, job. The power may    *)
(* fail before any of them, and in the middle of one.                      *)
(***************************************************************************)
EXTENDS Naturals, Sequences, FiniteSets
LOCAL INSTANCE SequencesExt

CONSTANTS
  Bits,                                (* bits of a byte                   *)
  Size,                                (* bytes of EEPROM                  *)
  GlobalLength,                        (* sizeof(settings_t)               *)
  VectorLength,                        (* N_AXIS*sizeof(float)             *)
  LineLength,                          (* LINE_BUFFER_SIZE                 *)
  LastCoord,                           (* SETTING_INDEX_NCOORD             *)
  N_STARTUP_LINE,
  Parameters, StartupBlock, BuildInfo, (* EEPROM_ADDR_...                  *)
  Version,                             (* SETTINGS_VERSION                 *)
  Lines, Vectors, Values,              (* lines, coordinates and values    *)
                                       (* that commands carry              *)
  Numbers, LineNumbers,                (* the n of $n= and of $Nn=         *)
  MaxCommands, MaxLosses               (* bounds                           *)

ByteValues == 2^Bits
Byte == 0..(ByteValues - 1)
Erased == ByteValues - 1
EepromAddrGlobal == 1
Coords == 0..LastCoord
StartupLines == 0..(N_STARTUP_LINE - 1)

IntValue(value) == value % ByteValues
Has(flags, bit) == (flags \div bit) % 2 = 1

(* The settings kept are one of an axis, the pulse length, the flags and   *)
(* the homing pull-off; each other setting is stored as one of them is.    *)
Homing == 1
SoftLimits == 2
Defaults == <<1, 3, Homing + SoftLimits, 1>>
Lost == <<0, 0, 0, 0>>

(* AXIS_SETTINGS_START_VAL and what follows it.                            *)
N_AXIS == 3
AxisNSettings == 4
AxisStart == 100
AxisIncrement == 10

(* Facts about 2^Bits.                                                     *)
ASSUME ByteAssumption == ByteValues \in Nat /\ ByteValues >= 4 /\ ByteValues % 4 = 0

ASSUME SettingsAssumption ==
  /\ Bits \in Nat \ {0, 1} /\ Version \in Byte
  /\ {GlobalLength, VectorLength, LineLength} \subseteq Nat \ {0, 1}
  /\ GlobalLength = 4
  /\ {Size, Parameters, StartupBlock, BuildInfo} \subseteq Nat
  /\ LastCoord \in Nat /\ N_STARTUP_LINE \in 1..2
  /\ EepromAddrGlobal + GlobalLength + 1 <= Parameters
  /\ Parameters + (LastCoord + 1) * (VectorLength + 1) <= StartupBlock
  /\ StartupBlock + N_STARTUP_LINE * (LineLength + 1) <= BuildInfo
  /\ BuildInfo + LineLength + 1 <= Size
  /\ Lines \subseteq [1..LineLength -> Byte] /\ Vectors \subseteq [1..VectorLength -> Byte]
  /\ [i \in 1..VectorLength |-> 0] \in Vectors
  /\ Values \subseteq Nat /\ Numbers \subseteq 0..255 /\ LineNumbers \subseteq Nat
  /\ MaxCommands \in Nat /\ MaxLosses \in Nat

VARIABLES
  eeprom,                 (* what lasts                                    *)
  settings, coordSystem,  (* the settings; gc_state.coord_system (G54)     *)
  state,                  (* sys.state                                     *)
  interrupts,             (* the I bit of SREG                             *)
  todo, job,              (* operations to do, bytes to write              *)
  commands, losses,
  stale, strayed          (* history, of lines with a number that is not   *)
                          (* there: the records in memory that one was     *)
                          (* written over since, and ever                  *)

Astray == <<stale, strayed>>
vars == <<eeprom, settings, coordSystem, state, interrupts, todo, job, commands, losses, Astray>>

----------------------------------------------------------------------------
(* Records and the checksum.                                               *)

Record(kind, n) == [kind |-> kind, n |-> n]
Global == Record("global", 0)
Info == Record("info", 0)
Coord(n) == Record("coord", n)
StartupLine(n) == Record("line", n)
Records == {Global, Info} \cup {Coord(n) : n \in Coords} \cup {StartupLine(n) : n \in StartupLines}

(* Mutant: a record one byte shorter than what is written into it.         *)
AddressTight(r) ==
  CASE r.kind = "global" -> EepromAddrGlobal
    [] r.kind = "coord"  -> Parameters + r.n * VectorLength
    [] r.kind = "line"   -> StartupBlock + r.n * LineLength
    [] r.kind = "info"   -> BuildInfo

Address(r) ==
  CASE r.kind = "global" -> EepromAddrGlobal
    [] r.kind = "coord"  -> Parameters + r.n * (VectorLength + 1)
    [] r.kind = "line"   -> StartupBlock + r.n * (LineLength + 1)
    [] r.kind = "info"   -> BuildInfo

Length(r) ==
  CASE r.kind = "global" -> GlobalLength
    [] r.kind = "coord"  -> VectorLength
    [] OTHER             -> LineLength

(* (checksum << 1) || (checksum >> 7) is 1 unless the checksum is 0.       *)
Shifted(checksum) == IF checksum = 0 THEN 0 ELSE 1
(* Mutant: the sum is kept in more than a byte.                            *)
ChecksumWide(data) == FoldLeft(LAMBDA c, b : Shifted(c) + b, 0, data)

Checksum(data) == FoldLeft(LAMBDA c, b : (Shifted(c) + b) % ByteValues, 0, data)

Image(r) == [i \in 1..(Length(r) + 1) |-> eeprom[Address(r) + i - 1]]
Data(r) == [i \in 1..Length(r) |-> Image(r)[i]]
Readable(r) == Image(r)[Length(r) + 1] = Checksum(Data(r))

(* The bytes memcpy_to_eeprom_with_checksum puts, each with its record.    *)
(* EEAR has as many bits as the memory has addresses.                      *)
Place(r, i) == (Address(r) + i - 1) % Size
Write(r, data) ==
  [i \in 1..(Length(r) + 1) |->
     [address |-> Place(r, i), record |-> r,
      byte |-> IF i > Length(r) THEN Checksum(data) ELSE data[i]]]

(* The version byte counts as part of the settings.                        *)
WriteVersion == <<[address |-> 0, record |-> Global, byte |-> Version]>>
WriteGlobal(data) == WriteVersion \o Write(Global, data)

(* settings_restore empties lines by their first two bytes.                *)
Clear(r) == [i \in 1..2 |-> [address |-> Address(r) + i - 1, record |-> r, byte |-> 0]]

(* A line with a number that is not there, and the records in memory that  *)
(* bytes of one are put into.                                              *)
Stray(r) == r.kind = "line" /\ r.n >= N_STARTUP_LINE
Extent(r) == (IF r = Global THEN 0 ELSE Address(r))..(Address(r) + Length(r))
Hit(bytes) ==
  {r \in {Global, Coord(0)} :
     \E i \in 1..Len(bytes) : Stray(bytes[i].record) /\ bytes[i].address \in Extent(r)}

Zero == [i \in 1..VectorLength |-> 0]
Emptied(line) == [line EXCEPT ![1] = 0]

----------------------------------------------------------------------------
(* Operations.                                                             *)

Op(name, n) == [name |-> name, n |-> n]
Each(name, n) == [i \in 1..n |-> Op(name, i - 1)]
Startup == Each("execute", N_STARTUP_LINE)
StartupList == Each("line", N_STARTUP_LINE)
NgcParameters == Each("coord", LastCoord + 1)

(* settings_restore writes the settings at once, then these.               *)
RestoreParameters == Each("zero", LastCoord + 1)
RestoreRest == RestoreParameters \o Each("clear", N_STARTUP_LINE) \o <<Op("clear_info", 0)>>

(* The initialization loop after power-up and after a reset: gc_init, then *)
(* the main loop with the startup lines.                                   *)
Initialization == <<Op("gc_init", 0), Op("main_loop", 0)>>
PowerUp == <<Op("settings_init", 0), Op("main", 0)>> \o Initialization

(* Mutant: $RST= without the reset.                                        *)
AfterRestoreNothing == <<>>

(* Every $RST= ends in mc_reset.                                           *)
AfterRestore == Initialization

(* gc_execute_line, before the rest is written: a line may write           *)
(* coordinates (G10, G28.1), gc_state.coord_system with those of G54.      *)
SetCoord(n, v, rest) ==
  /\ job' = Write(Coord(n), v) \o rest
  /\ coordSystem' = IF n = 0 THEN v ELSE coordSystem
  /\ stale' = (stale \ {Coord(n)}) \cup Hit(rest)
ExecuteLine(rest) ==
  \/ job' = rest /\ stale' = stale \cup Hit(rest) /\ UNCHANGED coordSystem
  \/ \E n \in Coords, v \in Vectors : SetCoord(n, v, rest)

SettingsInit ==
  /\ stale' = stale \ {Global}
  /\ IF eeprom[0] = Version /\ Readable(Global)
     THEN /\ settings' = Data(Global)
          /\ todo' = Tail(todo) /\ job' = <<>>
     ELSE /\ settings' = Defaults
          /\ todo' = RestoreRest \o <<Op("report", 0)>> \o Tail(todo)
          /\ job' = WriteGlobal(Defaults)

RestoreRecord(bytes) == /\ job' = bytes
                        /\ todo' = Tail(todo)
                        /\ UNCHANGED <<settings, coordSystem, state, interrupts, stale>>

(* report_grbl_settings writes more than the transmit ring holds: without  *)
(* interrupts serial_write waits for ever.                                 *)
Report == /\ interrupts
          /\ todo' = Tail(todo)
          /\ UNCHANGED <<settings, coordSystem, state, interrupts, job, stale>>

Main == /\ interrupts' = TRUE
        /\ state' = IF Has(settings[3], Homing) THEN "ALARM" ELSE "IDLE"
        /\ todo' = Tail(todo)
        /\ UNCHANGED <<settings, coordSystem, job, stale>>

(* A read of a record, with the repair of one that cannot be read.         *)
Repair(r, default) == IF Readable(r) THEN <<>> ELSE Write(r, default)

GcInit == /\ coordSystem' = IF Readable(Coord(0)) THEN Data(Coord(0)) ELSE Zero
          /\ job' = Repair(Coord(0), Zero)
          /\ todo' = Tail(todo)
          /\ stale' = stale \ {Coord(0)}
          /\ UNCHANGED <<settings, state, interrupts>>

MainLoop == /\ todo' = Tail(todo) \o (IF state = "ALARM" THEN <<>> ELSE Startup)
            /\ UNCHANGED <<settings, coordSystem, state, interrupts, job, stale>>

(* report_ngc_parameters gives up at the first record it cannot read.      *)
ReadCoord(n) == /\ job' = Repair(Coord(n), Zero)
                /\ todo' = IF Readable(Coord(n)) THEN Tail(todo) ELSE <<>>
                /\ UNCHANGED <<settings, coordSystem, state, interrupts, stale>>

ReadLine(r) == /\ job' = Repair(r, Emptied(Data(r)))
               /\ todo' = Tail(todo)
               /\ UNCHANGED <<settings, coordSystem, state, interrupts, stale>>

(* system_execute_startup.                                                 *)
Execute(r) == IF Readable(r) /\ Data(r)[1] # 0
              THEN /\ ExecuteLine(<<>>)
                   /\ todo' = Tail(todo)
                   /\ UNCHANGED <<settings, state, interrupts>>
              ELSE ReadLine(r)

Operation ==
  /\ job = <<>> /\ todo # <<>>
  /\ LET op == Head(todo)
     IN  \/ op.name = "settings_init" /\ SettingsInit /\ UNCHANGED <<coordSystem, state, interrupts>>
         \/ op.name = "zero" /\ RestoreRecord(Write(Coord(op.n), Zero))
         \/ op.name = "clear" /\ RestoreRecord(Clear(StartupLine(op.n)))
         \/ op.name = "clear_info" /\ RestoreRecord(Clear(Info))
         \/ op.name = "report" /\ Report
         \/ op.name = "main" /\ Main
         \/ op.name = "gc_init" /\ GcInit
         \/ op.name = "main_loop" /\ MainLoop
         \/ op.name = "coord" /\ ReadCoord(op.n)
         \/ op.name = "execute" /\ Execute(StartupLine(op.n))
         \/ op.name = "line" /\ ReadLine(StartupLine(op.n))
         \/ op.name = "info" /\ ReadLine(Info)
  /\ UNCHANGED <<eeprom, commands, losses, strayed>>

(* Mutant: eeprom_put_char restores the I bit, as its comment says.        *)
InterruptsRestored == interrupts

(* eeprom_put_char ends with sei(), whatever the I bit was before.         *)
InterruptsAfterWrite == TRUE

PutChar ==
  /\ job # <<>>
  /\ eeprom' = [eeprom EXCEPT ![Head(job).address] = Head(job).byte]
  /\ interrupts' = InterruptsAfterWrite
  /\ job' = Tail(job)
  /\ UNCHANGED <<settings, coordSystem, state, todo, commands, losses, Astray>>

----------------------------------------------------------------------------
(* Commands. All but G10 are refused outside IDLE and ALARM.               *)

With(flags, bit) == IF Has(flags, bit) THEN flags ELSE flags + bit
Without(flags, bit) == IF Has(flags, bit) THEN flags - bit ELSE flags

SoftLimitsSet(flags, value) ==
  IF IntValue(value) = 0 THEN Without(flags, SoftLimits) ELSE With(flags, SoftLimits)
(* Mutant: $22=0 leaves the soft limits alone.                             *)
HomingSetAlone(flags, value) ==
  IF IntValue(value) = 0 THEN Without(flags, Homing) ELSE With(flags, Homing)

HomingSet(flags, value) ==
  IF IntValue(value) = 0 THEN Without(Without(flags, Homing), SoftLimits) ELSE With(flags, Homing)

(* The loop over set_idx that takes a parameter of an axis apart.          *)
OfAnAxis(parameter) ==
  /\ parameter >= AxisStart
  /\ (parameter - AxisStart) % AxisIncrement < N_AXIS
  /\ (parameter - AxisStart) \div AxisIncrement < AxisNSettings

Refused(parameter, value) ==
  \/ ~OfAnAxis(parameter) /\ parameter \notin {0, 20, 22, 27}
  \/ parameter = 0 /\ IntValue(value) < 3
  \/ parameter = 20 /\ IntValue(value) # 0 /\ ~Has(settings[3], Homing)

Changed(parameter, value) ==
  CASE OfAnAxis(parameter) -> [settings EXCEPT ![1] = IntValue(value)]
    [] parameter = 0  -> [settings EXCEPT ![2] = IntValue(value)]
    [] parameter = 20 -> [settings EXCEPT ![3] = SoftLimitsSet(@, value)]
    [] parameter = 22 -> [settings EXCEPT ![3] = HomingSet(@, value)]
    [] parameter = 27 -> [settings EXCEPT ![4] = IntValue(value)]

StoreGlobalSetting(parameter, value) ==
  /\ ~Refused(parameter, value)
  /\ settings' = Changed(parameter, value)
  /\ job' = WriteGlobal(settings')
  /\ stale' = stale \ {Global}
  /\ UNCHANGED <<todo, coordSystem, state, strayed>>

(* $Nn=: the line is executed, then stored. Its number is cut to a byte,   *)
(* and compared with nothing.                                              *)
StoreStartupLine(n, line) ==
  LET bytes == Write(StartupLine(IntValue(n)), line)
  IN  /\ state = "IDLE"
      /\ ExecuteLine(bytes)
      /\ strayed' = strayed \cup Hit(bytes)
      /\ UNCHANGED <<todo, settings, state>>

StoreBuildInfo(line) ==
  /\ job' = Write(Info, line)
  /\ UNCHANGED <<todo, settings, coordSystem, state, Astray>>

(* G10 L2: the record, and gc_state.coord_system if the system is selected.*)
StoreCoord(n, v) ==
  /\ state = "IDLE"
  /\ SetCoord(n, v, <<>>)
  /\ UNCHANGED <<todo, settings, state, strayed>>

Restore(what) ==
  /\ settings' = IF what = "parameters" THEN settings ELSE Defaults
  /\ job' = IF what = "parameters" THEN <<>> ELSE WriteGlobal(Defaults)
  /\ todo' = (CASE what = "defaults"   -> <<>>
                [] what = "parameters" -> RestoreParameters
                [] what = "all"        -> RestoreRest) \o AfterRestore
  /\ stale' = IF what = "parameters" THEN stale ELSE stale \ {Global}
  /\ UNCHANGED <<coordSystem, state, strayed>>

ReadOut(ops) == todo' = ops /\ UNCHANGED <<job, settings, coordSystem, state, Astray>>

Reset == todo' = Initialization /\ UNCHANGED <<job, settings, coordSystem, state, Astray>>

Unlock == state = "ALARM" /\ state' = "IDLE" /\ UNCHANGED <<todo, job, settings, coordSystem, Astray>>

(* $H, where every switch is found: IDLE, and the startup lines.           *)
Home == /\ Has(settings[3], Homing)
        /\ state' = "IDLE" /\ todo' = Startup
        /\ UNCHANGED <<job, settings, coordSystem, Astray>>

Command ==
  /\ todo = <<>> /\ job = <<>> /\ commands < MaxCommands
  /\ commands' = commands + 1
  /\ \/ \E p \in Numbers, v \in Values : StoreGlobalSetting(p, v)
     \/ \E n \in LineNumbers, l \in Lines : StoreStartupLine(n, l)
     \/ \E l \in Lines : StoreBuildInfo(l)
     \/ \E n \in Coords, v \in Vectors : StoreCoord(n, v)
     \/ \E what \in {"defaults", "parameters", "all"} : Restore(what)
     \/ \E ops \in {StartupList, NgcParameters, <<Op("info", 0)>>} : ReadOut(ops)
     \/ Reset \/ Unlock \/ Home
  /\ UNCHANGED <<eeprom, interrupts, losses>>

----------------------------------------------------------------------------
(* External: the power. A byte that was being programmed is old, new or,   *)
(* if a bit had to be set, erased.                                         *)

SetsBit(old, new) == \E b \in 0..(Bits - 1) : Has(new, 2^b) /\ ~Has(old, 2^b)
Torn(old, new) == {old, new} \cup (IF SetsBit(old, new) THEN {Erased} ELSE {})

PowerLoss ==
  /\ losses < MaxLosses
  /\ losses' = losses + 1
  /\ IF job = <<>> THEN UNCHANGED eeprom
     ELSE LET w == Head(job)
          IN  \E b \in Torn(eeprom[w.address], w.byte) : eeprom' = [eeprom EXCEPT ![w.address] = b]
  /\ settings' = Lost /\ coordSystem' = Zero /\ state' = "IDLE"
  /\ interrupts' = FALSE /\ todo' = PowerUp /\ job' = <<>>
  /\ UNCHANGED <<commands, Astray>>

(* A new chip.                                                             *)
Init ==
  /\ eeprom = [a \in 0..(Size - 1) |-> Erased]
  /\ settings = Lost /\ coordSystem = Zero /\ state = "IDLE"
  /\ interrupts = FALSE /\ todo = PowerUp /\ job = <<>>
  /\ commands = 0 /\ losses = 0 /\ stale = {} /\ strayed = {}

Next == Operation \/ PutChar \/ Command \/ PowerLoss
Spec == Init /\ [][Next]_vars
FairSpec == Spec /\ WF_vars(Operation \/ PutChar)

----------------------------------------------------------------------------
(* Properties.                                                             *)

Busy == todo # <<>> \/ job # <<>>

(* The type invariant: records, jobs and operations are what they should be. *)
TypeOK ==
  /\ eeprom \in [0..(Size - 1) -> Byte]
  /\ settings \in [1..GlobalLength -> Byte] /\ coordSystem \in [1..VectorLength -> Byte]
  /\ state \in {"IDLE", "ALARM"} /\ interrupts \in BOOLEAN
  /\ commands \in 0..MaxCommands /\ losses \in 0..MaxLosses
  /\ stale \subseteq strayed /\ strayed \subseteq {Global, Coord(0)}
  /\ \A i \in 1..Len(job) : job[i].address \in 0..(Size - 1) /\ job[i].byte \in Byte

(* What the machine works with is what it will find at its next power-up:  *)
(* between two commands the settings and the selected coordinate system    *)
(* are the ones stored, after every store, restore and power loss          *)
(* (settings_init, gc_init, the reset that ends $RST=). A startup line     *)
(* with a number that is not there breaks this for a record it is written  *)
(* over, until the record is next loaded or stored.                        *)
RamIsStored ==
  ~Busy =>
    /\ Global \notin stale => eeprom[0] = Version /\ Readable(Global) /\ settings = Data(Global)
    /\ Coord(0) \notin stale => Readable(Coord(0)) /\ coordSystem = Data(Coord(0))

(* Soft limits are never on in a machine that is not homed: $20 and $22    *)
(* keep each other so, and the flags share a byte that the loss of power   *)
(* cannot tear (limits_soft_check relies on it). A startup line that is    *)
(* written over the flags may be accepted as settings at the next power-up.*)
SoftLimitsNeedHoming ==
  Global \notin strayed => (Has(settings[3], SoftLimits) => Has(settings[3], Homing))

(* A store changes its own record and no other, but for a startup line     *)
(* with a number that is not there: it is written over the build info, and *)
(* over any record where its address is past the end of the memory, from   *)
(* $N41= on. The number is never compared with N_STARTUP_LINE.             *)
StoresStayApart ==
  [][\A r \in Records : Image(r)' # Image(r)
       => job # <<>> /\ LET q == Head(job).record
                        IN  \/ q = r
                            \/ Stray(q) /\ (r = Info \/ Address(q) + LineLength >= Size)]_vars

(* However often the power fails, the controller comes up: it repairs what *)
(* it cannot read and reports it without waiting for an interrupt that is  *)
(* off.                                                                    *)
BootEnds == []<>~Busy

(* What the checksum is for: a valid record with one byte changed is not   *)
(* valid (settings_read_..., read_global_settings).                        *)
Differences(r) == {i \in 1..(Length(r) + 1) : Image(r)'[i] # Image(r)[i]}
DamageIsDetected ==
  [][\A r \in Records : Readable(r) /\ Readable(r)' => Cardinality(Differences(r)) # 1]_vars

===============================================================================
