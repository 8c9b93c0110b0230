---------------------------- MODULE ConsoleProofs ----------------------------
(***************************************************************************)
(* What the console under the front end guarantees for every program,      *)
(* every number of breakpoints and every set of addresses: its table of    *)
(* slots and its two flags are a debugger (Breakpoints), and its memory    *)
(* reads back what was stored.                                             *)
(***************************************************************************)
EXTENDS Console, FiniteSetTheorems, TLAPS

-----------------------------------------------------------------------------
(* The table of breakpoints. *)

DebugTypes ==
  /\ breakpoints \in [1..Slots -> Code \union {NoAddress}]
  /\ debugging \in BOOLEAN /\ do_step \in BOOLEAN /\ running \in BOOLEAN

\* The slots in use hold the addresses that were asked for, each of them once:
\* the removal of a breakpoint empties one slot only.
TableInv ==
  /\ asked = Range(breakpoints) \ {NoAddress}
  /\ \A i, j \in 1..Slots : breakpoints[i] = breakpoints[j] /\ i # j => breakpoints[i] = NoAddress

\* Inside a frame the console is not paused, unless a step was asked for.
FrameInv == running /\ debugging => do_step

DebugInv == DebugTypes /\ TableInv /\ FrameInv

LEMMA RangeOfTable ==
  ASSUME DebugTypes
  PROVE  /\ Range(breakpoints) = {breakpoints[i] : i \in 1..Slots}
         /\ Range(breakpoints) \subseteq Code \union {NoAddress}
BY DEF DebugTypes, Range

LEMMA DebugInitInv == DebugInit => DebugInv
<1> SUFFICES ASSUME DebugInit PROVE DebugInv
  OBVIOUS
<1>1. DebugTypes
  BY DEF DebugInit, DebugTypes, Empty
<1>2. TableInv
  BY <1>1, RangeOfTable DEF DebugInit, TableInv, Empty
<1>3. FrameInv
  BY Zenon DEF DebugInit, FrameInv
<1> QED
  BY <1>1, <1>2, <1>3 DEF DebugInv

LEMMA FrameStepInv == DebugInv /\ FrameStep => DebugInv'
<1> SUFFICES ASSUME DebugInv, FrameStep PROVE DebugInv'
  OBVIOUS
<1>1. DebugTypes'
  BY Zenon DEF DebugInv, DebugTypes, FrameStep
<1>2. TableInv'
  BY Zenon DEF DebugInv, TableInv, FrameStep
<1>3. FrameInv'
  BY Zenon DEF DebugInv, FrameInv, FrameStep
<1> QED
  BY <1>1, <1>2, <1>3 DEF DebugInv

LEMMA RunFrameInv == DebugInv /\ RunFrame => DebugInv'
<1> SUFFICES ASSUME DebugInv, RunFrame PROVE DebugInv'
  OBVIOUS
<1>1. DebugTypes'
  BY Zenon DEF DebugInv, DebugTypes, RunFrame
<1>2. TableInv'
  BY Zenon DEF DebugInv, TableInv, RunFrame
<1>3. FrameInv'
  BY Zenon DEF FrameInv, RunFrame
<1> QED
  BY <1>1, <1>2, <1>3 DEF DebugInv

\* The keys that are no edit of the table.
LEMMA KeysInv ==
  DebugInv /\ (PressStep \/ PressContinue \/ PressPause) => DebugInv'
<1> SUFFICES ASSUME DebugInv, PressStep \/ PressContinue \/ PressPause PROVE DebugInv'
  OBVIOUS
<1>1. DebugTypes'
  BY Zenon DEF DebugInv, DebugTypes, PressStep, PressContinue, PressPause
<1>2. TableInv'
  BY Zenon DEF DebugInv, TableInv, PressStep, PressContinue, PressPause
<1>3. FrameInv'
  BY Zenon DEF FrameInv, PressStep, PressContinue, PressPause
<1> QED
  BY <1>1, <1>2, <1>3 DEF DebugInv

LEMMA SetBreakpointInv ==
  ASSUME DebugInv, NEW a \in Code, SetBreakpoint(a)
  PROVE  /\ DebugInv'
         /\ a # NoAddress
         /\ \E i \in 1..Slots : breakpoints[i] = NoAddress
<1>1. PICK i \in 1..Slots :
        /\ breakpoints[i] = NoAddress
        /\ breakpoints' = [breakpoints EXCEPT ![i] = a]
  BY Zenon DEF SetBreakpoint
<1>2. a \notin Range(breakpoints) /\ asked' = asked \union {a}
  BY DEF SetBreakpoint
<1>3. DebugTypes
  BY DEF DebugInv
<1>4. a # NoAddress /\ \A j \in 1..Slots : breakpoints[j] # a
  BY <1>1, <1>2, <1>3, RangeOfTable
<1>5. DebugTypes'
  <2>1. breakpoints' \in [1..Slots -> Code \union {NoAddress}]
    BY <1>1, <1>3 DEF DebugTypes
  <2> QED
    BY <2>1, <1>3, Zenon DEF DebugTypes, SetBreakpoint
<1>6. TableInv'
  <2>1. \A j \in 1..Slots : breakpoints'[j] = IF j = i THEN a ELSE breakpoints[j]
    BY <1>1, <1>3 DEF DebugTypes
  <2>2. Range(breakpoints') = {breakpoints'[j] : j \in 1..Slots}
    BY <1>5 DEF DebugTypes, Range
  <2>3. asked' = Range(breakpoints') \ {NoAddress}
    <3>1. asked = {breakpoints[j] : j \in 1..Slots} \ {NoAddress}
      BY <1>3, RangeOfTable DEF DebugInv, TableInv
    <3> QED
      BY <1>1, <1>2, <1>4, <2>1, <2>2, <3>1
  <2>4. \A j, k \in 1..Slots :
          breakpoints'[j] = breakpoints'[k] /\ j # k => breakpoints'[j] = NoAddress
    BY <1>4, <2>1 DEF DebugInv, TableInv
  <2> QED
    BY <2>3, <2>4 DEF TableInv
<1>7. FrameInv'
  BY Zenon DEF FrameInv, DebugInv, SetBreakpoint
<1> QED
  BY <1>1, <1>4, <1>5, <1>6, <1>7 DEF DebugInv

LEMMA ClearBreakpointInv ==
  ASSUME DebugInv, NEW a \in Code, ClearBreakpoint(a)
  PROVE  /\ DebugInv'
         /\ asked' = IF a \in asked THEN asked \ {a} ELSE asked
<1>1. PICK i \in 1..Slots :
        /\ breakpoints[i] = a
        /\ breakpoints' = [breakpoints EXCEPT ![i] = NoAddress]
  BY Zenon DEF ClearBreakpoint
<1>2. asked' = asked \ {a}
  BY DEF ClearBreakpoint
<1>3. DebugTypes
  BY DEF DebugInv
<1>5. DebugTypes'
  <2>1. breakpoints' \in [1..Slots -> Code \union {NoAddress}]
    BY <1>1, <1>3 DEF DebugTypes
  <2> QED
    BY <2>1, <1>3, Zenon DEF DebugTypes, ClearBreakpoint
<1>6. TableInv'
  <2>1. \A j \in 1..Slots : breakpoints'[j] = IF j = i THEN NoAddress ELSE breakpoints[j]
    BY <1>1, <1>3 DEF DebugTypes
  <2>2. Range(breakpoints') = {breakpoints'[j] : j \in 1..Slots}
    BY <1>5 DEF DebugTypes, Range
  <2>3. asked' = Range(breakpoints') \ {NoAddress}
    <3>1. asked = {breakpoints[j] : j \in 1..Slots} \ {NoAddress}
      BY <1>3, RangeOfTable DEF DebugInv, TableInv
    <3>2. \A j \in 1..Slots : j # i /\ breakpoints[j] # NoAddress => breakpoints[j] # a
      BY <1>1 DEF DebugInv, TableInv
    <3> QED
      BY <1>1, <1>2, <2>1, <2>2, <3>1, <3>2
  <2>4. \A j, k \in 1..Slots :
          breakpoints'[j] = breakpoints'[k] /\ j # k => breakpoints'[j] = NoAddress
    BY <2>1 DEF DebugInv, TableInv
  <2> QED
    BY <2>3, <2>4 DEF TableInv
<1>7. FrameInv'
  BY Zenon DEF FrameInv, DebugInv, ClearBreakpoint
<1> QED
  BY <1>2, <1>5, <1>6, <1>7 DEF DebugInv

LEMMA PressResetInv ==
  ASSUME DebugInv, NEW keep \in BOOLEAN, NEW pause \in BOOLEAN, PressReset(keep, pause)
  PROVE  DebugInv'
<1>1. CASE keep
  BY <1>1, Zenon DEF DebugInv, DebugTypes, TableInv, FrameInv, PressReset
<1>2. CASE ~keep
  <2>1. DebugTypes'
    <3>1. breakpoints' = Empty
      BY <1>2, Zenon DEF PressReset
    <3>2. breakpoints' \in [1..Slots -> Code \union {NoAddress}]
      BY <3>1 DEF Empty
    <3> QED
      BY <3>2, Zenon DEF DebugInv, DebugTypes, PressReset
  <2>2. breakpoints' = Empty /\ asked' = {}
    BY <1>2, Zenon DEF PressReset
  <2>3. TableInv'
    BY <2>2 DEF TableInv, Empty, Range
  <2>4. FrameInv'
    BY Zenon DEF FrameInv, PressReset
  <2> QED
    BY <2>1, <2>3, <2>4 DEF DebugInv
<1> QED
  BY <1>1, <1>2

LEMMA DebugNextInv == DebugInv /\ [Next]_vars => DebugInv'
<1> SUFFICES ASSUME DebugInv, [Next]_vars PROVE DebugInv'
  OBVIOUS
<1>1. CASE Execute
  BY <1>1, FrameStepInv DEF Execute
<1>2. CASE Events
  BY <1>2, RunFrameInv, KeysInv, SetBreakpointInv, ClearBreakpointInv DEF Events, Edit
<1>3. CASE Resets
  BY <1>3, PressResetInv DEF Resets
<1>4. CASE UNCHANGED vars
  BY <1>4, Zenon DEF vars, debugVars, DebugInv, DebugTypes, TableInv, FrameInv
<1> QED
  BY <1>1, <1>2, <1>3, <1>4 DEF Next

\* The slots hold the breakpoints that were set and not cleared, each once.
THEOREM TableCorrect == Spec => []DebugInv
<1>1. Init => DebugInv
  BY DebugInitInv DEF Init
<1> QED
  BY <1>1, DebugNextInv, PTL DEF Spec

-----------------------------------------------------------------------------
(* A debugger. *)

LEMMA HitIsAsked == DebugInv => \A a : Hit(a) <=> a \in asked
BY RangeOfTable DEF DebugInv, TableInv, Hit

\* While a slot is free there is room for a breakpoint.
LEMMA RoomForOne ==
  ASSUME DebugInv, NEW i \in 1..Slots, breakpoints[i] = NoAddress
  PROVE  Cardinality(asked) < Slots
<1>1. Slots \in Nat
  BY DebuggerAssumption DEF DebuggerAssumption
<1>2. IsFiniteSet(1..Slots) /\ Cardinality(1..Slots) = Slots
  BY <1>1, FS_Interval
<1> DEFINE T == {breakpoints[j] : j \in 1..Slots}
<1>3. breakpoints \in Surjection(1..Slots, T)
  BY DEF Surjection, DebugInv, DebugTypes
<1>4. IsFiniteSet(T) /\ Cardinality(T) <= Slots
  BY <1>2, <1>3, FS_Surjection
<1>5. NoAddress \in T /\ asked = T \ {NoAddress}
  BY RangeOfTable DEF DebugInv, TableInv
<1> HIDE DEF T
<1>6. Cardinality(asked) = Cardinality(T) - 1
  BY <1>4, <1>5, FS_RemoveElement
<1>7. Cardinality(T) \in Nat
  BY <1>4, FS_CardinalityType
<1> QED
  BY <1>1, <1>4, <1>6, <1>7

LEMMA SameCardinality == \A S : Session!Cardinality(S) = Cardinality(S)
BY DEF Session!Cardinality, Cardinality

LEMMA SessionExecute == DebugInv /\ Execute => Session!Execute
<1> SUFFICES ASSUME DebugInv, Execute PROVE Session!Execute
  OBVIOUS
<1>1. debugging => do_step
  BY Zenon DEF DebugInv, FrameInv, Execute, FrameStep
<1>2. Hit(pc') <=> pc' \in asked
  BY HitIsAsked
<1> QED
  BY <1>1, <1>2, Zenon DEF Session!Execute, Execute, FrameStep, DebugInv, DebugTypes

\* The keys, the buttons and the beginning of a frame leave PC and memory alone.
LEMMA SessionEvents ==
  DebugInv /\ Events =>
    \/ Session!Still /\ (Session!Pause \/ Session!Resume \/ Session!Grant \/ Session!Edit)
    \/ UNCHANGED Session!vars
<1> SUFFICES ASSUME DebugInv, Events
             PROVE  \/ /\ Session!Still
                       /\ Session!Pause \/ Session!Resume \/ Session!Grant \/ Session!Edit
                    \/ UNCHANGED Session!vars
  OBVIOUS
<1>1. UNCHANGED <<ram, vram>>
  BY DEF Events, mmuVars
<1>2. CASE RunFrame
  <2>1. UNCHANGED pc /\ UNCHANGED asked /\ UNCHANGED debugging /\ UNCHANGED do_step
    BY <1>2, Zenon DEF RunFrame
  <2> QED
    BY <1>1, <2>1 DEF Session!vars
<1>3. CASE PressStep
  BY <1>1, <1>3, Zenon DEF PressStep, Session!Grant, Session!Still
<1>4. CASE PressContinue
  BY <1>1, <1>4, Zenon DEF PressContinue, Session!Resume, Session!Still
<1>5. CASE PressPause
  BY <1>1, <1>5, Zenon DEF PressPause, Session!Pause, Session!Still
<1>6. ASSUME NEW a \in Code, SetBreakpoint(a)
      PROVE  Session!Still /\ Session!Edit
  <2>1. a # NoAddress /\ \E i \in 1..Slots : breakpoints[i] = NoAddress
    BY <1>6, SetBreakpointInv
  <2>2. Session!Cardinality(asked) < Slots
    BY <2>1, RoomForOne, SameCardinality
  <2>3. asked' = asked \union {a} /\ a \in asked' /\ UNCHANGED <<pc, debugging, do_step>>
    BY <1>6 DEF SetBreakpoint
  <2> QED
    BY <1>1, <2>1, <2>2, <2>3, Zenon DEF Session!Edit, Session!Still
<1>7. ASSUME NEW a \in Code, ClearBreakpoint(a)
      PROVE  (Session!Still /\ Session!Edit) \/ UNCHANGED Session!vars
  <2>1. asked' = (IF a \in asked THEN asked \ {a} ELSE asked)
        /\ UNCHANGED pc /\ UNCHANGED debugging /\ UNCHANGED do_step
    BY <1>7, ClearBreakpointInv DEF ClearBreakpoint
  <2>2. CASE a \in asked
    BY <1>1, <2>1, <2>2, Zenon DEF Session!Edit, Session!Still
  <2>3. CASE a \notin asked
    BY <1>1, <2>1, <2>3 DEF Session!vars
  <2> QED
    BY <2>2, <2>3
<1> QED
  BY <1>2, <1>3, <1>4, <1>5, <1>6, <1>7 DEF Events, Edit

LEMMA SessionResets == DebugInv /\ Resets => Session!Reset
<1> SUFFICES ASSUME DebugInv, NEW keep \in BOOLEAN, NEW pause \in BOOLEAN, PressReset(keep, pause)
             PROVE  Session!Reset
  BY DEF Resets
<1>1. pc' = 0 /\ do_step' = do_step
  BY DEF PressReset
<1>2. asked' \in {asked, {}}
  BY DEF PressReset
<1>3. debugging' \in {debugging, TRUE}
  BY Zenon DEF PressReset, DebugInv, DebugTypes
<1> QED
  BY <1>1, <1>2, <1>3 DEF Session!Reset

\* The console pauses at the breakpoints that were set and not cleared and
\* nowhere else, stands still while it is paused, and makes one step for each
\* that was asked for: fgb_cpu_run_frame and the table of slots see to that for
\* any number of slots.
THEOREM DebuggerImplementsBreakpoints == Spec => ImplementsBreakpoints
<1>1. Init => Session!Init
  BY Zenon DEF Init, DebugInit, Session!Init
<1>2. DebugInv /\ [Next]_vars => [Session!Next]_(Session!vars)
  <2> SUFFICES ASSUME DebugInv, [Next]_vars PROVE [Session!Next]_(Session!vars)
    OBVIOUS
  <2>1. CASE Execute
    BY <2>1, SessionExecute DEF Session!Next
  <2>2. CASE Events
    BY <2>2, SessionEvents DEF Session!Next
  <2>3. CASE Resets
    BY <2>3, SessionResets DEF Session!Next
  <2>4. CASE UNCHANGED vars
    BY <2>4 DEF vars, mmuVars, debugVars, Session!vars
  <2> QED
    BY <2>1, <2>2, <2>3, <2>4 DEF Next
<1> QED
  BY <1>1, <1>2, TableCorrect, PTL DEF Spec, ImplementsBreakpoints, Session!Spec
-----------------------------------------------------------------------------
(* Memory.  The map folds banks and echoes into two arrays: the cell of an  *)
(* access is the array with the index.  Two accesses have the same cell     *)
(* exactly when the program means the same place by them, but for those     *)
(* that the code leads astray (Astray).                                     *)

Models == {"DMG", "CGB"}

VideoBankOf(m, vb) == IF m = "CGB" /\ vb = 1 THEN 1 ELSE 0

\* The index in the array of wram and hram.
RamAt(m, wb, a) == IF a \in WorkRam THEN Work(m, wb, a) ELSE HighAt(a)

Cell(m, wb, vb, a) ==
  IF a \in VideoRam THEN <<"vram", VideoBankOf(m, vb), VideoAt(a)>>
  ELSE <<"ram", 0, RamAt(m, wb, a)>>

LEMMA MemoryRanges ==
  \A a \in Memory : a \in Int /\ (a \in VideoRam \/ a \in WorkRam \/ a \in HighRam)
<1>1. \A a \in Memory : a \in Int 
  BY MmuAssumption, SMT DEF MmuAssumption, Memory, Word
<1>2. \A a \in Memory : a \in VideoRam \/ a \in WorkRam \/ a \in HighRam
  BY DEF Memory
<1> QED
  BY <1>1, <1>2

\* The regions by their bounds.
LEMMA Regions ==
  ASSUME NEW a \in Int
  PROVE  /\ a \in Rom <=> 0 <= a /\ a <= 32767
         /\ a \in VideoRam <=> 32768 <= a /\ a <= 40959
         /\ a \in CartRam <=> 40960 <= a /\ a <= 49151
         /\ a \in WorkRam <=> 49152 <= a /\ a <= 65023
         /\ a \in WorkRam0 <=> 49152 <= a /\ a <= 53247
         /\ a \in WorkRam1 <=> 53248 <= a /\ a <= 57343
         /\ a \in Echo0 <=> 57344 <= a /\ a <= 61439
         /\ a \in Echo1 <=> 61440 <= a /\ a <= 65023
         /\ a \in Oam <=> 65024 <= a /\ a <= 65183
         /\ a \in Unusable <=> 65184 <= a /\ a <= 65279
<1>1. a \in Rom <=> 0 <= a /\ a <= 32767
  BY SMT DEF Rom
<1>2. a \in VideoRam <=> 32768 <= a /\ a <= 40959
  BY SMT DEF VideoRam
<1>3. a \in CartRam <=> 40960 <= a /\ a <= 49151
  BY SMT DEF CartRam
<1>4. a \in WorkRam <=> 49152 <= a /\ a <= 65023
  BY SMT DEF WorkRam
<1>5. a \in WorkRam0 <=> 49152 <= a /\ a <= 53247
  BY SMT DEF WorkRam0
<1>6. a \in WorkRam1 <=> 53248 <= a /\ a <= 57343
  BY SMT DEF WorkRam1
<1>7. a \in Echo0 <=> 57344 <= a /\ a <= 61439
  BY SMT DEF Echo0
<1>8. a \in Echo1 <=> 61440 <= a /\ a <= 65023
  BY SMT DEF Echo1
<1>9. a \in Oam <=> 65024 <= a /\ a <= 65183
  BY SMT DEF Oam
<1>10. a \in Unusable <=> 65184 <= a /\ a <= 65279
  BY SMT DEF Unusable
<1> QED
  BY <1>1, <1>2, <1>3, <1>4, <1>5, <1>6, <1>7, <1>8, <1>9, <1>10

\* High RAM lies behind all registers but FFFF.
LEMMA HighRegions ==
  ASSUME NEW a \in Int, a \in HighRam, NEW m
  PROVE  /\ a \notin Rom /\ a \notin CartRam /\ a \notin VideoRam /\ a \notin WorkRam
         /\ a \notin Oam /\ a \notin Unusable
         /\ a \notin TimerRegisters /\ a \notin ApuRegisters /\ a \notin PpuRegisters(m)
         /\ a \notin CpuRegisters
         /\ a # BootRegister /\ a # BankRegister
<1>1. 65408 <= a /\ a <= 65534
  BY SMT DEF HighRam
<1>2. /\ a \notin Rom /\ a \notin CartRam /\ a \notin VideoRam /\ a \notin WorkRam
      /\ a \notin Oam /\ a \notin Unusable
  BY <1>1, Regions, SMT
<1>5. a \notin TimerRegisters
  BY <1>1, SMT DEF TimerRegisters
<1>6. a \notin ApuRegisters
  BY <1>1, SMT DEF ApuRegisters
<1>7. a \notin PpuRegisters(m)
  <2>1. a \notin 65344..65359
    BY <1>1, SMT
  <2>2. a \notin 65344..65355 /\ a # 65359
    BY <1>1, SMT
  <2> QED
    BY <2>1, <2>2 DEF PpuRegisters
<1>8. a \notin CpuRegisters /\ a # BootRegister /\ a # BankRegister
  BY <1>1, SMT DEF CpuRegisters, BootRegister, BankRegister
<1> QED
  BY <1>2, <1>5, <1>6, <1>7, <1>8

LEMMA WhoAnswers ==
  ASSUME NEW m, NEW wb, NEW a \in Memory
  PROVE  WriteTo(m, wb, a) =
           IF a \in VideoRam THEN Target("vram", VideoAt(a)) ELSE Target("ram", RamAt(m, wb, a))
<1>0. a \in Int
  BY MemoryRanges
<1>1. CASE a \in VideoRam
  <2>1. a \notin Rom /\ a \notin CartRam /\ a \notin WorkRam /\ a \notin Oam /\ a \notin Unusable
    BY <1>0, <1>1, Regions, SMT
  <2> QED
    BY <1>1, <2>1, Zenon DEF WriteTo
<1>2. CASE a \in WorkRam
  <2>1. a \notin Rom /\ a \notin CartRam /\ a \notin VideoRam /\ a \notin Oam /\ a \notin Unusable
    BY <1>0, <1>2, Regions, SMT
  <2> QED
    BY <1>2, <2>1, Zenon DEF WriteTo, RamAt
<1>3. CASE a \in HighRam
  <2>1. /\ a \notin Rom /\ a \notin CartRam /\ a \notin VideoRam /\ a \notin WorkRam
        /\ a \notin Oam /\ a \notin Unusable
    BY <1>0, <1>3, HighRegions
  <2>2. /\ a \notin TimerRegisters /\ a \notin ApuRegisters /\ a \notin PpuRegisters(m)
        /\ a \notin CpuRegisters
        /\ a # BootRegister /\ a # BankRegister
    BY <1>0, <1>3, HighRegions
  <2>3. WriteTo(m, wb, a) = Register(m, a)
    BY <2>1, Zenon DEF WriteTo
  <2>4. Register(m, a) = Target("ram", HighAt(a))
    BY <1>3, <2>2, Zenon DEF Register
  <2> QED
    BY <2>1, <2>3, <2>4, Zenon DEF RamAt
<1> QED
  BY MemoryRanges, <1>1, <1>2, <1>3

\* What an access means and where it goes, region by region: the six columns of
\* the two tables.
LEMMA PlaceAndCell ==
  ASSUME NEW m \in Models, NEW wb \in 0..7, NEW vb \in 0..1, NEW a \in Memory
  PROVE  \/ /\ 32768 <= a /\ a <= 40959
            /\ Place(m, wb, vb, a) = <<"video", VideoBankOf(m, vb), a>>
            /\ Cell(m, wb, vb, a) = <<"vram", VideoBankOf(m, vb), a - 32768>>
         \/ /\ 49152 <= a /\ a <= 53247
            /\ Place(m, wb, vb, a) = <<"work", 0, a>>
            /\ Cell(m, wb, vb, a) = <<"ram", 0, a - 49152>>
         \/ /\ m = "CGB" /\ 53248 <= a /\ a <= 57343
            /\ Place(m, wb, vb, a) = <<"work", wb, a>>
            /\ Cell(m, wb, vb, a) = <<"ram", 0, (a + 4096 * wb) - 49152>>
         \/ /\ m = "DMG" /\ 53248 <= a /\ a <= 57343
            /\ Place(m, wb, vb, a) = <<"work", 1, a>>
            /\ Cell(m, wb, vb, a) = <<"ram", 0, a - 49152>>
         \/ /\ 57344 <= a /\ a <= 61439
            /\ Place(m, wb, vb, a) = <<"work", 0, a - 8192>>
            /\ Cell(m, wb, vb, a) = <<"ram", 0, a - 57344>>
         \/ /\ m = "CGB" /\ 61440 <= a /\ a <= 65023
            /\ Place(m, wb, vb, a) = <<"work", wb, a - 8192>>
            /\ Cell(m, wb, vb, a) = <<"ram", 0, a - 57344>>
         \/ /\ m = "DMG" /\ 61440 <= a /\ a <= 65023
            /\ Place(m, wb, vb, a) = <<"work", 1, a - 8192>>
            /\ Cell(m, wb, vb, a) = <<"ram", 0, a - 57344>>
         \/ /\ 65408 <= a /\ a <= 65534
            /\ Place(m, wb, vb, a) = <<"high", 0, a>>
            /\ Cell(m, wb, vb, a) = <<"ram", 0, (a - 65408) + 32768>>
<1>0. a \in Int
  BY MemoryRanges
<1>1. CASE a \in VideoRam
  <2>1. 32768 <= a /\ a <= 40959
    BY <1>0, <1>1, Regions
  <2>2. a \notin WorkRam0 /\ a \notin WorkRam1 /\ a \notin Echo0 /\ a \notin Echo1
    BY <1>0, <2>1, Regions, SMT
  <2>3. (IF m = "CGB" THEN vb ELSE 0) = VideoBankOf(m, vb)
    BY DEF VideoBankOf
  <2>4. Place(m, wb, vb, a) = <<"video", VideoBankOf(m, vb), a>>
    BY <1>1, <2>2, <2>3, SMT DEF Place
  <2>5. Cell(m, wb, vb, a) = <<"vram", VideoBankOf(m, vb), a - 32768>>
    BY <1>1 DEF Cell, VideoAt
  <2> QED
    BY <2>1, <2>4, <2>5
<1>2. CASE a \in WorkRam0
  <2>1. 49152 <= a /\ a <= 53247
    BY <1>0, <1>2, Regions
  <2>2. /\ a \notin VideoRam /\ a \in WorkRam
        /\ a \notin WorkRam1 /\ a \notin Echo0 /\ a \notin Echo1
    BY <1>0, <2>1, Regions, SMT
  <2>3. Place(m, wb, vb, a) = <<"work", 0, a>>
    BY <1>2, <2>2, SMT DEF Place
  <2>4. Work(m, wb, a) = a - 49152
    BY <1>0, <2>1, SMT DEF Work
  <2>5. Cell(m, wb, vb, a) = <<"ram", 0, a - 49152>>
    BY <2>2, <2>4 DEF Cell, RamAt
  <2> QED
    BY <2>1, <2>3, <2>5
<1>3. CASE a \in WorkRam1
  <2>1. 53248 <= a /\ a <= 57343
    BY <1>0, <1>3, Regions
  <2>2. /\ a \notin VideoRam /\ a \in WorkRam
        /\ a \notin WorkRam0 /\ a \notin Echo0 /\ a \notin Echo1
    BY <1>0, <2>1, Regions, SMT
  <2>3. CASE m = "CGB"
    <3>1. Place(m, wb, vb, a) = <<"work", wb, a>>
      BY <1>3, <2>2, <2>3, SMT DEF Place
    <3>2. Work(m, wb, a) = (a + 4096 * wb) - 49152
      BY <1>0, <2>1, <2>3, SMT DEF Work, BankSize
    <3>3. Cell(m, wb, vb, a) = <<"ram", 0, (a + 4096 * wb) - 49152>>
      BY <2>2, <3>2 DEF Cell, RamAt
    <3> QED
      BY <2>1, <2>3, <3>1, <3>3
  <2>4. CASE m = "DMG"
    <3>1. Place(m, wb, vb, a) = <<"work", 1, a>>
      BY <1>3, <2>2, <2>4, SMT DEF Place
    <3>2. Work(m, wb, a) = a - 49152
      BY <1>0, <2>1, <2>4, SMT DEF Work
    <3>3. Cell(m, wb, vb, a) = <<"ram", 0, a - 49152>>
      BY <2>2, <3>2 DEF Cell, RamAt
    <3> QED
      BY <2>1, <2>4, <3>1, <3>3
  <2> QED
    BY <2>3, <2>4 DEF Models
<1>4. CASE a \in Echo0
  <2>1. 57344 <= a /\ a <= 61439
    BY <1>0, <1>4, Regions
  <2>2. /\ a \notin VideoRam /\ a \in WorkRam
        /\ a \notin WorkRam0 /\ a \notin WorkRam1 /\ a \notin Echo1
    BY <1>0, <2>1, Regions, SMT
  <2>3. Place(m, wb, vb, a) = <<"work", 0, a - 8192>>
    BY <1>4, <2>2, SMT DEF Place
  <2>4. Work(m, wb, a) = a - 57344
    BY <1>0, <2>1, SMT DEF Work
  <2>5. Cell(m, wb, vb, a) = <<"ram", 0, a - 57344>>
    BY <2>2, <2>4 DEF Cell, RamAt
  <2> QED
    BY <2>1, <2>3, <2>5
<1>5. CASE a \in Echo1
  <2>1. 61440 <= a /\ a <= 65023
    BY <1>0, <1>5, Regions
  <2>2. /\ a \notin VideoRam /\ a \in WorkRam
        /\ a \notin WorkRam0 /\ a \notin WorkRam1 /\ a \notin Echo0
    BY <1>0, <2>1, Regions, SMT
  <2>4. Work(m, wb, a) = a - 57344
    BY <1>0, <2>1, SMT DEF Work
  <2>5. Cell(m, wb, vb, a) = <<"ram", 0, a - 57344>>
    BY <2>2, <2>4 DEF Cell, RamAt
  <2>6. CASE m = "CGB"
    <3>1. Place(m, wb, vb, a) = <<"work", wb, a - 8192>>
      BY <1>5, <2>2, <2>6, SMT DEF Place
    <3> QED
      BY <2>1, <2>5, <2>6, <3>1
  <2>7. CASE m = "DMG"
    <3>1. Place(m, wb, vb, a) = <<"work", 1, a - 8192>>
      BY <1>5, <2>2, <2>7, SMT DEF Place
    <3> QED
      BY <2>1, <2>5, <2>7, <3>1
  <2> QED
    BY <2>6, <2>7 DEF Models
<1>6. CASE a \in HighRam
  <2>1. 65408 <= a /\ a <= 65534
    BY <1>0, <1>6, SMT DEF HighRam
  <2>2. /\ a \notin VideoRam /\ a \notin WorkRam
        /\ a \notin WorkRam0 /\ a \notin WorkRam1 /\ a \notin Echo0 /\ a \notin Echo1
    BY <1>0, <2>1, Regions, SMT
  <2>3. Place(m, wb, vb, a) = <<"high", 0, a>>
    BY <2>2, SMT DEF Place
  <2>4. Cell(m, wb, vb, a) = <<"ram", 0, HighAt(a)>>
    BY <2>2 DEF Cell, RamAt
  <2>5. HighAt(a) = (a - 65408) + 32768
    BY <1>0, SMT DEF HighAt, WramSize
  <2> QED
    BY <2>1, <2>3, <2>4, <2>5
<1>7. a \in WorkRam => a \in WorkRam0 \/ a \in WorkRam1 \/ a \in Echo0 \/ a \in Echo1
  BY <1>0, Regions, SMT
<1> QED
  BY MemoryRanges, <1>1, <1>2, <1>3, <1>4, <1>5, <1>6, <1>7

\* The accesses that keep to the map, by their bounds.
LEMMA NotAstray ==
  ASSUME NEW m \in Models, NEW wb \in 0..7, NEW a \in Int, ~Astray(m, wb, a)
  PROVE  /\ m = "CGB" /\ 53248 <= a /\ a <= 57343 => wb \in 0..6
         /\ m = "CGB" => ~(61440 <= a /\ a <= 65023)
<1>1. ASSUME m = "CGB", 53248 <= a, a <= 57343 PROVE wb \in 0..6
  <2>1. a \in WorkRam1
    BY <1>1, Regions
  <2>2. wb # 7
    BY <1>1, <2>1 DEF Astray
  <2> QED
    BY <2>2, SMT
<1>2. m = "CGB" => ~(61440 <= a /\ a <= 65023)
  BY Regions DEF Astray
<1> QED
  BY <1>1, <1>2

\* The heart of the map: no two places share a cell, and no place has two.
LEMMA SamePlaceSameCell ==
  ASSUME NEW m \in Models,
         NEW wb \in 0..7, NEW vb \in 0..1, NEW a \in Memory, ~Astray(m, wb, a),
         NEW wc \in 0..7, NEW vc \in 0..1, NEW b \in Memory, ~Astray(m, wc, b)
  PROVE  Place(m, wb, vb, a) = Place(m, wc, vc, b) <=> Cell(m, wb, vb, a) = Cell(m, wc, vc, b)
<1>1. a \in Int /\ b \in Int
  BY MemoryRanges
<1>2. VideoBankOf(m, vb) \in Int /\ VideoBankOf(m, vc) \in Int
  BY DEF VideoBankOf
<1>3. m = "DMG" \/ m = "CGB"
  BY DEF Models
<1>4. /\ m = "CGB" /\ 53248 <= a /\ a <= 57343 => wb \in 0..6
      /\ m = "CGB" => ~(61440 <= a /\ a <= 65023)
      /\ m = "CGB" /\ 53248 <= b /\ b <= 57343 => wc \in 0..6
      /\ m = "CGB" => ~(61440 <= b /\ b <= 65023)
  BY <1>1, NotAstray
<1>5. CASE a \in VideoRam
  <2>1. /\ Place(m, wb, vb, a) = <<"video", VideoBankOf(m, vb), a>>
        /\ Cell(m, wb, vb, a) = <<"vram", VideoBankOf(m, vb), a - 32768>>
    BY <1>1, <1>5, Regions, PlaceAndCell
  <2> QED
    BY <1>1, <1>2, <2>1, PlaceAndCell, SMTT(60)
<1>6. CASE a \in HighRam
  <2>1. /\ 65408 <= a
        /\ Place(m, wb, vb, a) = <<"high", 0, a>>
        /\ Cell(m, wb, vb, a) = <<"ram", 0, (a - 65408) + 32768>>
    BY <1>1, <1>6, PlaceAndCell, SMT DEF HighRam
  <2> QED
    BY <1>1, <1>4, <2>1, PlaceAndCell, SMTT(60)
<1>7. CASE a \in WorkRam
  <2>1. 49152 <= a /\ a <= 65023
    BY <1>1, <1>7, Regions
  <2>2. CASE a <= 53247
    <3>1. Place(m, wb, vb, a) = <<"work", 0, a>> /\ Cell(m, wb, vb, a) = <<"ram", 0, a - 49152>>
      BY <1>1, <2>1, <2>2, PlaceAndCell
    <3>2. PICK c \in 0..4095 :
            Place(m, wb, vb, a) = <<"work", 0, c + 49152>> /\ Cell(m, wb, vb, a) = <<"ram", 0, c>>
      <4>1. a - 49152 \in 0..4095 /\ (a - 49152) + 49152 = a
        BY <1>1, <2>1, <2>2
      <4> QED
        BY <3>1, <4>1
    <3> QED
      BY <1>1, <1>4, <3>2, PlaceAndCell, SMTT(60)
  <2>3. CASE 57344 <= a /\ a <= 61439
    <3>1. /\ Place(m, wb, vb, a) = <<"work", 0, a - 8192>>
          /\ Cell(m, wb, vb, a) = <<"ram", 0, a - 57344>>
      BY <1>1, <2>3, PlaceAndCell
    <3>2. PICK c \in 0..4095 :
            Place(m, wb, vb, a) = <<"work", 0, c + 49152>> /\ Cell(m, wb, vb, a) = <<"ram", 0, c>>
      <4>1. a - 57344 \in 0..4095 /\ (a - 57344) + 49152 = a - 8192
        BY <1>1, <2>3
      <4> QED
        BY <3>1, <4>1
    <3> QED
      BY <1>1, <1>4, <3>2, PlaceAndCell, SMTT(60)
  <2>4. CASE m = "CGB" /\ 53248 <= a /\ a <= 57343
    <3>1. /\ wb \in 0..6
          /\ Place(m, wb, vb, a) = <<"work", wb, a>>
          /\ Cell(m, wb, vb, a) = <<"ram", 0, (a + 4096 * wb) - 49152>>
      BY <1>1, <1>4, <2>4, PlaceAndCell
    <3>2. CASE 53248 <= b /\ b <= 57343
      <4>1. /\ wc \in 0..6
            /\ Place(m, wc, vc, b) = <<"work", wc, b>>
            /\ Cell(m, wc, vc, b) = <<"ram", 0, (b + 4096 * wc) - 49152>>
        BY <1>1, <1>4, <2>4, <3>2, PlaceAndCell
      <4>2. wb = wc /\ a = b <=> (a + 4096 * wb) - 49152 = (b + 4096 * wc) - 49152
        BY <1>1, <2>4, <3>1, <3>2, <4>1
      <4> QED
        BY <3>1, <4>1, <4>2
    <3>3. CASE ~(53248 <= b /\ b <= 57343)
      BY <1>1, <1>4, <2>4, <3>1, <3>3, PlaceAndCell, SMTT(60)
    <3> QED
      BY <3>2, <3>3
  <2>5. CASE m = "DMG" /\ 53248 <= a /\ a <= 57343
    <3>1. Place(m, wb, vb, a) = <<"work", 1, a>> /\ Cell(m, wb, vb, a) = <<"ram", 0, a - 49152>>
      BY <1>1, <2>5, PlaceAndCell
    <3> QED
      BY <1>1, <2>5, <3>1, PlaceAndCell, SMTT(60)
  <2>6. CASE m = "DMG" /\ 61440 <= a
    <3>1. /\ Place(m, wb, vb, a) = <<"work", 1, a - 8192>>
          /\ Cell(m, wb, vb, a) = <<"ram", 0, a - 57344>>
      BY <1>1, <2>1, <2>6, PlaceAndCell
    <3>2. PICK c \in 4096..8191 :
            Place(m, wb, vb, a) = <<"work", 1, c + 49152>> /\ Cell(m, wb, vb, a) = <<"ram", 0, c>>
      <4>1. a - 57344 \in 4096..8191 /\ (a - 57344) + 49152 = a - 8192
        BY <1>1, <2>1, <2>6
      <4> QED
        BY <3>1, <4>1
    <3> QED
      BY <1>1, <2>6, <3>2, PlaceAndCell, SMTT(60)
  <2> QED
    BY <1>1, <1>3, <1>4, <2>1, <2>2, <2>3, <2>4, <2>5, <2>6
<1> QED
  BY <1>5, <1>6, <1>7, MemoryRanges

-----------------------------------------------------------------------------
(* What is stored is read back. *)

\* The byte that an access finds.
Kept(wb, vb, a) ==
  IF a \in VideoRam THEN vram[VideoBankOf(model, vb)][VideoAt(a)] ELSE ram[RamAt(model, wb, a)]

MemTypes ==
  /\ model \in Models
  /\ wbk \in Selectable
  /\ vbk \in 0..1
  /\ ram \in [Offsets -> Int]
  /\ vram \in [0..1 -> [VideoOffsets -> Int]]
  /\ told \in [Places -> Int]

\* As long as the program did not stray, every place holds the byte that was
\* stored there last, also behind the banks that are not selected now.
MemInv ==
  /\ MemTypes
  /\ strayed \in BOOLEAN
  /\ ~strayed =>
       \A wb \in Selectable, vb \in 0..1, a \in Memory :
         ~Astray(model, wb, a) => Kept(wb, vb, a) = told[Place(model, wb, vb, a)]

LEMMA SelectableBanks == Selectable \subseteq 0..7
<1> SUFFICES ASSUME NEW b \in Banks, b # 0 PROVE b % 8 \in 0..7
  BY DEF Selectable
<1>1. b \in Nat
  BY MmuAssumption DEF MmuAssumption
<1> QED
  BY <1>1

LEMMA PlaceInPlaces ==
  ASSUME NEW m \in Models, NEW wb \in Selectable, NEW vb \in 0..1, NEW a \in Memory
  PROVE  Place(m, wb, vb, a) \in Places
BY DEF Places, Models

LEMMA AtInOffsets ==
  ASSUME NEW m \in Models, NEW wb \in Selectable, NEW a \in Memory
  PROVE  /\ a \in VideoRam => VideoAt(a) \in VideoOffsets
         /\ a \notin VideoRam => RamAt(m, wb, a) \in Offsets
<1>1. a \in VideoRam => VideoAt(a) \in VideoOffsets
  BY DEF VideoOffsets
<1>2. ASSUME a \notin VideoRam PROVE RamAt(m, wb, a) \in Offsets
  <2> DEFINE T == {WriteTo(n, b, x) : n \in {"DMG", "CGB"}, b \in Selectable, x \in Memory}
             t == Target("ram", RamAt(m, wb, a))
  <2>1. t \in T
    BY <1>2, WhoAnswers DEF Models
  <2>2. t.unit = "ram" /\ t.at = RamAt(m, wb, a)
    BY DEF Target
  <2>3. Offsets = {u.at : u \in {x \in T : x.unit = "ram"}}
    BY DEF Offsets
  <2> HIDE DEF T, t
  <2> QED
    BY <2>1, <2>2, <2>3
<1> QED
  BY <1>1, <1>2

LEMMA MemInitInv == MmuInit => MemInv
<1> SUFFICES ASSUME MmuInit PROVE MemInv
  OBVIOUS
<1>1. MemTypes
  BY DEF MmuInit, MemTypes, Models, Selectable
<1>2. ASSUME NEW wb \in Selectable, NEW vb \in 0..1, NEW a \in Memory
      PROVE  Kept(wb, vb, a) = told[Place(model, wb, vb, a)]
  <2>1. model \in Models /\ VideoBankOf(model, vb) \in 0..1
    BY <1>1 DEF MemTypes, VideoBankOf
  <2>2. told[Place(model, wb, vb, a)] = 0
    BY <2>1, PlaceInPlaces DEF MmuInit
  <2>3. Kept(wb, vb, a) = 0
    BY <2>1, AtInOffsets DEF MmuInit, Kept
  <2> QED
    BY <2>2, <2>3
<1>3. strayed \in BOOLEAN
  BY DEF MmuInit
<1> QED
  BY <1>1, <1>2, <1>3 DEF MemInv

\* What a store changes: one cell and one place, or nothing.
LEMMA StoreChanges ==
  ASSUME MemTypes, NEW a \in Memory, NEW v \in Values, StoreByte(a, v)
  PROVE  /\ MemTypes'
         /\ UNCHANGED <<model, wbk, vbk>>
         /\ a \in VideoRam /\ drawing => UNCHANGED <<ram, vram, told>>
         /\ ~(a \in VideoRam /\ drawing) =>
              \A p \in Places : told'[p] = IF p = Place(model, wbk, vbk, a) THEN v ELSE told[p]
         /\ a \in VideoRam /\ ~drawing =>
              /\ ram' = ram
              /\ \A c \in 0..1, o \in VideoOffsets :
                   vram'[c][o] = IF c = VideoBankOf(model, vbk) /\ o = VideoAt(a) THEN v ELSE vram[c][o]
         /\ a \notin VideoRam =>
              /\ vram' = vram
              /\ \A o \in Offsets : ram'[o] = IF o = RamAt(model, wbk, a) THEN v ELSE ram[o]
<1>0. v \in Int
  BY MmuAssumption DEF MmuAssumption
<1>1. /\ model \in Models /\ wbk \in Selectable /\ vbk \in 0..1
      /\ UNCHANGED model /\ UNCHANGED wbk /\ UNCHANGED vbk
  BY DEF MemTypes, StoreByte
<1> DEFINE P == Place(model, wbk, vbk, a)
           B == VideoBankOf(model, vbk)
           O == RamAt(model, wbk, a)
<1>2. P \in Places /\ B \in 0..1
  BY <1>1, PlaceInPlaces DEF VideoBankOf
<1>3. WriteTo(model, wbk, a) =
        IF a \in VideoRam THEN Target("vram", VideoAt(a)) ELSE Target("ram", O)
  BY WhoAnswers
<1>4. VideoBank = B
  BY DEF VideoBank, VideoBankOf
<1>5. CASE a \in VideoRam /\ drawing
  <2>1. UNCHANGED <<ram, vram, told>>
    BY <1>3, <1>5 DEF StoreByte, Target
  <2> QED
    BY <1>1, <1>5, <2>1 DEF MemTypes
<1>6. CASE a \in VideoRam /\ ~drawing
  <2>1. /\ ram' = ram
        /\ vram' = [vram EXCEPT ![B][VideoAt(a)] = v]
        /\ told' = [told EXCEPT ![P] = v]
    BY <1>3, <1>4, <1>6 DEF StoreByte, Target
  <2>2. VideoAt(a) \in VideoOffsets
    BY <1>1, <1>6, AtInOffsets
  <2> HIDE DEF P, B
  <2>3. /\ vram' \in [0..1 -> [VideoOffsets -> Int]]
        /\ told' \in [Places -> Int]
    BY <1>0, <1>2, <2>1, <2>2 DEF MemTypes
  <2>4. MemTypes'
    BY <1>1, <2>1, <2>3 DEF MemTypes
  <2>5. \A c \in 0..1, o \in VideoOffsets :
          vram'[c][o] = IF c = B /\ o = VideoAt(a) THEN v ELSE vram[c][o]
    BY <1>2, <2>1, <2>2 DEF MemTypes
  <2>6. \A p \in Places : told'[p] = IF p = P THEN v ELSE told[p]
    BY <1>2, <2>1 DEF MemTypes
  <2> QED
    BY <1>1, <1>6, <2>1, <2>4, <2>5, <2>6 DEF P, B
<1>7. CASE a \notin VideoRam
  <2>1. /\ vram' = vram
        /\ ram' = [ram EXCEPT ![O] = v]
        /\ told' = [told EXCEPT ![P] = v]
    BY <1>3, <1>7 DEF StoreByte, Target
  <2>2. O \in Offsets
    BY <1>1, <1>7, AtInOffsets
  <2> HIDE DEF P, O
  <2>3. /\ ram' \in [Offsets -> Int]
        /\ told' \in [Places -> Int]
    BY <1>0, <1>2, <2>1, <2>2 DEF MemTypes
  <2>4. MemTypes'
    BY <1>1, <2>1, <2>3 DEF MemTypes
  <2>5. \A o \in Offsets : ram'[o] = IF o = O THEN v ELSE ram[o]
    BY <2>1, <2>2 DEF MemTypes
  <2>6. \A p \in Places : told'[p] = IF p = P THEN v ELSE told[p]
    BY <1>2, <2>1 DEF MemTypes
  <2> QED
    BY <1>1, <1>7, <2>1, <2>4, <2>5, <2>6 DEF P, O
<1> QED
  BY <1>5, <1>6, <1>7

LEMMA StoreByteInv ==
  ASSUME MemInv, NEW a \in Memory, NEW v \in Values, StoreByte(a, v)
  PROVE  MemInv'
<1>1. /\ MemTypes /\ MemTypes'
      /\ model \in Models /\ wbk \in Selectable /\ vbk \in 0..1
      /\ wbk \in 0..7 /\ Selectable \subseteq 0..7
      /\ UNCHANGED model /\ UNCHANGED wbk /\ UNCHANGED vbk
  BY StoreChanges, SelectableBanks DEF MemInv, MemTypes
<1>2. strayed' = (strayed \/ Astray(model, wbk, a)) /\ strayed' \in BOOLEAN
  BY DEF StoreByte, MemInv, Astray
<1>3. SUFFICES ASSUME ~strayed, ~Astray(model, wbk, a),
                      NEW wb \in Selectable, NEW vb \in 0..1, NEW b \in Memory,
                      ~Astray(model, wb, b)
               PROVE  Kept(wb, vb, b)' = told'[Place(model, wb, vb, b)]
  BY <1>1, <1>2 DEF MemInv
<1> DEFINE P == Place(model, wbk, vbk, a)
           Q == Place(model, wb, vb, b)
<1>4. P = Q <=> Cell(model, wb, vb, b) = Cell(model, wbk, vbk, a)
  BY <1>1, <1>3, SamePlaceSameCell
<1>5. Kept(wb, vb, b) = told[Q]
  BY <1>3 DEF MemInv
<1>6. Q \in Places /\ VideoBankOf(model, vb) \in 0..1
  BY <1>1, PlaceInPlaces DEF VideoBankOf
<1>7. ~(a \in VideoRam /\ drawing) => told'[Q] = IF P = Q THEN v ELSE told[Q]
  BY <1>1, <1>6, StoreChanges
<1> HIDE DEF P, Q
<1>8. CASE a \in VideoRam /\ drawing
  <2>1. UNCHANGED <<ram, vram, told>>
    BY <1>1, <1>8, StoreChanges
  <2>2. Kept(wb, vb, b)' = Kept(wb, vb, b) /\ told'[Q] = told[Q]
    BY <1>1, <2>1 DEF Kept
  <2> QED
    BY <1>5, <2>2 DEF Q
<1>9. CASE a \in VideoRam /\ ~drawing
  <2>1. Cell(model, wbk, vbk, a) = <<"vram", VideoBankOf(model, vbk), VideoAt(a)>>
    BY <1>9 DEF Cell
  <2>2. CASE b \in VideoRam
    <3>1. Cell(model, wb, vb, b) = <<"vram", VideoBankOf(model, vb), VideoAt(b)>>
      BY <2>2 DEF Cell
    <3>2. VideoAt(b) \in VideoOffsets
      BY <1>1, <2>2, AtInOffsets
    <3>3. /\ Kept(wb, vb, b)' = vram'[VideoBankOf(model, vb)][VideoAt(b)]
          /\ Kept(wb, vb, b) = vram[VideoBankOf(model, vb)][VideoAt(b)]
      BY <1>1, <2>2 DEF Kept
    <3>4. P = Q <=> VideoBankOf(model, vb) = VideoBankOf(model, vbk) /\ VideoAt(b) = VideoAt(a)
      BY <1>4, <2>1, <3>1
    <3>5. \A c \in 0..1, o \in VideoOffsets :
            vram'[c][o] = IF c = VideoBankOf(model, vbk) /\ o = VideoAt(a) THEN v ELSE vram[c][o]
      BY <1>1, <1>9, StoreChanges
    <3>6. vram'[VideoBankOf(model, vb)][VideoAt(b)] =
            IF P = Q THEN v ELSE vram[VideoBankOf(model, vb)][VideoAt(b)]
      BY <1>6, <3>2, <3>4, <3>5
    <3> QED
      BY <1>5, <1>7, <1>9, <3>3, <3>6, Zenon DEF Q
  <2>3. CASE b \notin VideoRam
    <3>1. Cell(model, wb, vb, b) = <<"ram", 0, RamAt(model, wb, b)>>
      BY <2>3 DEF Cell
    <3>2. ram' = ram
      BY <1>1, <1>9, StoreChanges
    <3>3. Kept(wb, vb, b)' = Kept(wb, vb, b)
      BY <1>1, <2>3, <3>2 DEF Kept
    <3>4. P # Q
      BY <1>4, <2>1, <3>1
    <3> QED
      BY <1>5, <1>7, <1>9, <3>3, <3>4, Zenon DEF Q
  <2> QED
    BY <2>2, <2>3
<1>10. CASE a \notin VideoRam
  <2>1. Cell(model, wbk, vbk, a) = <<"ram", 0, RamAt(model, wbk, a)>>
    BY <1>10 DEF Cell
  <2>2. CASE b \notin VideoRam
    <3>1. Cell(model, wb, vb, b) = <<"ram", 0, RamAt(model, wb, b)>>
      BY <2>2 DEF Cell
    <3>2. RamAt(model, wb, b) \in Offsets
      BY <1>1, <2>2, AtInOffsets
    <3>3. /\ Kept(wb, vb, b)' = ram'[RamAt(model, wb, b)]
          /\ Kept(wb, vb, b) = ram[RamAt(model, wb, b)]
      BY <1>1, <2>2 DEF Kept
    <3>4. P = Q <=> RamAt(model, wb, b) = RamAt(model, wbk, a)
      BY <1>4, <2>1, <3>1
    <3>5. \A o \in Offsets : ram'[o] = IF o = RamAt(model, wbk, a) THEN v ELSE ram[o]
      BY <1>1, <1>10, StoreChanges
    <3>6. ram'[RamAt(model, wb, b)] = IF P = Q THEN v ELSE ram[RamAt(model, wb, b)]
      BY <3>2, <3>4, <3>5
    <3> QED
      BY <1>5, <1>7, <1>10, <3>3, <3>6, Zenon DEF Q
  <2>3. CASE b \in VideoRam
    <3>1. Cell(model, wb, vb, b) = <<"vram", VideoBankOf(model, vb), VideoAt(b)>>
      BY <2>3 DEF Cell
    <3>2. vram' = vram
      BY <1>1, <1>10, StoreChanges
    <3>3. Kept(wb, vb, b)' = Kept(wb, vb, b)
      BY <1>1, <2>3, <3>2 DEF Kept
    <3>4. P # Q
      BY <1>4, <2>1, <3>1
    <3> QED
      BY <1>5, <1>7, <1>10, <3>3, <3>4, Zenon DEF Q
  <2> QED
    BY <2>2, <2>3
<1> QED
  BY <1>8, <1>9, <1>10

\* The two bank registers select banks that exist, and change nothing else.
LEMMA SelectTypes ==
  ASSUME MemTypes, NEW v \in Banks, SelectWork(v) \/ SelectVideo(v)
  PROVE  MemTypes' /\ UNCHANGED <<model, ram, vram, told, strayed>>
<1>1. UNCHANGED <<model, ram, vram, told, strayed>>
  BY DEF SelectWork, SelectVideo
<1>2. (IF v = 0 THEN 1 ELSE v % 8) \in Selectable
  BY DEF Selectable
<1>3. wbk' \in Selectable
  BY <1>2 DEF SelectWork, SelectVideo, MemTypes
<1>4. vbk' \in 0..1
  <2>1. v \in Nat
    BY MmuAssumption DEF MmuAssumption
  <2>2. v % 2 \in 0..1
    BY <2>1
  <2> QED
    BY <2>2 DEF SelectWork, SelectVideo, MemTypes
<1> QED
  BY <1>1, <1>3, <1>4 DEF MemTypes

\* What leaves the memory as it is.
LEMMA MemStillInv ==
  MemInv /\ MemTypes' /\ UNCHANGED <<model, ram, vram, told, strayed>> => MemInv'
BY DEF MemInv, Kept

LEMMA ConsoleResetsInv == MemInv /\ ConsoleResets => MemInv'
<1> SUFFICES ASSUME MemInv, ConsoleResets PROVE MemInv'
  OBVIOUS
<1>1. UNCHANGED <<model, ram, wbk, vbk, strayed>>
  BY DEF ConsoleResets
<1>2. /\ vram' = [b \in 0..1 |-> [o \in VideoOffsets |-> 0]]
      /\ told' = [p \in Places |-> IF p[1] = "video" THEN 0 ELSE told[p]]
  BY DEF ConsoleResets
<1>3. MemTypes'
  BY <1>1, <1>2 DEF MemInv, MemTypes
<1>4. ASSUME ~strayed, NEW wb \in Selectable, NEW vb \in 0..1, NEW a \in Memory,
             ~Astray(model, wb, a)
      PROVE  Kept(wb, vb, a)' = told'[Place(model, wb, vb, a)]
  <2> DEFINE p == Place(model, wb, vb, a)
  <2>1. model \in Models /\ VideoBankOf(model, vb) \in 0..1 /\ wb \in 0..7
    BY SelectableBanks DEF MemInv, MemTypes, VideoBankOf
  <2>2. p \in Places
    BY <2>1, PlaceInPlaces
  <2>3. Kept(wb, vb, a) = told[p]
    BY <1>4 DEF MemInv
  <2>4. a \in Int
    BY MemoryRanges
  <2>5. CASE a \in VideoRam
    <3>1. p[1] = "video"
      BY <2>1, <2>4, <2>5, PlaceAndCell, Regions
    <3>2. Kept(wb, vb, a)' = 0
      BY <1>1, <1>2, <2>1, <2>5, AtInOffsets DEF Kept
    <3> QED
      BY <1>2, <2>2, <3>1, <3>2
  <2>6. CASE a \notin VideoRam
    <3>1. p[1] # "video"
      BY <2>1, <2>4, <2>6, PlaceAndCell, Regions
    <3>2. Kept(wb, vb, a)' = Kept(wb, vb, a)
      BY <1>1, <2>6 DEF Kept
    <3>3. told'[p] = told[p]
      BY <1>2, <2>2, <3>1
    <3> QED
      BY <2>3, <3>2, <3>3
  <2> QED
    BY <2>5, <2>6
<1> QED
  BY <1>1, <1>3, <1>4 DEF MemInv

\* What a step does to the memory, with the others out of the way.
LEMMA MemorySteps ==
  ASSUME MemTypes, [Next]_vars
  PROVE  \/ \E a \in Memory, v \in Values : StoreByte(a, v)
         \/ MemTypes' /\ UNCHANGED <<model, ram, vram, told, strayed>>
         \/ ConsoleResets
<1>1. CASE Execute
  <2>1. CASE UnmapBoot \/ DrawingChanges \/ UNCHANGED mmuVars
    BY <2>1 DEF UnmapBoot, DrawingChanges, mmuVars, MemTypes
  <2> QED
    BY <1>1, <2>1, SelectTypes DEF Execute, Access
<1>2. CASE Events
  BY <1>2 DEF Events, mmuVars, MemTypes
<1>3. CASE Resets
  BY <1>3 DEF Resets, CpuResets, MemTypes
<1>4. CASE UNCHANGED vars
  BY <1>4 DEF vars, mmuVars, MemTypes
<1> QED
  BY <1>1, <1>2, <1>3, <1>4 DEF Next

LEMMA MemNextInv == MemInv /\ [Next]_vars => MemInv'
<1> SUFFICES ASSUME MemInv, [Next]_vars PROVE MemInv'
  OBVIOUS
<1>1. MemTypes
  BY DEF MemInv
<1> QED
  BY <1>1, MemorySteps, StoreByteInv, MemStillInv, ConsoleResetsInv

\* A load finds the byte that is kept.
LEMMA LoadedIsKept ==
  ASSUME NEW a \in Memory, a \in VideoRam => ~drawing
  PROVE  Loaded(a) = Kept(wbk, vbk, a)
<1>1. a \in Int /\ ~(a < 256) /\ a # BootRegister
  <2>1. a \in Int /\ (a \in VideoRam \/ a \in WorkRam \/ a \in HighRam)
    BY MemoryRanges
  <2>2. CASE a \in HighRam
    BY <2>1, <2>2, SMT DEF HighRam, BootRegister
  <2>3. CASE a \notin HighRam
    BY <2>1, <2>3, Regions, SMT DEF BootRegister
  <2> QED
    BY <2>2, <2>3
<1>2. ReadFrom(model, wbk, bootrom_mapped, a) = WriteTo(model, wbk, a)
  BY <1>1 DEF ReadFrom
<1>3. CASE a \in VideoRam
  BY <1>2, <1>3, WhoAnswers DEF Loaded, Kept, Target, VideoBank, VideoBankOf
<1>4. CASE a \notin VideoRam
  BY <1>2, <1>4, WhoAnswers DEF Loaded, Kept, Target
<1> QED
  BY <1>3, <1>4

\* A load gives what was stored last in the place it means, through whichever
\* address and whatever banks were selected in between, in both models and for
\* all addresses, bytes and bank values: the four functions of lib/mmu.c agree
\* with its comment, but for the two places of the CGB that StoreReadsBack
\* excepts: F000 to FDFF, and bank 7 at D000.
THEOREM MemoryReadsBack == Spec => []StoreReadsBack
<1>1. MemInv => StoreReadsBack
  BY LoadedIsKept DEF StoreReadsBack, MemInv, MemTypes
<1>2. Init => MemInv
  BY MemInitInv DEF Init
<1> QED
  BY <1>1, <1>2, MemNextInv, PTL DEF Spec

-----------------------------------------------------------------------------
(* The two faults are those of the CGB, and of one bank. *)

\* In a DMG there is nowhere to stray.
DmgInv == model = "DMG" => ~strayed

LEMMA DmgNextInv == MemTypes /\ DmgInv /\ [Next]_vars => DmgInv'
<1> SUFFICES ASSUME MemTypes, DmgInv, [Next]_vars PROVE DmgInv'
  OBVIOUS
<1>1. CASE \E a \in Memory, v \in Values : StoreByte(a, v)
  BY <1>1 DEF StoreByte, Astray, DmgInv
<1>2. CASE UNCHANGED <<model, strayed>>
  BY <1>2 DEF DmgInv
<1> QED
  BY <1>1, <1>2, MemorySteps DEF ConsoleResets

\* The places of work RAM and of echo RAM in a DMG.
LEMMA DmgPlaces ==
  ASSUME NEW wb \in 0..7, NEW vb \in 0..1, NEW a \in Memory
  PROVE  /\ 49152 <= a /\ a <= 53247 => Place("DMG", wb, vb, a) = <<"work", 0, a>>
         /\ 53248 <= a /\ a <= 57343 => Place("DMG", wb, vb, a) = <<"work", 1, a>>
         /\ 57344 <= a /\ a <= 61439 => Place("DMG", wb, vb, a) = <<"work", 0, a - 8192>>
         /\ 61440 <= a /\ a <= 65023 => Place("DMG", wb, vb, a) = <<"work", 1, a - 8192>>
<1>1. a \in Int /\ "DMG" \in Models
  BY MemoryRanges DEF Models
<1> QED
  BY <1>1, PlaceAndCell, SMT

\* Echo RAM is the mirror of C000 to DDFF that the comment says it is, for all
\* its addresses, in the DMG.  In the CGB the half at F000 takes no notice of
\* the bank at D000.
THEOREM DmgEchoMirrors == Spec => [](model = "DMG" => EchoMirrors)
<1>1. MemInv /\ DmgInv => (model = "DMG" => EchoMirrors)
  <2> SUFFICES ASSUME MemInv, DmgInv, model = "DMG",
                      NEW a \in Memory, a \in Echo0 \union Echo1, a - 8192 \in Memory
               PROVE  Loaded(a) = Loaded(a - 8192)
    BY DEF EchoMirrors
  <2> DEFINE b == a - 8192
  <2>1. a \in Int /\ b \in Int /\ b \in Memory
    BY MemoryRanges
  <2>2. 57344 <= a /\ a <= 65023
    BY <2>1, Regions, SMT
  <2>3. a \notin VideoRam /\ b \notin VideoRam
    BY <2>1, <2>2, Regions, SMT
  <2>4. ~strayed /\ ~Astray(model, wbk, a) /\ ~Astray(model, wbk, b)
    BY DEF DmgInv, Astray
  <2>5. wbk \in Selectable /\ wbk \in 0..7 /\ vbk \in 0..1
    BY SelectableBanks DEF MemInv, MemTypes
  <2>6. Loaded(a) = told[Place(model, wbk, vbk, a)] /\ Loaded(b) = told[Place(model, wbk, vbk, b)]
    BY <2>1, <2>3, <2>4, <2>5, LoadedIsKept DEF MemInv
  <2>7. Place("DMG", wbk, vbk, a) = Place("DMG", wbk, vbk, b)
    <3>1. CASE a <= 61439
      <4>1. 49152 <= b /\ b <= 53247
        BY <2>1, <2>2, <3>1
      <4>2. Place("DMG", wbk, vbk, a) = <<"work", 0, b>>
        BY <2>1, <2>2, <2>5, <3>1, DmgPlaces
      <4> QED
        BY <2>1, <2>5, <4>1, <4>2, DmgPlaces
    <3>2. CASE a >= 61440
      <4>1. 53248 <= b /\ b <= 57343
        BY <2>1, <2>2, <3>2
      <4>2. Place("DMG", wbk, vbk, a) = <<"work", 1, b>>
        BY <2>1, <2>2, <2>5, <3>2, DmgPlaces
      <4> QED
        BY <2>1, <2>5, <4>1, <4>2, DmgPlaces
    <3> QED
      BY <2>1, <3>1, <3>2
  <2> QED
    BY <2>6, <2>7
<1>2. Init => MemInv /\ DmgInv
  BY MemInitInv DEF Init, MmuInit, DmgInv
<1>3. MemInv /\ DmgInv /\ [Next]_vars => DmgInv'
  BY DmgNextInv DEF MemInv
<1> QED
  BY <1>1, <1>2, <1>3, MemNextInv, PTL DEF Spec

\* The program never selects the last bank of work RAM.
NoLastBank == \A b \in Banks : b % 8 # 7

\* High RAM has what was stored there, also when the program strays to F000.
HighInv ==
  /\ NoLastBank
  /\ MemTypes
  /\ \A a \in Memory : a \in HighRam => ram[HighAt(a)] = told[<<"high", 0, a>>]

LEMMA SelectableBut7 == NoLastBank => Selectable \subseteq 0..6
<1> SUFFICES ASSUME NoLastBank, NEW b \in Banks, b # 0 PROVE b % 8 \in 0..6
  BY DEF Selectable
<1>1. b \in Nat /\ b % 8 # 7
  BY MmuAssumption DEF MmuAssumption, NoLastBank
<1> QED
  BY <1>1

\* Nothing but high RAM lies behind wram.
LEMMA BehindWram ==
  ASSUME NEW m \in Models, NEW wb \in 0..6, NEW a \in Memory, a \notin VideoRam
  PROVE  RamAt(m, wb, a) \in Int /\ (RamAt(m, wb, a) >= 32768 <=> a \in HighRam)
<1>1. a \in Int /\ (a \in WorkRam \/ a \in HighRam)
  BY MemoryRanges
<1>2. CASE a \in WorkRam
  <2>1. 49152 <= a /\ a <= 65023 /\ a \notin HighRam
    BY <1>1, <1>2, Regions, HighRegions
  <2>2. Work(m, wb, a) \in Int /\ Work(m, wb, a) < 32768
    <3>1. CASE a >= 57344
      BY <1>1, <2>1, <3>1, SMT DEF Work
    <3>2. CASE a < 57344 /\ m = "CGB" /\ a >= 53248
      BY <1>1, <2>1, <3>2, SMT DEF Work, BankSize
    <3>3. CASE a < 57344 /\ ~(m = "CGB" /\ a >= 53248)
      BY <1>1, <2>1, <3>3, SMT DEF Work
    <3> QED
      BY <1>1, <3>1, <3>2, <3>3
  <2> QED
    BY <1>2, <2>1, <2>2, SMT DEF RamAt
<1>3. CASE a \in HighRam
  <2>1. a \notin WorkRam /\ 65408 <= a
    BY <1>1, <1>3, HighRegions, SMT DEF HighRam
  <2> QED
    BY <1>1, <1>3, <2>1, SMT DEF RamAt, HighAt, WramSize
<1> QED
  BY <1>1, <1>2, <1>3

\* The place and the cell of a byte of high RAM, whatever is selected.
LEMMA HighPlace ==
  ASSUME NEW m \in Models, NEW wb \in 0..7, NEW vb \in 0..1, NEW a \in Memory
  PROVE  /\ a \in HighRam =>
              /\ Place(m, wb, vb, a) = <<"high", 0, a>>
              /\ a \notin VideoRam /\ RamAt(m, wb, a) = HighAt(a)
         /\ a \notin HighRam => Place(m, wb, vb, a)[1] # "high"
<1>1. a \in Int /\ (a \in VideoRam \/ a \in WorkRam \/ a \in HighRam)
  BY MemoryRanges
<1>2. CASE a \in HighRam
  <2>1. 65408 <= a /\ a \notin VideoRam /\ a \notin WorkRam
    BY <1>1, <1>2, HighRegions, SMT DEF HighRam
  <2>2. Place(m, wb, vb, a) = <<"high", 0, a>>
    BY <1>1, <2>1, PlaceAndCell
  <2> QED
    BY <1>2, <2>1, <2>2 DEF RamAt
<1>3. CASE a \notin HighRam
  <2>1. a < 65408
    BY <1>1, <1>3, Regions, SMT
  <2>2. Place(m, wb, vb, a)[1] # "high"
    BY <1>1, <2>1, PlaceAndCell
  <2> QED
    BY <1>3, <2>2
<1> QED
  BY <1>2, <1>3

LEMMA HighNextInv == HighInv /\ [Next]_vars => HighInv'
<1> SUFFICES ASSUME HighInv, [Next]_vars PROVE HighInv'
  OBVIOUS
<1>5. NoLastBank
  BY DEF HighInv
<1>1. MemTypes /\ model \in Models /\ wbk \in Selectable /\ wbk \in 0..6 /\ wbk \in 0..7 /\ vbk \in 0..1
  BY <1>5, SelectableBut7, SelectableBanks DEF HighInv, MemTypes
<1>2. ASSUME NEW b \in Memory, NEW v \in Values, StoreByte(b, v) PROVE HighInv'
  <2>1. MemTypes'
    BY <1>1, <1>2, StoreChanges
  <2>2. ASSUME NEW a \in Memory, a \in HighRam PROVE ram'[HighAt(a)] = told'[<<"high", 0, a>>]
    <3>1. /\ Place(model, wbk, vbk, a) = <<"high", 0, a>>
          /\ a \notin VideoRam /\ RamAt(model, wbk, a) = HighAt(a)
      BY <1>1, <2>2, HighPlace
    <3>2. <<"high", 0, a>> \in Places /\ HighAt(a) \in Offsets
      BY <1>1, <3>1, PlaceInPlaces, AtInOffsets
    <3>3. ram[HighAt(a)] = told[<<"high", 0, a>>]
      BY <2>2 DEF HighInv
    <3>4. CASE b \in VideoRam /\ drawing
      BY <1>1, <1>2, <3>3, <3>4, StoreChanges
    <3>5. CASE ~(b \in VideoRam /\ drawing)
      <4>1. told'[<<"high", 0, a>>] =
              IF <<"high", 0, a>> = Place(model, wbk, vbk, b) THEN v ELSE told[<<"high", 0, a>>]
        BY <1>1, <1>2, <3>2, <3>5, StoreChanges
      <4>2. CASE b = a
        <5>1. ram'[HighAt(a)] = v
          BY <1>1, <1>2, <3>1, <3>2, <4>2, StoreChanges
        <5> QED
          BY <3>1, <4>1, <4>2, <5>1
      <4>3. CASE b # a
        <5>1. <<"high", 0, a>> # Place(model, wbk, vbk, b)
          BY <1>1, <4>3, HighPlace
        <5>2. b \notin VideoRam => RamAt(model, wbk, b) # HighAt(a)
          <6>1. a \in Int /\ b \in Int
            BY MemoryRanges
          <6>2. CASE b \in HighRam
            <7>1. RamAt(model, wbk, b) = HighAt(b)
              BY <1>1, <6>2, HighPlace
            <7> QED
              BY <4>3, <6>1, <7>1, SMT DEF HighAt, WramSize
          <6>3. CASE b \notin HighRam /\ b \notin VideoRam
            <7>1. RamAt(model, wbk, b) < 32768 /\ RamAt(model, wbk, b) \in Int
              BY <1>1, <6>3, BehindWram
            <7>2. HighAt(a) >= 32768
              BY <1>1, <2>2, <3>1, BehindWram
            <7> QED
              BY <7>1, <7>2, <6>1, SMT DEF HighAt, WramSize
          <6> QED
            BY <6>2, <6>3
        <5>3. ram'[HighAt(a)] = ram[HighAt(a)]
          BY <1>1, <1>2, <3>2, <3>5, <5>2, StoreChanges
        <5> QED
          BY <3>3, <4>1, <5>1, <5>3
      <4> QED
        BY <4>2, <4>3
    <3> QED
      BY <3>4, <3>5
  <2> QED
    BY <1>5, <2>1, <2>2 DEF HighInv
<1>3. ASSUME MemTypes', UNCHANGED <<model, ram, vram, told, strayed>> PROVE HighInv'
  BY <1>3 DEF HighInv
<1>4. CASE ConsoleResets
  <2>1. UNCHANGED <<model, ram, wbk, vbk>>
    BY <1>4 DEF ConsoleResets
  <2>2. /\ vram' = [b \in 0..1 |-> [o \in VideoOffsets |-> 0]]
        /\ told' = [p \in Places |-> IF p[1] = "video" THEN 0 ELSE told[p]]
    BY <1>4 DEF ConsoleResets
  <2>3. MemTypes'
    BY <1>1, <2>1, <2>2 DEF MemTypes
  <2>4. ASSUME NEW a \in Memory, a \in HighRam PROVE told'[<<"high", 0, a>>] = told[<<"high", 0, a>>]
    <3>1. <<"high", 0, a>> \in Places
      BY <1>1, <2>4, HighPlace, PlaceInPlaces
    <3> QED
      BY <2>2, <3>1
  <2> QED
    BY <1>5, <2>1, <2>3, <2>4 DEF HighInv
<1> QED
  BY <1>1, <1>2, <1>3, <1>4, MemorySteps

LEMMA HighInitInv == NoLastBank /\ MmuInit => HighInv
<1> SUFFICES ASSUME NoLastBank, MmuInit PROVE HighInv
  OBVIOUS
<1>1. MemTypes /\ model \in Models /\ wbk \in Selectable /\ wbk \in 0..7 /\ vbk \in 0..1
  BY MemInitInv, SelectableBanks DEF MemInv, MemTypes
<1>2. ASSUME NEW a \in Memory, a \in HighRam PROVE ram[HighAt(a)] = told[<<"high", 0, a>>]
  <2>1. <<"high", 0, a>> \in Places /\ HighAt(a) \in Offsets
    BY <1>1, <1>2, HighPlace, PlaceInPlaces, AtInOffsets
  <2> QED
    BY <2>1 DEF MmuInit
<1> QED
  BY <1>1, <1>2 DEF HighInv

\* The cells of high RAM are its own.
LEMMA HighOffset ==
  ASSUME NoLastBank, NEW o \in Offsets, o >= WramSize
  PROVE  \E a \in Memory : a \in HighRam /\ o = HighAt(a) /\ a = o - WramSize + 65408
<1>1. PICK m \in Models, wb \in Selectable, a \in Memory :
        WriteTo(m, wb, a).unit = "ram" /\ WriteTo(m, wb, a).at = o
  BY DEF Offsets, Models
<1>2. a \in Int /\ wb \in 0..6
  BY MemoryRanges, SelectableBut7
<1>3. a \notin VideoRam /\ o = RamAt(m, wb, a)
  BY <1>1, WhoAnswers DEF Target
<1>4. a \in HighRam
  BY <1>2, <1>3, BehindWram, SMT DEF WramSize
<1>5. o = HighAt(a)
  BY <1>2, <1>3, <1>4, HighRegions DEF RamAt
<1> QED
  BY <1>2, <1>4, <1>5, SMT DEF HighAt, WramSize

\* No store to another address changes high RAM, unless the program selects the
\* last bank of work RAM: that bank is all that the run wram_bank shows.
THEOREM HighRamHeld == NoLastBank /\ Spec => HighRamApart
<1>1. HighInv /\ HighInv' =>
        [\A o \in Offsets : o >= WramSize /\ ram'[o] # ram[o] =>
           told'[<<"high", 0, o - WramSize + 65408>>] # told[<<"high", 0, o - WramSize + 65408>>]]_mmuVars
  <2> SUFFICES ASSUME HighInv, HighInv', NEW o \in Offsets, o >= WramSize, ram'[o] # ram[o]
               PROVE  told'[<<"high", 0, o - WramSize + 65408>>] # told[<<"high", 0, o - WramSize + 65408>>]
    OBVIOUS
  <2>1. PICK a \in Memory : a \in HighRam /\ o = HighAt(a) /\ a = o - WramSize + 65408
    BY HighOffset DEF HighInv
  <2>4. a \in HighRam /\ HighAt(a) = o
    BY <2>1
  <2>2. told[<<"high", 0, a>>] = ram[o]
    <3>1. ram[HighAt(a)] = told[<<"high", 0, a>>]
      BY <2>4 DEF HighInv
    <3> QED
      BY <2>4, <3>1, Zenon
  <2>3. told'[<<"high", 0, a>>] = ram'[o]
    <3>1. ram'[HighAt(a)] = told'[<<"high", 0, a>>]
      BY <2>4 DEF HighInv
    <3> QED
      BY <2>4, <3>1, Zenon
  <2> QED
    BY <2>1, <2>2, <2>3
<1>2. NoLastBank /\ Init => HighInv
  BY HighInitInv DEF Init
<1> QED
  BY <1>1, <1>2, HighNextInv, PTL DEF Spec, HighRamApart
=============================================================================
