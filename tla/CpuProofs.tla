----------------------------- MODULE CpuProofs ------------------------------
(***************************************************************************)
(* The CPU's interrupt logic, proved for every number of interrupts and    *)
(* every set of them that peripherals request.                             *)
(*                                                                         *)
(* The inductive invariant adds to the properties how the code encodes the *)
(* delay of EI (a mode between instructions, an early IME within one), and *)
(* what a dispatch has established at each of its points.                  *)
(***************************************************************************)
EXTENDS CpuMaster, TLAPS

\* A delay that runs is a mode between two instructions, and has become an
\* early IME within one.
Armed ==
  /\ master = "armed" => at = "exec" \/ (at \in {"check", "step"} /\ mode = "EI")
  /\ mode = "EI" /\ at \in {"check", "step"} => master # "off"
  /\ at = "exec" => mode = "NORMAL"

\* A dispatch starts with a pending request, and ends with IME clear.
Dispatching ==
  /\ at = "push_high" => Pending # {}
  /\ at = "push_low" => ~ime /\ mode = "NORMAL"
  /\ dest # None => at = "push_low"

IInv ==
  /\ MasterTypeOK
  /\ MasterIsEarned
  /\ NothingMissed
  /\ NullVectorOnlyByPush
  /\ Armed
  /\ Dispatching

USE IrqAssumption DEF IrqAssumption

-----------------------------------------------------------------------------

\* The first state satisfies the invariant.
LEMMA InitInv == MasterInit => IInv
<1> SUFFICES ASSUME MasterInit PROVE IInv
  OBVIOUS
<1>t. {VBLANK} \in SUBSET Irq /\ dest \in Irq \union {None, NullVector}
  BY DEF MasterInit, Init, Irq, VBLANK
<1>1. MasterTypeOK
  BY <1>t DEF MasterInit, Init, MasterTypeOK, TypeOK, Modes, Points, Stacks
<1>2. MasterIsEarned /\ Armed
  BY DEF MasterInit, Init, MasterIsEarned, Armed
<1>3. NothingMissed /\ NullVectorOnlyByPush /\ Dispatching
  BY DEF MasterInit, Init, NothingMissed, NullVectorOnlyByPush, Dispatching, None, NullVector
<1> QED BY <1>1, <1>2, <1>3 DEF IInv

\* What ticks leave of the requests: none is lost, and they are interrupts.
LEMMA TicksKeep ==
  ASSUME NEW before \in SUBSET Irq, Ticks(before)
  PROVE  flags' \in SUBSET Irq /\ before \subseteq flags'
BY DEF Ticks, Irq

\* What a write of a byte leaves of IE and IF.
LEMMA WriteKeeps ==
  ASSUME TypeOK, NEW place, NEW value \in SUBSET Irq, WriteByte(place, value)
  PROVE  /\ flags' \in SUBSET Irq /\ enable' \in SUBSET Irq
         /\ place # "IF" => flags \subseteq flags'
         /\ place # "IE" => enable' = enable
<1>1. CASE place = "IE" /\ enable' = value /\ Ticks(flags)
  BY <1>1, TicksKeep DEF TypeOK
<1>2. CASE place = "IF" /\ enable' = enable /\ Ticks(value)
  BY <1>2, TicksKeep DEF TypeOK
<1>3. CASE place = "ram" /\ enable' = enable /\ Ticks(flags)
  BY <1>3, TicksKeep DEF TypeOK
<1> QED BY <1>1, <1>2, <1>3 DEF WriteByte

\* An instruction that ends away from a dispatch: what is left to show is the
\* encoding of the delay.
LEMMA EndsKeeps ==
  ASSUME IInv, NEW m \in Modes, Ends(m),
         flags' \in SUBSET Irq, enable' \in SUBSET Irq,
         ime' \in BOOLEAN, master' \in {"off", "armed", "on"},
         ime' <=> master' = "on",
         master' = "armed" => mode' = "EI",
         mode' = "EI" => master' # "off"
  PROVE  IInv'
<1>1. at' = "check" /\ stack' = stack /\ dest' = dest /\ mode' \in Modes
      /\ at \in {"exec", "exec_bug"}
  BY DEF Ends, Modes
<1>2. MasterTypeOK'
  BY <1>1 DEF IInv, MasterTypeOK, TypeOK, Points
<1>3. MasterIsEarned' /\ NothingMissed'
  BY <1>1 DEF MasterIsEarned, NothingMissed
<1>4. NullVectorOnlyByPush'
  BY <1>1 DEF IInv, NullVectorOnlyByPush
<1>5. Armed'
  BY <1>1 DEF Armed
<1>6. Dispatching'
  BY <1>1 DEF IInv, Dispatching
<1> QED BY <1>2, <1>3, <1>4, <1>5, <1>6 DEF IInv

\* At an instruction, the invariant says what IME and the mode are.
LEMMA AtInstruction ==
  ASSUME IInv, at \in {"exec", "exec_bug"}
  PROVE  /\ at = "exec" => mode = "NORMAL" /\ (ime <=> master # "off")
         /\ at = "exec_bug" => master # "armed" /\ (ime <=> master = "on")
BY DEF IInv, MasterTypeOK, MasterIsEarned, Armed

-----------------------------------------------------------------------------

\* The fetch sets IME early, within the instruction that follows EI.
LEMMA FetchKeeps == ASSUME IInv, Fetch, master' = master PROVE IInv'
<1>1. flags' \in SUBSET Irq /\ flags \subseteq flags'
  BY TicksKeep DEF Fetch, IInv, MasterTypeOK, TypeOK
<1>2. MasterTypeOK'
  BY <1>1 DEF Fetch, IInv, MasterTypeOK, TypeOK, Points, Modes
<1>3. MasterIsEarned' /\ Armed'
  BY DEF Fetch, IInv, MasterTypeOK, MasterIsEarned, Armed
<1>4. NothingMissed'
  BY DEF Fetch, NothingMissed
<1>5. NullVectorOnlyByPush' /\ Dispatching'
  BY DEF Fetch, IInv, NullVectorOnlyByPush, Dispatching, None, NullVector
<1> QED BY <1>2, <1>3, <1>4, <1>5 DEF IInv

\* A CPU that waits goes on to the test for interrupts.
LEMMA IdleKeeps == ASSUME IInv, Idle, master' = master PROVE IInv'
<1>1. flags' \in SUBSET Irq
  BY TicksKeep DEF Idle, IInv, MasterTypeOK, TypeOK
<1>2. MasterTypeOK'
  BY <1>1 DEF Idle, IInv, MasterTypeOK, TypeOK, Points, Modes
<1>3. MasterIsEarned' /\ Armed'
  BY DEF Idle, IInv, MasterTypeOK, MasterIsEarned, Armed
<1>4. NothingMissed'
  BY DEF Idle, NothingMissed
<1>5. NullVectorOnlyByPush' /\ Dispatching'
  BY DEF Idle, IInv, NullVectorOnlyByPush, Dispatching, None, NullVector
<1> QED BY <1>2, <1>3, <1>4, <1>5 DEF IInv

\* EI starts the delay, unless the step function overwrites its mode.
LEMMA EiKeeps == ASSUME IInv, Ei, master' = AfterEi PROVE IInv'
<1>1. Ends("EI") /\ flags' = flags /\ enable' = enable /\ ime' = ime
  BY DEF Ei
<1>2. at \in {"exec", "exec_bug"} /\ mode' = (IF at = "exec_bug" THEN "NORMAL" ELSE "EI")
  BY <1>1 DEF Ends
<1>3. /\ master' \in {"off", "armed", "on"} /\ (ime' <=> master' = "on")
      /\ master' = "armed" => mode' = "EI"
      /\ mode' = "EI" => master' # "off"
  BY <1>1, <1>2, AtInstruction DEF AfterEi, IInv, MasterTypeOK
<1> QED BY <1>1, <1>3, EndsKeeps DEF IInv, MasterTypeOK, TypeOK, Modes

\* DI ends the delay too.
LEMMA DiKeeps == ASSUME IInv, Di, master' = "off" PROVE IInv'
<1>1. Ends(mode) /\ flags' = flags /\ enable' = enable /\ ime' = FALSE
  BY DEF Di
<1>2. mode' # "EI"
  BY <1>1, AtInstruction DEF Ends
<1> QED BY <1>1, <1>2, EndsKeeps DEF IInv, MasterTypeOK, TypeOK

\* RETI needs no delay.
LEMMA RetiKeeps == ASSUME IInv, Reti, master' = "on" PROVE IInv'
<1>1. Ends(mode) /\ enable' = enable /\ ime' = TRUE /\ flags' \in SUBSET Irq
  BY TicksKeep DEF Reti, IInv, MasterTypeOK, TypeOK
<1> QED BY <1>1, EndsKeeps DEF IInv, MasterTypeOK, TypeOK

\* Any other instruction completes the delay.
LEMMA OtherKeeps ==
  ASSUME IInv, Plain \/ WriteRegister \/ Halt \/ Stop \/ Illegal,
         master' = IF master = "armed" THEN "on" ELSE master
  PROVE  IInv'
<1>t. TypeOK
  BY DEF IInv, MasterTypeOK
<1>1. ime' = ime /\ flags' \in SUBSET Irq /\ enable' \in SUBSET Irq
  <2>1. CASE Plain \/ Stop
    BY <1>t, <2>1, TicksKeep DEF Plain, Stop, TypeOK
  <2>2. CASE WriteRegister
    BY <1>t, <2>2, WriteKeeps DEF WriteRegister
  <2>3. CASE Halt \/ Illegal
    BY <1>t, <2>3 DEF Halt, Illegal, TypeOK
  <2> QED BY <2>1, <2>2, <2>3
<1>2. PICK m \in Modes : Ends(m) /\ (at = "exec" => m # "EI")
  BY <1>t, AtInstruction
     DEF Plain, WriteRegister, Halt, Stop, Illegal, Ends, TypeOK, Modes
<1>3. at \in {"exec", "exec_bug"} /\ mode' # "EI"
  BY <1>2 DEF Ends
<1>4. master \in {"off", "armed", "on"}
  BY DEF IInv, MasterTypeOK
<1>5. master' \in {"off", "armed", "on"} /\ master' # "armed"
  BY <1>4
<1>6. ime' <=> master' = "on"
  BY <1>1, <1>3, <1>4, AtInstruction
<1>7. ime' \in BOOLEAN
  BY <1>1, <1>t DEF TypeOK
<1> QED BY <1>1, <1>2, <1>3, <1>5, <1>6, <1>7, EndsKeeps

\* The test at the end of a step lets no pending request pass.
LEMMA CheckKeeps == ASSUME IInv, Check, master' = master PROVE IInv'
<1>1. MasterTypeOK'
  BY DEF Check, IInv, MasterTypeOK, TypeOK, Points
<1>2. MasterIsEarned' /\ Armed'
  BY DEF Check, IInv, MasterTypeOK, MasterIsEarned, Armed
<1>3. NothingMissed' /\ Dispatching'
  BY DEF Check, IInv, NothingMissed, Dispatching, Pending
<1>4. dest' # NullVector /\ at' # "select"
  BY DEF Check, IInv, Dispatching, None, NullVector
<1>5. NullVectorOnlyByPush'
  BY <1>4 DEF NullVectorOnlyByPush
<1> QED BY <1>1, <1>2, <1>3, <1>5 DEF IInv

\* Only a push that lands in IE or IF can take the pending requests away.
LEMMA PushHighKeeps == ASSUME IInv, PushHigh, master' = master PROVE IInv'
<1> DEFINE place == CASE stack = "IE_high" -> "IE"
                      [] stack = "IF_high" -> "IF"
                      [] OTHER -> "ram"
<1>t. TypeOK
  BY DEF IInv, MasterTypeOK
<1>1. PICK value \in SUBSET Irq : WriteByte(place, value)
  BY DEF PushHigh
<1> HIDE DEF place
<1>2. /\ flags' \in SUBSET Irq /\ enable' \in SUBSET Irq
      /\ place # "IF" => flags \subseteq flags'
      /\ place # "IE" => enable' = enable
  BY <1>t, <1>1, WriteKeeps
<1>3. MasterTypeOK'
  BY <1>2 DEF PushHigh, IInv, MasterTypeOK, TypeOK, Points
<1>4. MasterIsEarned' /\ Armed'
  BY DEF PushHigh, IInv, MasterTypeOK, MasterIsEarned, Armed
<1>5. NothingMissed' /\ Dispatching'
  BY DEF PushHigh, IInv, NothingMissed, Dispatching
<1>6. stack \notin {"IE_high", "IF_high"} => Pending' # {}
  <2> SUFFICES ASSUME stack \notin {"IE_high", "IF_high"} PROVE Pending' # {}
    OBVIOUS
  <2>1. place = "ram"
    BY DEF place
  <2>2. PICK i \in Irq : i \in enable /\ i \in flags
    BY <1>t DEF PushHigh, IInv, Dispatching, Pending, TypeOK
  <2> QED BY <1>2, <2>1, <2>2 DEF Pending
<1>7. NullVectorOnlyByPush'
  BY <1>6 DEF PushHigh, IInv, NullVectorOnlyByPush
<1> QED BY <1>3, <1>4, <1>5, <1>7 DEF IInv

\* The choice of the handler.
LEMMA SelectKeeps == ASSUME IInv, Select, master' = "off" PROVE IInv'
<1>t. TypeOK
  BY DEF IInv, MasterTypeOK
<1>1. dest' \in Irq \union {NullVector}
  BY <1>t DEF Select, Pending, TypeOK
<1>2. MasterTypeOK'
  BY <1>t, <1>1 DEF Select, MasterTypeOK, TypeOK, Points, Modes
<1>3. MasterIsEarned' /\ Armed'
  BY DEF Select, MasterIsEarned, Armed
<1>4. NothingMissed' /\ Dispatching'
  BY DEF Select, NothingMissed, Dispatching
<1>5. dest' = NullVector => Pending = {}
  BY <1>t DEF Select, Pending, TypeOK, NullVector, Irq
<1>6. NullVectorOnlyByPush'
  BY <1>5 DEF Select, IInv, NullVectorOnlyByPush
<1> QED BY <1>2, <1>3, <1>4, <1>6 DEF IInv

\* The end of a dispatch.
LEMMA PushLowKeeps == ASSUME IInv, PushLow, master' = master PROVE IInv'
<1>t. TypeOK
  BY DEF IInv, MasterTypeOK
<1>1. flags' \in SUBSET Irq /\ enable' \in SUBSET Irq
  BY <1>t, WriteKeeps DEF PushLow
<1>2. MasterTypeOK'
  BY <1>1 DEF PushLow, IInv, MasterTypeOK, TypeOK, Points, Stacks
<1>3. MasterIsEarned' /\ Armed'
  BY DEF PushLow, IInv, MasterTypeOK, MasterIsEarned, Armed, Dispatching
<1>4. NothingMissed' /\ Dispatching'
  BY DEF PushLow, IInv, NothingMissed, Dispatching
<1>5. dest' # NullVector
  BY DEF PushLow, None, NullVector
<1>6. NullVectorOnlyByPush'
  BY <1>5 DEF PushLow, NullVectorOnlyByPush
<1> QED BY <1>2, <1>3, <1>4, <1>6 DEF IInv

\* A key press.
LEMMA PressKeeps == ASSUME IInv, Press, master' = master PROVE IInv'
<1>1. MasterTypeOK'
  BY DEF Press, IInv, MasterTypeOK, TypeOK
<1>2. MasterIsEarned' /\ Armed'
  BY DEF Press, IInv, MasterIsEarned, Armed
<1>3. NothingMissed'
  BY DEF Press, IInv, NothingMissed, Pending
<1>4. NullVectorOnlyByPush' /\ Dispatching'
  BY DEF Press, IInv, NullVectorOnlyByPush, Dispatching
<1> QED BY <1>1, <1>2, <1>3, <1>4 DEF IInv

\* A reset forgets a delay that runs.
LEMMA ResetKeeps ==
  ASSUME IInv, Reset, master' = IF master = "armed" THEN "off" ELSE master
  PROVE  IInv'
<1>1. MasterTypeOK'
  BY DEF Reset, IInv, MasterTypeOK, TypeOK, Irq, VBLANK, Modes
<1>2. MasterIsEarned' /\ Armed'
  BY DEF Reset, IInv, MasterTypeOK, MasterIsEarned, Armed
<1>3. NothingMissed'
  BY DEF Reset, NothingMissed, Pending
<1>4. NullVectorOnlyByPush' /\ Dispatching'
  BY DEF Reset, IInv, NullVectorOnlyByPush, Dispatching
<1> QED BY <1>1, <1>2, <1>3, <1>4 DEF IInv

-----------------------------------------------------------------------------

\* Every step keeps the invariant.
LEMMA StepInv == IInv /\ [MasterNext]_masterVars => IInv'
<1> SUFFICES ASSUME IInv, [MasterNext]_masterVars PROVE IInv'
  OBVIOUS
<1>1. CASE Ei /\ master' = AfterEi
  BY <1>1, EiKeeps
<1>2. CASE (Di \/ Select) /\ master' = "off"
  BY <1>2, DiKeeps, SelectKeeps
<1>3. CASE Reti /\ master' = "on"
  BY <1>3, RetiKeeps
<1>4. CASE /\ Plain \/ WriteRegister \/ Halt \/ Stop \/ Illegal
           /\ master' = IF master = "armed" THEN "on" ELSE master
  BY <1>4, OtherKeeps
<1>5. CASE Reset /\ master' = IF master = "armed" THEN "off" ELSE master
  BY <1>5, ResetKeeps
<1>6. CASE (Fetch \/ Idle \/ Check \/ PushHigh \/ PushLow \/ Press) /\ UNCHANGED master
  BY <1>6, FetchKeeps, IdleKeeps, CheckKeeps, PushHighKeeps, PushLowKeeps, PressKeeps
<1>7. CASE UNCHANGED masterVars
  BY <1>7 DEF masterVars, vars, IInv, MasterTypeOK, TypeOK, MasterIsEarned, NothingMissed,
              NullVectorOnlyByPush, Armed, Dispatching, Pending
<1> QED BY <1>1, <1>2, <1>3, <1>4, <1>5, <1>6, <1>7 DEF MasterNext

\* The types of fgb_cpu's interrupt state, whatever is written to IE and IF.
THEOREM CpuTypeCorrect == MasterSpec => []MasterTypeOK
<1>1. IInv => MasterTypeOK
  BY DEF IInv
<1> QED BY <1>1, InitInv, StepInv, PTL DEF MasterSpec

\* The mode of fgb_cpu_step and its early IME implement the delay of EI: the
\* CPU accepts interrupts exactly when the instructions so far allow it.
THEOREM EiIsDelayed == MasterSpec => []MasterIsEarned
<1>1. IInv => MasterIsEarned
  BY DEF IInv
<1> QED BY <1>1, InitInv, StepInv, PTL DEF MasterSpec

\* The one test at the end of fgb_cpu_step is enough: no enabled request but
\* a key press waits at an instruction boundary.
THEOREM StepMissesNothing == MasterSpec => []NothingMissed
<1>1. IInv => NothingMissed
  BY DEF IInv
<1> QED BY <1>1, InitInv, StepInv, PTL DEF MasterSpec

\* fgb_cpu_handle_interrupts enters a handler, unless its own push of PC has
\* overwritten IE or IF.
THEOREM DispatchFindsHandler == MasterSpec => []NullVectorOnlyByPush
<1>1. IInv => NullVectorOnlyByPush
  BY DEF IInv
<1> QED BY <1>1, InitInv, StepInv, PTL DEF MasterSpec

\* No step takes a request away but the entry of its own handler, a write to
\* IF and a reset.
THEOREM CpuKeepsRequests == MasterSpec => RequestsKept
<1> DEFINE Keeps ==
      \A i \in flags \ flags' :
        \/ Select /\ dest' = i
        \/ WriteRegister
        \/ PushHigh /\ stack = "IF_high"
        \/ PushLow /\ stack = "IF_low"
        \/ Reset
<1>1. IInv /\ [MasterNext]_masterVars => [Keeps]_masterVars
  <2> SUFFICES ASSUME IInv, MasterNext PROVE Keeps
    OBVIOUS
  <2>t. TypeOK
    BY DEF IInv, MasterTypeOK
  <2>1. CASE Select
    BY <2>1 DEF Select
  <2>2. CASE WriteRegister \/ Reset
    BY <2>2
  <2>3. CASE Ei \/ Di \/ Halt \/ Illegal \/ Check
    BY <2>3 DEF Ei, Di, Halt, Illegal, Check
  <2>4. CASE Fetch \/ Idle \/ Plain \/ Stop \/ Reti
    BY <2>t, <2>4, TicksKeep DEF Fetch, Idle, Plain, Stop, Reti, TypeOK
  <2>5. CASE PushHigh
    <3>1. stack # "IF_high" => flags \subseteq flags'
      BY <2>t, <2>5, WriteKeeps DEF PushHigh
    <3> QED BY <2>5, <3>1
  <2>6. CASE PushLow
    <3>1. stack # "IF_low" => flags \subseteq flags'
      BY <2>t, <2>6, WriteKeeps DEF PushLow
    <3> QED BY <2>6, <3>1
  <2>7. CASE Press
    BY <2>7 DEF Press
  <2> QED BY <2>1, <2>2, <2>3, <2>4, <2>5, <2>6, <2>7 DEF MasterNext
<1> QED BY <1>1, InitInv, StepInv, PTL DEF MasterSpec, RequestsKept

=============================================================================
