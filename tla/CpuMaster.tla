----------------------------- MODULE CpuMaster -----------------------------
(***************************************************************************)
(* The CPU with a record of what its instructions say about interrupts.    *)
(*                                                                         *)
(* `master' is a history variable: the master enable as the sequence of    *)
(* completed instructions and dispatches determines it, with the delay of  *)
(* EI as a state of its own ("armed": one more instruction must complete). *)
(* It never looks at ime or mode, so MasterIsEarned compares the code's    *)
(* encoding of the delay (a mode, and IME set early) with the rule.  One   *)
(* thing the rule takes from the code: an EI that runs in HALT_BUG mode is *)
(* forgotten, because the step function overwrites the mode.               *)
(***************************************************************************)
EXTENDS Cpu

VARIABLE master

masterVars == <<vars, master>>

MasterTypeOK == TypeOK /\ master \in {"off", "armed", "on"}

MasterInit == Init /\ master = "off"

AfterEi ==
  IF at = "exec_bug" THEN master
  ELSE IF master = "off" THEN "armed" ELSE "on"

MasterNext ==
  \/ Ei /\ master' = AfterEi
  \/ (Di \/ Select) /\ master' = "off"
  \/ Reti /\ master' = "on"
  \/ /\ Plain \/ WriteRegister \/ Halt \/ Stop \/ Illegal
     /\ master' = IF master = "armed" THEN "on" ELSE master
  \/ Reset /\ master' = IF master = "armed" THEN "off" ELSE master
  \/ (Fetch \/ Idle \/ Check \/ PushHigh \/ PushLow \/ Press) /\ UNCHANGED master

MasterSpec ==
  MasterInit /\ [][MasterNext]_masterVars /\ WF_masterVars(Run /\ MasterNext)

-----------------------------------------------------------------------------

\* Interrupts are accepted only when the instructions executed so far allow
\* it: not between an EI and the end of the instruction after it (so EI; DI
\* accepts none, and EI; EI does not postpone it for ever), and not between
\* a dispatch and the next RETI or EI, halted or not.
MasterIsEarned ==
  /\ ime <=> master = "on" \/ (master = "armed" /\ at = "exec")
  /\ at \in {"push_high", "select"} => master = "on"

\* At an instruction boundary with IME set, no enabled interrupt waits, except
\* a key pressed since the last instruction: a request made by any tick of an
\* instruction, a fetch, a wait or a dispatch is seen at the end of that step.
NothingMissed == at = "step" /\ ime => Pending \subseteq {JOYPAD}

\* PC goes to 0000 instead of to a handler only when the push of PC's high
\* byte overwrote IE or IF: otherwise the request that started the dispatch
\* is still there when the handler is chosen.
NullVectorOnlyByPush ==
  /\ dest = NullVector => stack \in {"IE_high", "IF_high"}
  /\ at = "select" /\ Pending = {} => stack \in {"IE_high", "IF_high"}

\* A request is never lost: it leaves IF when its own handler is entered, when
\* software or a push of PC overwrites IF, or on a reset.
RequestsKept ==
  [][ \A i \in flags \ flags' :
        \/ Select /\ dest' = i
        \/ WriteRegister
        \/ PushHigh /\ stack = "IF_high"
        \/ PushLow /\ stack = "IF_low"
        \/ Reset ]_masterVars

\* A CPU that a HALT or a STOP put to sleep wakes once an enabled interrupt
\* is requested: with IME set the handler runs, and with IME off a HALT goes
\* on.  A STOP does not, and HALT mode with IME off is an illegal opcode.
HaltWakes ==
  (Pending # {} /\ (mode = "HALT_DI" \/ (mode \in {"HALT", "STOP"} /\ ime))) ~> mode = "NORMAL"

=============================================================================
