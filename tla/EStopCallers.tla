---------------------------- MODULE EStopCallers ----------------------------
(***************************************************************************)
(* Any number of threads calling the emergency stop at the same time.  In  *)
(* the program the main loop triggers and resets (estop and estop_reset    *)
(* commands, severe slope) and the watchdog thread triggers; the module is *)
(* about any set of callers.                                               *)
(***************************************************************************)
EXTENDS EStop, Naturals

CONSTANTS Threads,         \* threads that may call trigger()
          Resetters,       \* those that may also call reset()
          NoThread         \* a value that is no thread: reason / detail unset

ASSUME ResettersAssumption == Resetters \subseteq Threads
ASSUME NoThreadAssumption == NoThread \notin Threads

VARIABLES pc,              \* where each thread is in its call
          reason,          \* EStop._reason, named by the thread that gave it
          detail,          \* FaultRecord.detail of the active ESTOP_TRIGGERED
          overlapped       \* history: a trigger and a reset have overlapped

vars == <<records, triggered, pc, reason, detail, overlapped>>

Labels == {"idle", "report", "clear"}

TypeOK ==
  /\ FaultTypeOK
  /\ LatchTypeOK
  /\ pc \in [Threads -> Labels]
  /\ \A t \in Threads : pc[t] = "clear" => t \in Resetters
  /\ reason \in Threads \cup {NoThread}
  /\ detail \in Threads \cup {NoThread}
  /\ overlapped \in BOOLEAN

Init ==
  /\ FaultInit
  /\ LatchInit
  /\ pc = [t \in Threads |-> "idle"]
  /\ reason = NoThread
  /\ detail = NoThread
  /\ overlapped = FALSE

InCall(label) == \E t \in Threads : pc[t] = label

GoTo(t, label) == pc' = [pc EXCEPT ![t] = label]

\* Mutant of Trigger: trigger() without its early return, every caller sets the reason.
TriggerWithoutEarlyReturn(t) ==
  /\ pc[t] = "idle"
  /\ triggered' = TRUE
  /\ reason' = t
  /\ GoTo(t, "report")
  /\ overlapped' = (overlapped \/ InCall("clear"))
  /\ UNCHANGED <<records, detail>>

\* trigger(): returns at once when the latch is set, else sets flag and reason.
Trigger(t) ==
  /\ pc[t] = "idle"
  /\ SetLatch
  /\ reason' = t
  /\ GoTo(t, "report")
  /\ overlapped' = (overlapped \/ InCall("clear"))
  /\ UNCHANGED <<records, detail>>

\* trigger(), after the lock: the report is a no-op if the fault is active.
Report(t) ==
  /\ pc[t] = "report"
  /\ ReportLatchFault
  /\ detail' = IF LatchFaultActive THEN detail ELSE t
  /\ GoTo(t, "idle")
  /\ UNCHANGED <<triggered, reason, overlapped>>

\* reset(): a no-op when the latch is clear.
Reset(t) ==
  /\ t \in Resetters
  /\ pc[t] = "idle"
  /\ UnsetLatch
  /\ reason' = NoThread
  /\ GoTo(t, "clear")
  /\ overlapped' = (overlapped \/ InCall("report"))
  /\ UNCHANGED <<records, detail>>

\* reset(), after the lock.
Clear(t) ==
  /\ pc[t] = "clear"
  /\ ClearLatchFault
  /\ detail' = NoThread
  /\ GoTo(t, "idle")
  /\ UNCHANGED <<triggered, reason, overlapped>>

Next == \E t \in Threads : Trigger(t) \/ Report(t) \/ Reset(t) \/ Clear(t)

\* A thread that has started a call finishes it: both calls are straight-line
\* code.  Nobody is obliged to start one.
Fairness == \A t \in Threads : WF_vars(Report(t)) /\ WF_vars(Clear(t))

Spec == Init /\ [][Next]_vars /\ Fairness

-----------------------------------------------------------------------------
\* No call is in flight.
Settled == \A t \in Threads : pc[t] = "idle"

(***************************************************************************)
(* The latch and the fault registry agree whenever no call is in flight,   *)
(* unless a trigger and a reset have overlapped: estop.py releases its     *)
(* lock before it calls the fault manager, and that window is the only way *)
(* to set one without the other.  With agreement comes the same origin:    *)
(* the detail of the fault names the thread that holds the latch.          *)
(***************************************************************************)
DisagreementNeedsOverlap ==
  ~overlapped /\ Settled =>
    /\ triggered <=> LatchFaultActive
    /\ triggered => detail = reason

(***************************************************************************)
(* estop.py's class documentation: once triggered, the system is halted    *)
(* and locked until reset() is called.  The lock is the FATAL fault, the   *)
(* only thing is_safe_to_operate() looks at.                               *)
(***************************************************************************)
LockedWhileTriggered ==
  triggered /\ Settled => ~IsSafeToOperate
=============================================================================
