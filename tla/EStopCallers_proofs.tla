------------------------ MODULE EStopCallers_proofs ------------------------
(***************************************************************************)
(* Proofs about EStopCallers, for any set of threads, any set of resetters *)
(* among them and any set of fault codes.                                  *)
(***************************************************************************)
EXTENDS EStopCallers, TLAPS

(***************************************************************************)
(* The inductive invariant behind DisagreementNeedsOverlap.  While no      *)
(* trigger and reset have overlapped, a thread between its flag and its    *)
(* report is alone: the latch is set in its name and the fault is not yet  *)
(* active; and a thread between its reset and its clear finds the latch    *)
(* clear.  Agreement at rest alone is not inductive: it says nothing of    *)
(* the states from which the last call returns.                            *)
(***************************************************************************)
ReporterOwnsLatch ==
  \A t \in Threads : pc[t] = "report" =>
    triggered /\ reason = t /\ ~LatchFaultActive

ClearerFoundLatchClear ==
  \A t \in Threads : pc[t] = "clear" => ~triggered

AgreeAtRest ==
  Settled => /\ triggered <=> LatchFaultActive
             /\ triggered => detail = reason

IInv ==
  /\ TypeOK
  /\ ~overlapped => ReporterOwnsLatch /\ ClearerFoundLatchClear /\ AgreeAtRest

-----------------------------------------------------------------------------
(***************************************************************************)
(* What report_fault does to a registry of the right type: it leaves one,  *)
(* in which the reported code is active.                                   *)
(***************************************************************************)
LEMMA ReportKeepsType ==
  ASSUME NEW c \in FaultCodes, NEW s \in Severities,
         FaultTypeOK, ReportFault(c, s)
  PROVE  FaultTypeOK' /\ Active(c)'
BY DEF FaultTypeOK, ReportFault, Active, FaultRecord, NoFault

(***************************************************************************)
(* What clear_fault does: the cleared code is inactive afterwards.         *)
(***************************************************************************)
LEMMA ClearKeepsType ==
  ASSUME NEW c \in FaultCodes, FaultTypeOK, ClearFault(c)
  PROVE  FaultTypeOK' /\ ~Active(c)'
BY DEF FaultTypeOK, ClearFault, Active, FaultRecord, NoFault

(***************************************************************************)
(* The invariant holds when no call has begun.                             *)
(***************************************************************************)
LEMMA InitIInv == Init => IInv
<1> SUFFICES ASSUME Init PROVE IInv
  OBVIOUS
<1>1. FaultTypeOK
  BY DEF Init, FaultInit, FaultTypeOK, FaultRecord
<1>2. ~LatchFaultActive
  BY EStopCodeAssumption DEF Init, FaultInit, LatchFaultActive, Active, NoFault
<1>3. TypeOK
  BY <1>1 DEF Init, TypeOK, LatchInit, LatchTypeOK, Labels
<1>4. ReporterOwnsLatch /\ ClearerFoundLatchClear /\ AgreeAtRest
  BY <1>2 DEF Init, LatchInit, ReporterOwnsLatch, ClearerFoundLatchClear,
              AgreeAtRest
<1> QED
  BY <1>3, <1>4 DEF IInv

(***************************************************************************)
(* Every step of a call keeps the inductive invariant.                     *)
(***************************************************************************)
LEMMA NextIInv == IInv /\ [Next]_vars => IInv'
<1> SUFFICES ASSUME IInv, [Next]_vars PROVE IInv'
  OBVIOUS
<1> USE EStopCodeAssumption, ResettersAssumption, NoThreadAssumption
<1>1. ASSUME NEW t \in Threads, Trigger(t) PROVE IInv'
  <2>1. TypeOK'
    BY <1>1 DEF IInv, TypeOK, Trigger, SetLatch, GoTo, Labels, FaultTypeOK,
                LatchTypeOK, InCall
  <2>2. ASSUME ~overlapped' 
        PROVE  ReporterOwnsLatch' /\ ClearerFoundLatchClear' /\ AgreeAtRest'
    <3>1. ~overlapped /\ ~InCall("clear")
      BY <1>1, <2>2 DEF Trigger
    <3>2. Settled
      BY <1>1, <3>1 DEF IInv, TypeOK, Labels, ReporterOwnsLatch, Trigger,
                        SetLatch, InCall, Settled
    <3>3. ~LatchFaultActive
      BY <1>1, <3>1, <3>2 DEF IInv, AgreeAtRest, Trigger, SetLatch
    <3>4. ~LatchFaultActive'
      BY <1>1, <3>3 DEF Trigger, LatchFaultActive, Active
    <3> QED
      BY <1>1, <3>2, <3>4 DEF IInv, TypeOK, Trigger, SetLatch, GoTo, Settled,
           ReporterOwnsLatch, ClearerFoundLatchClear, AgreeAtRest
  <2> QED
    BY <2>1, <2>2 DEF IInv
<1>2. ASSUME NEW t \in Threads, Report(t) PROVE IInv'
  <2>1. FaultTypeOK' /\ LatchFaultActive'
    BY <1>2, ReportKeepsType DEF IInv, TypeOK, Report, ReportLatchFault,
                                 Severities, LatchFaultActive
  <2>2. TypeOK'
    BY <1>2, <2>1 DEF IInv, TypeOK, Report, GoTo, Labels, LatchTypeOK
  <2>3. ASSUME ~overlapped'
        PROVE  ReporterOwnsLatch' /\ ClearerFoundLatchClear' /\ AgreeAtRest'
    <3>1. /\ triggered /\ reason = t /\ ~LatchFaultActive
          /\ \A u \in Threads \ {t} : pc[u] = "idle"
      BY <1>2, <2>3 DEF IInv, TypeOK, Labels, Report, ReporterOwnsLatch,
                        ClearerFoundLatchClear
    <3>2. triggered' /\ reason' = t /\ detail' = t
      BY <1>2, <3>1 DEF Report
    <3>3. \A u \in Threads : pc'[u] = "idle"
      BY <1>2, <3>1 DEF IInv, TypeOK, Report, GoTo
    <3> QED
      BY <2>1, <3>2, <3>3 DEF Settled, ReporterOwnsLatch,
                              ClearerFoundLatchClear, AgreeAtRest
  <2> QED
    BY <2>2, <2>3 DEF IInv
<1>3. ASSUME NEW t \in Threads, Reset(t) PROVE IInv'
  <2>1. TypeOK'
    BY <1>3 DEF IInv, TypeOK, Reset, UnsetLatch, GoTo, Labels, FaultTypeOK,
                LatchTypeOK, InCall
  <2>2. ASSUME ~overlapped'
        PROVE  ReporterOwnsLatch' /\ ClearerFoundLatchClear' /\ AgreeAtRest'
    <3>1. ~overlapped /\ ~InCall("report")
      BY <1>3, <2>2 DEF Reset
    <3>2. ~triggered' /\ pc'[t] = "clear"
      BY <1>3 DEF IInv, TypeOK, Reset, UnsetLatch, GoTo
    <3>3. \A u \in Threads : pc'[u] # "report"
      BY <1>3, <3>1 DEF IInv, TypeOK, Reset, GoTo, InCall
    <3> QED
      BY <3>2, <3>3 DEF Settled, ReporterOwnsLatch, ClearerFoundLatchClear,
                        AgreeAtRest
  <2> QED
    BY <2>1, <2>2 DEF IInv
<1>4. ASSUME NEW t \in Threads, Clear(t) PROVE IInv'
  <2>1. FaultTypeOK' /\ ~LatchFaultActive'
    BY <1>4, ClearKeepsType DEF IInv, TypeOK, Clear, ClearLatchFault,
                                LatchFaultActive
  <2>2. TypeOK'
    BY <1>4, <2>1 DEF IInv, TypeOK, Clear, GoTo, Labels, LatchTypeOK
  <2>3. ASSUME ~overlapped'
        PROVE  ReporterOwnsLatch' /\ ClearerFoundLatchClear' /\ AgreeAtRest'
    <3>1. ~triggered /\ \A u \in Threads : pc[u] # "report"
      BY <1>4, <2>3 DEF IInv, Clear, ReporterOwnsLatch, ClearerFoundLatchClear
    <3>2. ~triggered' /\ \A u \in Threads : pc'[u] # "report"
      BY <1>4, <3>1 DEF IInv, TypeOK, Clear, GoTo
    <3> QED
      BY <2>1, <3>2 DEF Settled, ReporterOwnsLatch, ClearerFoundLatchClear,
                        AgreeAtRest
  <2> QED
    BY <2>2, <2>3 DEF IInv
<1>5. CASE UNCHANGED vars
  BY <1>5 DEF vars, IInv, TypeOK, FaultTypeOK, LatchTypeOK, ReporterOwnsLatch,
              ClearerFoundLatchClear, AgreeAtRest, Settled, LatchFaultActive,
              Active
<1> QED
  BY <1>1, <1>2, <1>3, <1>4, <1>5 DEF Next

(***************************************************************************)
(* Every reachable state of any number of callers of EStop.trigger() and   *)
(* EStop.reset() satisfies the inductive invariant.                        *)
(***************************************************************************)
THEOREM InductiveInvariant == Spec => []IInv
BY InitIInv, NextIInv, PTL DEF Spec

(***************************************************************************)
(* Every reachable state of any number of e-stop callers is well typed.    *)
(***************************************************************************)
THEOREM TypeCorrect == Spec => []TypeOK
<1>1. IInv => TypeOK
  BY DEF IInv
<1> QED
  BY <1>1, InductiveInvariant, PTL

(***************************************************************************)
(* The latch and the fault registry disagree at rest only after a trigger  *)
(* and a reset have overlapped, for any number of threads.                 *)
(***************************************************************************)
THEOREM DisagreementTheorem == Spec => []DisagreementNeedsOverlap
<1>1. IInv => DisagreementNeedsOverlap
  BY DEF IInv, DisagreementNeedsOverlap, AgreeAtRest
<1> QED
  BY <1>1, InductiveInvariant, PTL
=============================================================================
