---------------------------- MODULE FaultManager ----------------------------
(***************************************************************************)
(* The fault registry of safety/fault_manager.py: one record per fault     *)
(* code, guarded by one lock, so that each method is one atomic operation. *)
(*                                                                         *)
(* The registry is a function from codes to records.  A code that was      *)
(* never reported and a code whose record is inactive are the same value,  *)
(* NoFault: report_fault replaces an inactive record, acknowledge_fault    *)
(* would refuse it and every query skips it.  FaultRecord.detail and timestamp  *)
(* are not kept here; EStopCallers keeps the detail of the one code whose  *)
(* detail is compared with other state.                                    *)
(***************************************************************************)

CONSTANT FaultCodes        \* the members of core.constants.FaultCode in use

VARIABLE records           \* FaultManager._records

Severities == {"WARNING", "CRITICAL", "FATAL"}

NoFault == [active |-> FALSE, severity |-> "WARNING", acknowledged |-> FALSE]

FaultRecord ==
  [active : {TRUE}, severity : Severities, acknowledged : BOOLEAN] \cup {NoFault}

FaultTypeOK == records \in [FaultCodes -> FaultRecord]

FaultInit == records = [c \in FaultCodes |-> NoFault]

Active(c) == records[c].active

\* Mutant of Blocks: is_safe_to_operate looks at unacknowledged CRITICAL records
\* only.
BlocksIgnoringFatal(r) ==
  r.active /\ r.severity = "CRITICAL" /\ ~r.acknowledged

\* One record stops autonomous operation: FATAL always, CRITICAL until it is
\* acknowledged.
Blocks(r) ==
  /\ r.active
  /\ \/ r.severity = "FATAL"
     \/ r.severity = "CRITICAL" /\ ~r.acknowledged

IsSafeToOperate == \A c \in FaultCodes : ~Blocks(records[c])

\* report_fault: an active record is returned as it is, whatever the severity
\* of the new report; otherwise a new unacknowledged record replaces it.
ReportFault(c, severity) ==
  records' = IF Active(c)
             THEN records
             ELSE [records EXCEPT ![c] = [active |-> TRUE, severity |-> severity,
                                          acknowledged |-> FALSE]]

\* Mutant of ClearFault: the record is deleted, and the registry is no longer
\* total.
DeleteRecord(c) == records' = [x \in FaultCodes \ {c} |-> records[x]]

ClearFault(c) == records' = [records EXCEPT ![c] = NoFault]
=============================================================================
