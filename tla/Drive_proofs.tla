---------------------------- MODULE Drive_proofs ----------------------------
(***************************************************************************)
(* Proofs about what moves the mower: ManualControl, for any number of     *)
(* commands, ShiftController, for any number of gears, PicoLink, for any   *)
(* number of lines on the wire and of starts, and TeachMode, for any       *)
(* number of waypoints.                                                    *)
(***************************************************************************)
EXTENDS ManualControl, ShiftController, PicoLink, TeachMode, SequenceTheorems, TLAPS
-----------------------------------------------------------------------------
(***************************************************************************)
(* Manual control.  A moving drive without a deadline is what a crossing   *)
(* leaves; so the invariant also says that the drive stands when the       *)
(* watchdog has stopped it and has yet to clear the time, and that a       *)
(* handler that is about to drive has stamped the time, unless the         *)
(* watchdog has cleared it since.                                          *)
(***************************************************************************)
StoppedBeforeClear == watchAt = "clear" => ~moving \/ manualHistory # {}

ManualInv == ManualTypeOK /\ MovingHasDeadline /\ StoppedBeforeClear

\* Every step keeps the type of the manual control.
LEMMA ManualTypeKept ==
  ASSUME ManualTypeOK, [ManualNext]_manualVars
  PROVE  ManualTypeOK'
<1>. USE ManualAssumption DEF ManualTypeOK
<1>1. CASE HandleChecks
  <2>1. commands' \in 0..MaxCommands
    BY <1>1 DEF HandleChecks
  <2>. QED BY <1>1, <2>1 DEF HandleChecks
<1>2. CASE HandleStamps
  BY <1>2 DEF HandleStamps, Crossing
<1>3. CASE HandleDrives
  BY <1>3 DEF HandleDrives, Crossing
<1>4. CASE ManualStart \/ ManualModeChanges
  BY <1>4 DEF ManualStart, ManualModeChanges
<1>5. CASE ManualStop
  <2>1. commands' \in 0..MaxCommands
    BY <1>5 DEF ManualStop
  <2>. QED BY <1>5, <2>1 DEF ManualStop
<1>6. CASE CommandTimesOut
  BY <1>6 DEF CommandTimesOut
<1>7. CASE WatchdogStep
  BY <1>7 DEF WatchdogStep, WatchdogLooks, WatchdogStops, WatchdogClears
<1>8. CASE UNCHANGED manualVars
  BY <1>8 DEF manualVars
<1>. QED BY <1>1, <1>2, <1>3, <1>4, <1>5, <1>6, <1>7, <1>8 DEF ManualNext, HandleStep

\* Every step keeps the deadline of a moving drive and the stop before the clear.
LEMMA ManualKeeps ==
  ASSUME ManualInv, [ManualNext]_manualVars
  PROVE  MovingHasDeadline' /\ StoppedBeforeClear'
<1>. USE DEF ManualInv, ManualTypeOK, MovingHasDeadline, StoppedBeforeClear
<1>1. CASE HandleStamps
  BY <1>1 DEF HandleStamps, Crossing
<1>2. CASE HandleDrives
  <2>1. CASE watchAt # "look" \/ lastCommand = "none"
    BY <1>2, <2>1 DEF HandleDrives, Crossing
  <2>2. CASE watchAt = "look" /\ lastCommand # "none"
    BY <1>2, <2>2 DEF HandleDrives, Crossing
  <2>. QED BY <2>1, <2>2
<1>3. CASE ManualStart \/ ManualStop \/ ManualModeChanges \/ HandleChecks \/ CommandTimesOut
  BY <1>3 DEF ManualStart, ManualStop, ManualModeChanges, HandleChecks, CommandTimesOut
<1>4. CASE WatchdogLooks
  BY <1>4 DEF WatchdogLooks
<1>5. CASE WatchdogStops
  BY <1>5 DEF WatchdogStops
<1>6. CASE WatchdogClears
  BY <1>6 DEF WatchdogClears
<1>7. CASE UNCHANGED manualVars
  BY <1>7 DEF manualVars
<1>. QED BY <1>1, <1>2, <1>3, <1>4, <1>5, <1>6, <1>7 DEF ManualNext, HandleStep, WatchdogStep

(***************************************************************************)
(* The inductive invariant holds, for any number of commands.              *)
(***************************************************************************)
THEOREM ManualInvariant == ManualSpec => []ManualInv
<1>1. ManualInit => ManualInv
  <2>1. 0 \in 0..MaxCommands
    BY ManualAssumption
  <2>. QED BY <2>1 DEF ManualInit, ManualInv, ManualTypeOK, MovingHasDeadline,
           StoppedBeforeClear
<1>2. ManualInv /\ [ManualNext]_manualVars => ManualInv'
  BY ManualTypeKept, ManualKeeps DEF ManualInv
<1>. QED BY <1>1, <1>2, PTL DEF ManualSpec

(***************************************************************************)
(* However commands, time-outs and changes of mode interleave, a drive     *)
(* that moves has a deadline, or a command crossed the watchdog or the     *)
(* drive's stop raised (manual_control.py, handle and _watchdog_loop).     *)
(***************************************************************************)
THEOREM DeadlineTheorem == ManualSpec => []MovingHasDeadline
<1>1. ManualInv => MovingHasDeadline
  BY DEF ManualInv
<1>. QED BY <1>1, ManualInvariant, PTL

-----------------------------------------------------------------------------
(***************************************************************************)
(* Shifting.  Between two shifts that go well the lever is where the gear  *)
(* says until CMD_SHIFT arrives, and one gear further afterwards.          *)
(***************************************************************************)
OnTheWay == shiftAt \notin {"idle", "recover"} => targetGear # gear

ShiftInv ==
  /\ ShiftTypeOK /\ OnTheWay
  /\ shiftAt = "recover" => lastShift = "failed"
  /\ shiftAt \in {"moved", "restore"} => lever = NextGear
  /\ lastShift = "ok" /\ shiftAt \in {"idle", "cut", "clutch", "lever"} => lever = gear

(***************************************************************************)
(* The next gear is a neighbour of the recorded one, on the target's side. *)
(***************************************************************************)
LEMMA NextGearFacts ==
  ASSUME ShiftTypeOK, targetGear # gear
  PROVE  NextGear \in Gears /\ NextGear \in {gear - 1, gear, gear + 1}
BY GearAssumption DEF ShiftTypeOK, Gears, NextGear

(***************************************************************************)
(* The steps of the driver and of the other threads.                       *)
(***************************************************************************)
LEMMA OthersKeepShift ==
  ASSUME ShiftInv,
         \/ Enable \/ BrakeOff \/ UNCHANGED shiftVars
         \/ \E still \in BOOLEAN : BrakeOn(still)
         \/ \E on \in BOOLEAN : DriverThrottle(on)
  PROVE  ShiftInv'
<1>1. /\ UNCHANGED <<gear, targetGear, lever, shiftAt, preThrottle, clutchOut, lastShift>>
      /\ throttleOn' \in BOOLEAN /\ braking' \in BOOLEAN
  BY DEF ShiftInv, ShiftTypeOK, Enable, BrakeOff, BrakeOn, DriverThrottle, shiftVars
<1>2. enabled' \in BOOLEAN
  <2>1. ASSUME NEW still \in BOOLEAN, BrakeOn(still) PROVE enabled' \in BOOLEAN
    BY <2>1 DEF BrakeOn
  <2>. QED BY <2>1 DEF ShiftInv, ShiftTypeOK, Enable, BrakeOff, DriverThrottle, shiftVars
<1>. QED BY <1>1, <1>2 DEF ShiftInv, ShiftTypeOK, OnTheWay, NextGear

(***************************************************************************)
(* The steps of a shift.                                                   *)
(***************************************************************************)
LEMMA ShiftKeeps ==
  ASSUME ShiftInv, [ShiftNext]_shiftVars
  PROVE  ShiftInv'
<1>. USE DEF ShiftInv, ShiftTypeOK, OnTheWay
<1>1. ASSUME NEW t \in Gears, ShiftTo(t) PROVE ShiftInv'
  BY <1>1 DEF ShiftTo, NextGear
<1>2. CASE SingleShift
  BY <1>2 DEF SingleShift, NextGear
<1>3. CASE CutThrottle
  BY <1>3 DEF CutThrottle, NextGear
<1>4. CASE SetClutch("clutch", TRUE, "lever")
  BY <1>4 DEF SetClutch, NextGear
<1>5. CASE SetClutch("moved", FALSE, "restore")
  BY <1>5 DEF SetClutch, NextGear
<1>6. CASE SetClutch("notMoved", FALSE, "restoreLost")
  BY <1>6 DEF SetClutch, NextGear
<1>7. CASE MoveLever
  <2>1. NextGear \in Gears /\ NextGear' = NextGear
    BY <1>7, NextGearFacts DEF MoveLever, NextGear
  <2>. QED BY <1>7, <2>1 DEF MoveLever
<1>8. CASE RestoreThrottle
  <2>1. NextGear \in Gears
    BY <1>8, NextGearFacts DEF RestoreThrottle
  <2>. QED BY <1>8, <2>1 DEF RestoreThrottle
<1>9. CASE ShiftRaises
  BY <1>9 DEF ShiftRaises
<1>10. CASE Recover
  BY <1>10 DEF Recover
<1>. QED BY <1>1, <1>2, <1>3, <1>4, <1>5, <1>6, <1>7, <1>8, <1>9, <1>10, OthersKeepShift
         DEF ShiftNext

\* The inductive invariant holds, for any number of gears.
THEOREM ShiftInvariant == ShiftSpec => []ShiftInv
<1>1. ShiftInit => ShiftInv
  <2>1. 0 \in Gears
    BY GearAssumption DEF Gears
  <2>. QED BY <2>1 DEF ShiftInit, ShiftInv, ShiftTypeOK, OnTheWay
<1>. QED BY <1>1, ShiftKeeps, PTL DEF ShiftSpec

(***************************************************************************)
(* After a shift that ended well the recorded gear is the lever's, at      *)
(* whatever point brakes, disabling and lost messages interrupted the      *)
(* shifts before it (shift_controller.py, _execute_single_shift).          *)
(***************************************************************************)
THEOREM GearTheorem == ShiftSpec => []GearAgreesAtRest
<1>1. ShiftInv => GearAgreesAtRest
  BY DEF ShiftInv, GearAgreesAtRest
<1>. QED BY <1>1, ShiftInvariant, PTL

(***************************************************************************)
(* After a shift that ended well the lever is never moved over a gear      *)
(* (shift_controller.py: "enforces sequential shifting").                  *)
(***************************************************************************)
THEOREM SequentialTheorem == ShiftSpec => LeverStepsByOne
<1>1. ASSUME ShiftInv, [ShiftNext]_shiftVars, lastShift = "ok"
      PROVE  lever' \in {lever - 1, lever, lever + 1}
  <2>1. CASE MoveLever
    <3>1. lever = gear /\ NextGear \in {gear - 1, gear, gear + 1}
      BY <1>1, <2>1, NextGearFacts DEF MoveLever, ShiftInv, OnTheWay
    <3>. QED BY <2>1, <3>1 DEF MoveLever
  <2>2. CASE UNCHANGED lever
    BY <2>2
  <2>3. MoveLever \/ UNCHANGED lever
    BY <1>1 DEF ShiftNext, shiftVars, Enable, BrakeOff, BrakeOn, DriverThrottle, ShiftTo,
       SingleShift, CutThrottle, SetClutch, RestoreThrottle, ShiftRaises, Recover
  <2>. QED BY <2>1, <2>2, <2>3
<1>. QED BY <1>1, ShiftInvariant, PTL DEF ShiftSpec, LeverStepsByOne

-----------------------------------------------------------------------------
(***************************************************************************)
(* The lines of the wire.  What one line does to the outputs, relay by     *)
(* relay; LinkSettled is a fold of Outputs: nothing to arrive changes      *)
(* nothing, a line written last acts last, the line that arrives first     *)
(* acts first.                                                             *)
(***************************************************************************)
LEMMA OutputsFacts ==
  ASSUME NEW m \in Message, NEW R \in SUBSET Relays
  PROVE  /\ Outputs(R, m) \in SUBSET Relays
         /\ \A r \in Relays :
              r \in Outputs(R, m) <=>
                r \in Outputs({}, m) \/ (r \in R /\ r \in Outputs(Relays, m))
<1>1. CASE m.kind = "heartbeat"
  BY <1>1 DEF Outputs
<1>2. CASE m.kind = "estop"
  BY <1>2 DEF Outputs
<1>3. CASE m.kind = "relay"
  <2>1. m.relay \in Relays /\ m.active \in BOOLEAN
    BY <1>3 DEF Message
  <2>2. CASE m.active
    BY <1>3, <2>1, <2>2 DEF Outputs
  <2>3. CASE ~m.active
    BY <1>3, <2>1, <2>3 DEF Outputs
  <2>. QED BY <2>2, <2>3
<1>. QED BY <1>1, <1>2, <1>3 DEF Message

\* What the relays come to is a state of the relays.
LEMMA SettledType ==
  ASSUME NEW R, NEW q
  PROVE  LinkSettled(R, q) \in SUBSET Relays
BY DEF LinkSettled

\* With nothing under way the relays stay as they are.
LEMMA SettledEmpty ==
  ASSUME NEW R \in SUBSET Relays
  PROVE  LinkSettled(R, <<>>) = R
BY DEF LinkSettled, KeptOn

\* A line added at the end is applied last.
LEMMA SettledAppend ==
  ASSUME NEW q \in Seq(Message), NEW m \in Message, NEW R \in SUBSET Relays
  PROVE  LinkSettled(R, Append(q, m)) = Outputs(LinkSettled(R, q), m)
<1>. DEFINE n == Len(q)
            a == Append(q, m)
<1>1. /\ n \in Nat /\ Len(a) = n + 1 /\ a[n + 1] = m
      /\ \A k \in 1..n : a[k] = q[k]
  OBVIOUS
<1>2. \A r \in Relays, from \in 1..(n + 1) :
        KeptOn(r, a, from) <=> KeptOn(r, q, from) /\ r \in Outputs(Relays, m)
  BY <1>1 DEF KeptOn
<1>3. \A r \in Relays : KeptOn(r, a, n + 2)
  BY <1>1 DEF KeptOn
<1>4. \A r \in Relays :
        r \in LinkSettled(R, a) <=>
          r \in Outputs({}, m) \/ (r \in LinkSettled(R, q) /\ r \in Outputs(Relays, m))
  <2> SUFFICES ASSUME NEW r \in Relays
               PROVE  r \in LinkSettled(R, a) <=>
                        \/ r \in Outputs({}, m)
                        \/ r \in LinkSettled(R, q) /\ r \in Outputs(Relays, m)
    OBVIOUS
  <2>. DEFINE SwitchedOn(s) == \E k \in 1..Len(s) :
                           r \in Outputs({}, s[k]) /\ KeptOn(r, s, k + 1)
  <2>1. SwitchedOn(a) <=> r \in Outputs({}, m) \/ (SwitchedOn(q) /\ r \in Outputs(Relays, m))
    <3>1. ASSUME r \in Outputs({}, m)
          PROVE  SwitchedOn(a)
      BY <1>1, <1>3, <3>1
    <3>2. ASSUME NEW k \in 1..n
          PROVE  r \in Outputs({}, a[k]) /\ KeptOn(r, a, k + 1) <=>
                   r \in Outputs({}, q[k]) /\ KeptOn(r, q, k + 1)
                     /\ r \in Outputs(Relays, m)
      BY <1>1, <1>2
    <3>. QED BY <1>1, <3>1, <3>2
  <2>2. KeptOn(r, a, 1) <=> KeptOn(r, q, 1) /\ r \in Outputs(Relays, m)
    BY <1>1, <1>2
  <2>. QED BY <2>1, <2>2 DEF LinkSettled
<1>. QED BY <1>4, OutputsFacts, SettledType

\* The line that arrives is applied first.
LEMMA SettledTail ==
  ASSUME NEW q \in Seq(Message), q # <<>>, NEW R \in SUBSET Relays
  PROVE  LinkSettled(Outputs(R, Head(q)), Tail(q)) = LinkSettled(R, q)
<1>. DEFINE n == Len(q)
            t == Tail(q)
            m == Head(q)
<1>1. /\ n \in Nat \ {0} /\ Len(t) = n - 1 /\ m \in Message /\ m = q[1]
      /\ \A k \in 1..(n - 1) : t[k] = q[k + 1]
  OBVIOUS
<1>2. \A r \in Relays, from \in 1..n : KeptOn(r, t, from) <=> KeptOn(r, q, from + 1)
  <2> SUFFICES ASSUME NEW r \in Relays, NEW from \in 1..n
               PROVE  KeptOn(r, t, from) <=> KeptOn(r, q, from + 1)
    OBVIOUS
  <2>1. ASSUME KeptOn(r, t, from), NEW k \in (from + 1)..n
        PROVE  r \in Outputs(Relays, q[k])
    <3>1. k - 1 \in from..(n - 1) /\ t[k - 1] = q[k]
      BY <1>1
    <3>. QED BY <1>1, <2>1, <3>1 DEF KeptOn
  <2>2. ASSUME KeptOn(r, q, from + 1), NEW k \in from..(n - 1)
        PROVE  r \in Outputs(Relays, t[k])
    <3>1. k + 1 \in (from + 1)..n /\ t[k] = q[k + 1]
      BY <1>1
    <3>. QED BY <1>1, <2>2, <3>1 DEF KeptOn
  <2>. QED BY <1>1, <2>1, <2>2 DEF KeptOn
<1>3. ASSUME NEW r \in Relays
      PROVE  r \in LinkSettled(Outputs(R, m), t) <=> r \in LinkSettled(R, q)
  <2>. DEFINE SwitchedOn(s) == \E k \in 1..Len(s) :
                           r \in Outputs({}, s[k]) /\ KeptOn(r, s, k + 1)
  <2>1. KeptOn(r, q, 1) <=> r \in Outputs(Relays, m) /\ KeptOn(r, q, 2)
    BY <1>1 DEF KeptOn
  <2>2. KeptOn(r, t, 1) <=> KeptOn(r, q, 2)
    BY <1>1, <1>2
  <2>3. SwitchedOn(q) <=> (r \in Outputs({}, m) /\ KeptOn(r, q, 2)) \/ SwitchedOn(t)
    <3>1. ASSUME NEW k \in 2..n, r \in Outputs({}, q[k]), KeptOn(r, q, k + 1)
          PROVE  SwitchedOn(t)
      <4>1. k - 1 \in 1..(n - 1) /\ t[k - 1] = q[k] /\ (k - 1) + 1 = k
        BY <1>1
      <4>2. KeptOn(r, t, (k - 1) + 1)
        BY <1>1, <1>2, <3>1, <4>1
      <4>. QED BY <1>1, <3>1, <4>1, <4>2
    <3>2. ASSUME NEW k \in 1..(n - 1), r \in Outputs({}, t[k]), KeptOn(r, t, k + 1)
          PROVE  SwitchedOn(q)
      <4>1. k + 1 \in 1..n /\ q[k + 1] = t[k] /\ KeptOn(r, q, k + 2)
        BY <1>1, <1>2, <3>2
      <4>. QED BY <3>2, <4>1
    <3>. QED BY <1>1, <3>1, <3>2
  <2>4. r \in Outputs(R, m) <=>
          r \in Outputs({}, m) \/ (r \in R /\ r \in Outputs(Relays, m))
    BY <1>1, OutputsFacts
  <2>. QED BY <2>1, <2>2, <2>3, <2>4 DEF LinkSettled
<1>4. /\ LinkSettled(Outputs(R, m), t) \in SUBSET Relays
      /\ LinkSettled(R, q) \in SUBSET Relays
  BY SettledType
<1>. QED BY <1>3, <1>4

(***************************************************************************)
(* Outputs that are cut now are off later too where they would have been.  *)
(***************************************************************************)
LEMMA SettledAfterCut ==
  ASSUME NEW R, NEW q
  PROVE  LinkSettled({}, q) \subseteq LinkSettled(R, q)
BY DEF LinkSettled

(***************************************************************************)
(* Lines that switch nothing on, with an emergency stop among them, leave  *)
(* nothing on.                                                             *)
(***************************************************************************)
LEMMA SettledByStop ==
  ASSUME NEW q \in Seq(Message), NEW R,
         \A k \in 1..Len(q) : q[k].kind = "relay" => ~q[k].active,
         NEW j \in 1..Len(q), q[j].kind = "estop"
  PROVE  LinkSettled(R, q) = {}
<1>1. ASSUME NEW r \in Relays, NEW k \in 1..Len(q)
      PROVE  r \notin Outputs({}, q[k])
  <2>1. q[k] \in Message
    OBVIOUS
  <2>. QED BY <2>1 DEF Outputs, Message
<1>2. ASSUME NEW r \in Relays
      PROVE  ~KeptOn(r, q, 1)
  BY DEF KeptOn, Outputs
<1>. QED BY <1>1, <1>2 DEF LinkSettled

-----------------------------------------------------------------------------
(***************************************************************************)
(* The inductive invariant of the link.  In send() there is a line to      *)
(* send, and only relay lines before a shutdown; a shutdown that has not   *)
(* stuck has still to send what switches everything off.                   *)
(***************************************************************************)
SendHasLine == mainAt \in {"lock", "write"} => todo # <<>>

OnlyRelayLines ==
  ~signalled => \A k \in 1..Len(todo) : todo[k].kind = "relay"

SignalledAtEnd ==
  /\ mainAt \in {"stuck", "exited"} => signalled
  /\ Ended => todo = <<>>

ShutdownCuts ==
  signalled /\ mainAt \in {"next", "lock", "write", "exited"}
      /\ "lost" \notin linkHistory =>
    LinkSettled(LinkSettled(fwRelays, wire), todo) = {}

LinkIInv ==
  /\ LinkTypeOK /\ RelaysAgree /\ SendHasLine /\ OnlyRelayLines /\ SignalledAtEnd
  /\ ShutdownCuts

(***************************************************************************)
(* What the operations of RelayManager send are lines, and shutdown()'s    *)
(* lines switch everything off.                                            *)
(***************************************************************************)
LEMMA SendsFacts ==
  /\ \A r \in Relays, on \in BOOLEAN :
       SetRelay(r, on) \in Message /\ SetRelay(r, on).kind = "relay"
  /\ EStopCommand \in Message /\ Heartbeat \in Message
  /\ StartEngineAndPto \in Seq(Message) /\ PtoOff \in Seq(Message)
  /\ EmergencyOff \in Seq(Message) /\ ShutdownSends \in Seq(Message)
<1>1. /\ \A r \in Relays, on \in BOOLEAN :
           SetRelay(r, on) \in Message /\ SetRelay(r, on).kind = "relay"
      /\ EStopCommand \in Message /\ Heartbeat \in Message
  BY DEF Message, SetRelay, EStopCommand, Heartbeat
<1>2. /\ StartEngineAndPto \in Seq(Message) /\ PtoOff \in Seq(Message)
      /\ EmergencyOff \in Seq(Message)
  <2>1. \A r \in Relays : SetRelay(r, TRUE) \in Message /\ SetRelay(r, FALSE) \in Message
    BY <1>1
  <2>2. "ignition" \in Relays /\ "starter" \in Relays /\ "pto" \in Relays
    BY DEF Relays
  <2>3. /\ \A a, b, c, d \in Message : <<a, b, c, d>> \in Seq(Message)
        /\ \A a, b, c \in Message : <<a, b, c>> \in Seq(Message)
        /\ \A a \in Message : <<a>> \in Seq(Message)
    OBVIOUS
  <2>. QED BY <2>1, <2>2, <2>3, Zenon DEF StartEngineAndPto, PtoOff, EmergencyOff
<1>3. ShutdownSends \in Seq(Message)
  BY <1>1, <1>2 DEF ShutdownSends
<1>. QED BY <1>1, <1>2, <1>3

\* Every command line of a shutdown cuts the relays it names.
LEMMA ShutdownSendsCut ==
  ASSUME NEW R
  PROVE  LinkSettled(R, ShutdownSends) = {}
<1>. DEFINE A == IF SessionActive THEN PtoOff ELSE <<>>
            B == <<EStopCommand>>
            q == ShutdownSends
<1>1. /\ Len(EmergencyOff) = 3
      /\ \A k \in 1..3 : EmergencyOff[k].kind = "relay" /\ ~EmergencyOff[k].active
      /\ Len(PtoOff) = 1 /\ PtoOff[1].kind = "relay" /\ ~PtoOff[1].active
  BY DEF EmergencyOff, PtoOff, SetRelay
<1>2. A \in Seq(Message) /\ B \in Seq(Message) /\ EmergencyOff \in Seq(Message)
  BY SendsFacts
<1>5. q = (A \o B) \o EmergencyOff /\ Len(B) = 1 /\ B[1].kind = "estop"
  BY DEF ShutdownSends, EStopCommand
<1>6. \A k \in 1..Len(A) : A[k].kind = "relay" /\ ~A[k].active
  <2>1. CASE SessionActive
    <3>1. A = PtoOff
      BY <2>1
    <3>2. \A k \in 1..Len(PtoOff) : k = 1
      BY <1>1
    <3>. QED BY <1>1, <3>1, <3>2
  <2>2. CASE ~SessionActive
    <3>1. A = <<>> /\ 1..Len(A) = {}
      BY <2>2
    <3>. QED BY <3>1
  <2>. QED BY <2>1, <2>2
<1>7. \A k \in 1..Len(q) : \/ k \in 1..Len(A) /\ q[k] = A[k]
                           \/ k = Len(A) + 1 /\ q[k] = B[1]
                           \/ \E l \in 1..3 : q[k] = EmergencyOff[l]
  <2>. DEFINE C == A \o B
  <2>. HIDE DEF A, B
  <2>1. /\ C \in Seq(Message) /\ Len(C) = Len(A) + Len(B)
        /\ \A k \in 1..(Len(A) + Len(B)) :
             C[k] = IF k <= Len(A) THEN A[k] ELSE B[k - Len(A)]
    BY <1>2, ConcatProperties
  <2>. HIDE DEF C, q
  <2>2. q = C \o EmergencyOff
    BY <1>5 DEF C
  <2>3. /\ Len(q) = Len(C) + 3
        /\ \A k \in 1..(Len(C) + 3) :
             q[k] = IF k <= Len(C) THEN C[k] ELSE EmergencyOff[k - Len(C)]
    <3>1. EmergencyOff \in Seq(Message)
      BY <1>2
    <3>2. C \in Seq(Message)
      BY <2>1
    <3>3. /\ Len(C \o EmergencyOff) = Len(C) + Len(EmergencyOff)
          /\ \A k \in 1..(Len(C) + Len(EmergencyOff)) :
               (C \o EmergencyOff)[k] =
                  IF k <= Len(C) THEN C[k] ELSE EmergencyOff[k - Len(C)]
      BY <3>1, <3>2, ConcatProperties, Zenon
    <3>. QED BY <1>1, <2>2, <3>3, Zenon
  <2>4. Len(A) \in Nat
    BY <1>2
  <2> SUFFICES ASSUME NEW k \in 1..Len(q)
               PROVE  \/ k \in 1..Len(A) /\ q[k] = A[k]
                      \/ k = Len(A) + 1 /\ q[k] = B[1]
                      \/ \E l \in 1..3 : q[k] = EmergencyOff[l]
    OBVIOUS
  <2>5. CASE k <= Len(A)
    BY <1>5, <2>1, <2>3, <2>4, <2>5
  <2>6. CASE k = Len(A) + 1
    BY <1>5, <2>1, <2>3, <2>4, <2>6
  <2>7. CASE k > Len(A) + 1
    <3>1. k - Len(C) \in 1..3 /\ q[k] = EmergencyOff[k - Len(C)]
      BY <1>5, <2>1, <2>3, <2>4, <2>7
    <3>. QED BY <3>1
  <2>. QED BY <2>4, <2>5, <2>6, <2>7
<1>3. \A k \in 1..Len(q) : q[k].kind = "relay" => ~q[k].active
  <2>. HIDE DEF A, B, q
  <2>. QED BY <1>1, <1>5, <1>6, <1>7
<1>4. Len(A) + 1 \in 1..Len(q) /\ q[Len(A) + 1].kind = "estop"
  BY <1>1, <1>2 DEF ShutdownSends, EStopCommand
<1>. QED BY <1>3, <1>4, SendsFacts, SettledByStop

-----------------------------------------------------------------------------
(***************************************************************************)
(* Every step keeps the types and the shape of what there is to send.      *)
(***************************************************************************)
LinkShape == LinkTypeOK /\ SendHasLine /\ OnlyRelayLines /\ SignalledAtEnd

\* The lines of an operation are sent from the first on.
LEMMA TodoFacts ==
  ASSUME todo \in Seq(Message), todo # <<>>
  PROVE  Head(todo) \in Message /\ Tail(todo) \in Seq(Message)
OBVIOUS

\* An operation begins with the lines it has to send.
LEMMA OperateKeepsShape ==
  ASSUME LinkShape, NEW from, NEW to \in {"starting", "mowing", "aborting", "over"},
         NEW sends \in Seq(Message), \A k \in 1..Len(sends) : sends[k].kind = "relay",
         Operate(from, to, sends)
  PROVE  LinkShape'
BY DEF LinkShape, LinkTypeOK, SendHasLine, OnlyRelayLines, SignalledAtEnd, Ended,
       Operate, fwVars, FwTypeOK

\* The main thread keeps the shape of what is under way.
LEMMA MainKeepsShape ==
  ASSUME LinkShape,
         SessionStep \/ MainSends \/ Signal \/ Exit
  PROVE  LinkShape'
<1>. USE DEF LinkShape, LinkTypeOK, FwTypeOK, SendHasLine, OnlyRelayLines,
             SignalledAtEnd, Ended
<1>1. /\ \A k \in 1..Len(StartEngineAndPto) : StartEngineAndPto[k].kind = "relay"
      /\ \A k \in 1..Len(PtoOff) : PtoOff[k].kind = "relay"
      /\ \A k \in 1..Len(EmergencyOff) : EmergencyOff[k].kind = "relay"
      /\ \A k \in 1..Len(<<>>) : <<>>[k].kind = "relay"
  BY DEF StartEngineAndPto, PtoOff, EmergencyOff, SetRelay
<1>2. CASE SessionStep
  <2>1. <<>> \in Seq(Message)
    OBVIOUS
  <2>. QED
    BY <1>1, <1>2, <2>1, SendsFacts, OperateKeepsShape
       DEF SessionStep, StartMowing, MowingBegins, CompleteMowing,
           StartRefused, AbortMowing, AbortEnds
<1>3. CASE BeginSend
  <2>1. piRelays' \in SUBSET Relays
    BY <1>3, TodoFacts, OutputsFacts DEF BeginSend, Believed
  <2>. QED BY <1>3, <2>1 DEF BeginSend, fwVars
<1>4. CASE MainLocks
  BY <1>4 DEF MainLocks, fwVars
<1>5. CASE MainWrites
  <2>1. todo # <<>>
    BY <1>5 DEF MainWrites
  <2>2. wire' \in Seq(Message) /\ todo' \in Seq(Message)
    BY <1>5, <2>1, TodoFacts DEF MainWrites
  <2>3. OnlyRelayLines'
    BY <1>5, <2>1 DEF MainWrites
  <2>. QED BY <1>5, <2>2, <2>3 DEF MainWrites
<1>6. CASE Signal
  <2>1. ShutdownSends \in Seq(Message)
    BY SendsFacts
  <2>2. CASE mainAt = "write"
    <3>1. todo' = <<>> /\ mainAt' = "stuck" /\ signalled'
      BY <1>6, <2>2 DEF Signal
    <3>2. <<>> \in Seq(Message)
      OBVIOUS
    <3>. QED BY <1>6, <2>2, <3>1, <3>2 DEF Signal, fwVars
  <2>3. CASE mainAt # "write"
    <3>1. todo' = ShutdownSends
      BY <1>6, <2>3 DEF Signal
    <3>. QED BY <1>6, <2>1, <2>3, <3>1 DEF Signal, fwVars
  <2>. QED BY <2>2, <2>3
<1>7. CASE Exit
  BY <1>7 DEF Exit, Disconnecting, fwVars
<1>. QED BY <1>2, <1>3, <1>4, <1>5, <1>6, <1>7 DEF MainSends

\* So do the heartbeat thread, the firmware and the wire.
LEMMA OthersKeepShape ==
  ASSUME LinkShape,
         HbSends \/ PicoReceives \/ LineDamaged \/ HeartbeatLate \/ PicoChecks
           \/ Kill \/ Restart
  PROVE  LinkShape'
<1>. USE DEF LinkShape, LinkTypeOK, FwTypeOK, SendHasLine, OnlyRelayLines,
             SignalledAtEnd, piVars, Ended
<1>1. CASE HbSends
  <2>1. Heartbeat \in Message
    BY SendsFacts
  <2>2. wire' \in Seq(Message)
    BY <1>1, <2>1 DEF HbSends, HbWakes, HbLocks, HbWrites
  <2>. QED BY <1>1, <2>2 DEF HbSends, HbWakes, HbLocks, HbWrites, HbStep
<1>2. CASE PicoReceives
  <2>1. Head(wire) \in Message /\ wire' \in Seq(Message)
    <3>1. wire \in Seq(Message) /\ wire # <<>>
      BY <1>2 DEF PicoReceives, FwReceive
    <3>. QED BY <1>2, <3>1 DEF PicoReceives, FwReceive
  <2>2. fwRelays' \in SUBSET Relays
    BY <1>2, <2>1, OutputsFacts DEF PicoReceives, FwReceive
  <2>3. fwTripped' \in BOOLEAN /\ fwStale' \in BOOLEAN
    <3>1. CASE Head(wire).kind = "heartbeat"
      BY <1>2, <3>1 DEF PicoReceives, FwReceive
    <3>2. CASE Head(wire).kind # "heartbeat"
      BY <1>2, <3>2 DEF PicoReceives, FwReceive
    <3>. QED BY <3>1, <3>2
  <2>4. UNCHANGED <<piVars, linkHistory>>
    BY <1>2 DEF PicoReceives
  <2>. QED BY <2>1, <2>2, <2>3, <2>4
<1>3. CASE LineDamaged
  BY <1>3 DEF LineDamaged, FwDamaged
<1>4. CASE HeartbeatLate
  BY <1>4 DEF HeartbeatLate, FwGoesStale
<1>5. CASE PicoChecks
  BY <1>5 DEF PicoChecks, FwCheckWatchdog
<1>6. CASE Kill
  BY <1>6 DEF Kill, fwVars, Ended
<1>7. CASE Restart
  <2>1. starts' \in 1..MaxStarts
    BY <1>7, LinkAssumption DEF Restart
  <2>2. todo' = <<>> /\ mainAt' = "next" /\ UNCHANGED fwVars
    BY <1>7 DEF Restart
  <2>3. SendHasLine' /\ OnlyRelayLines' /\ SignalledAtEnd'
    BY <2>2
  <2>4. todo' \in Seq(Message) /\ wire' \in Seq(Message)
    BY <1>7, <2>2 DEF Restart, fwVars
  <2>5. LinkTypeOK'
    BY <1>7, <2>1, <2>2, <2>4 DEF Restart, fwVars
  <2>. QED BY <2>3, <2>5
<1>. HIDE DEF LinkShape
<1>. QED BY <1>1, <1>2, <1>3, <1>4, <1>5, <1>6, <1>7, Zenon

-----------------------------------------------------------------------------
(***************************************************************************)
(* Every step keeps what both ends take the relays to be.                  *)
(***************************************************************************)
Undisturbed ==
  linkHistory \cap {"lost", "cut"} = {} /\ ~signalled /\ mainAt # "killed"

\* A heartbeat changes no relay.
LEMMA SettledHeartbeat ==
  ASSUME NEW q \in Seq(Message), NEW R \in SUBSET Relays
  PROVE  LinkSettled(R, Append(q, Heartbeat)) = LinkSettled(R, q)
<1>1. Outputs(LinkSettled(R, q), Heartbeat) = LinkSettled(R, q)
  BY DEF Outputs, Heartbeat
<1>. QED BY <1>1, SendsFacts, SettledAppend

\* Every step keeps the agreement of the relays with the last line sent.
LEMMA AgreementKept ==
  ASSUME LinkIInv, LinkNext
  PROVE  RelaysAgree'
<1>. DEFINE m == Head(todo)
            S == LinkSettled(fwRelays, wire)
<1>1. /\ wire \in Seq(Message) /\ fwRelays \in SUBSET Relays
      /\ todo \in Seq(Message)
  BY DEF LinkIInv, LinkTypeOK, FwTypeOK
<1>2. /\ mainAt \in {"lock", "write"} => m \in Message
      /\ mainAt \in {"lock", "write"} => LinkSettled(fwRelays, Append(wire, m)) = Outputs(S, m)
  BY <1>1, TodoFacts, SettledAppend DEF LinkIInv, SendHasLine
<1>3. Undisturbed => piRelays = IF mainAt \in {"lock", "write"} THEN Outputs(S, m) ELSE S
  BY <1>2 DEF LinkIInv, RelaysAgree, Undisturbed
<1>. SUFFICES ASSUME Undisturbed'
              PROVE  piRelays' = LinkSettled(fwRelays',
                                   IF mainAt' \in {"lock", "write"}
                                   THEN Append(wire', Head(todo')) ELSE wire')
  BY DEF RelaysAgree, Undisturbed
<1>4. CASE SessionStep
  <2>1. /\ mainAt = "next" /\ mainAt' = "next"
        /\ UNCHANGED <<fwRelays, wire, piRelays, signalled, linkHistory>>
    BY <1>4 DEF SessionStep, StartMowing, MowingBegins, CompleteMowing,
           StartRefused, AbortMowing, AbortEnds, Operate, fwVars
  <2>. QED BY <1>3, <2>1 DEF Undisturbed
<1>5. CASE BeginSend
  <2>1. /\ mainAt = "next" /\ mainAt' = "lock" /\ todo # <<>> /\ todo' = todo
        /\ UNCHANGED <<fwRelays, wire, signalled, linkHistory>>
        /\ piRelays' = Believed(m)
    BY <1>5 DEF BeginSend, fwVars
  <2>2. piRelays = S
    BY <1>3, <2>1 DEF Undisturbed
  <2>3. m \in Message /\ m.kind = "relay"
    <3>1. ~signalled
      BY <2>1 DEF Undisturbed
    <3>. QED BY <1>1, <2>1, <3>1 DEF LinkIInv, OnlyRelayLines
  <2>. QED BY <1>1, <2>1, <2>2, <2>3, SettledAppend DEF Believed
<1>6. CASE MainLocks
  BY <1>2, <1>3, <1>6 DEF MainLocks, fwVars, Undisturbed
<1>7. CASE MainWrites
  BY <1>2, <1>3, <1>7 DEF MainWrites, Undisturbed
<1>8. CASE HbWakes \/ HbLocks
  BY <1>2, <1>3, <1>8 DEF HbWakes, HbLocks, HbStep, Undisturbed
<1>9. CASE HbWrites
  <2>1. /\ wire' = Append(wire, Heartbeat)
        /\ UNCHANGED <<fwRelays, mainAt, todo, piRelays, signalled, linkHistory>>
    BY <1>9 DEF HbWrites, HbStep
  <2>2. LinkSettled(fwRelays, wire') = S /\ wire' \in Seq(Message)
    BY <1>1, <2>1, SettledHeartbeat, SendsFacts
  <2>3. mainAt \in {"lock", "write"} =>
          LinkSettled(fwRelays, Append(wire', m)) = Outputs(S, m)
    BY <1>1, <1>2, <2>2, SettledAppend
  <2>. QED BY <1>3, <2>1, <2>2, <2>3 DEF Undisturbed
<1>10. CASE PicoReceives
  <2>1. /\ wire # <<>> /\ wire' = Tail(wire) /\ fwRelays' = Outputs(fwRelays, Head(wire))
        /\ UNCHANGED <<mainAt, todo, piRelays, signalled, linkHistory>>
    BY <1>10 DEF PicoReceives, FwReceive, piVars
  <2>2. LinkSettled(fwRelays', wire') = S
    BY <1>1, <2>1, SettledTail
  <2>3. wire' \in Seq(Message) /\ Head(wire) \in Message
    BY <1>1, <2>1
  <2>4. fwRelays' \in SUBSET Relays
    BY <1>1, <2>1, <2>3, OutputsFacts
  <2>5. mainAt \in {"lock", "write"} =>
          LinkSettled(fwRelays', Append(wire', m)) = Outputs(S, m)
    BY <1>2, <2>2, <2>3, <2>4, SettledAppend
  <2>. QED BY <1>3, <2>1, <2>2, <2>5 DEF Undisturbed
<1>11. CASE HeartbeatLate
  BY <1>2, <1>3, <1>11 DEF HeartbeatLate, FwGoesStale, piVars, Undisturbed
<1>12. CASE Signal \/ Exit \/ LineDamaged \/ PicoChecks \/ Kill \/ Restart
  <2>1. CASE Exit
    BY <2>1 DEF Exit, Disconnecting, Undisturbed
  <2>2. CASE Signal \/ LineDamaged \/ PicoChecks \/ Kill \/ Restart
    BY <2>2 DEF Signal, LineDamaged, PicoChecks, Kill, Restart, Undisturbed
  <2>. QED BY <1>12, <2>1, <2>2
<1>. QED
  BY <1>4, <1>5, <1>6, <1>7, <1>8, <1>9, <1>10, <1>11, <1>12
     DEF LinkNext, MainSends, HbSends

(***************************************************************************)
(* Every step keeps what a shutdown under way will have cut.               *)
(***************************************************************************)
Cutting ==
  /\ signalled /\ mainAt \in {"next", "lock", "write", "exited"}
  /\ "lost" \notin linkHistory

\* Every step keeps what the exit has cut.
LEMMA CutKept ==
  ASSUME LinkIInv, LinkNext
  PROVE  ShutdownCuts'
<1>. DEFINE S == LinkSettled(fwRelays, wire)
<1>1. /\ wire \in Seq(Message) /\ fwRelays \in SUBSET Relays
      /\ todo \in Seq(Message) /\ S \in SUBSET Relays
  BY SettledType DEF LinkIInv, LinkTypeOK, FwTypeOK
<1>2. Cutting => LinkSettled(S, todo) = {}
  BY DEF LinkIInv, ShutdownCuts, Cutting
<1>. SUFFICES ASSUME Cutting'
              PROVE  LinkSettled(LinkSettled(fwRelays', wire'), todo') = {}
  BY DEF ShutdownCuts, Cutting
<1>3. CASE Signal
  <2>1. mainAt # "write"
    BY <1>3 DEF Signal, Cutting
  <2>2. todo' = ShutdownSends
    BY <1>3, <2>1 DEF Signal
  <2>. QED BY <2>2, ShutdownSendsCut
<1>4. CASE BeginSend \/ MainLocks \/ Exit \/ HbWakes \/ HbLocks \/ HeartbeatLate
  <2>1. UNCHANGED <<fwRelays, wire, todo>>
    BY <1>4 DEF BeginSend, MainLocks, Exit, HbWakes, HbLocks, HbStep, HeartbeatLate,
                FwGoesStale, piVars, fwVars
  <2>2. Cutting
    BY <1>4 DEF BeginSend, MainLocks, Exit, HbWakes, HbLocks, HbStep, HeartbeatLate,
                Disconnecting, piVars, Cutting
  <2>. QED BY <1>2, <2>1, <2>2
<1>5. CASE MainWrites
  <2>1. todo # <<>> /\ Cutting
    BY <1>5 DEF MainWrites, Cutting, LinkIInv, SendHasLine
  <2>2. Head(todo) \in Message
    BY <1>1, <2>1
  <2>3. LinkSettled(fwRelays, Append(wire, Head(todo))) = Outputs(S, Head(todo))
    BY <1>1, <2>2, SettledAppend
  <2>4. LinkSettled(Outputs(S, Head(todo)), Tail(todo)) = LinkSettled(S, todo)
    BY <1>1, <2>1, SettledTail
  <2>. QED BY <1>2, <1>5, <2>1, <2>3, <2>4 DEF MainWrites
<1>6. CASE HbWrites
  <2>1. Cutting /\ UNCHANGED <<fwRelays, todo>> /\ wire' = Append(wire, Heartbeat)
    BY <1>6 DEF HbWrites, HbStep, Cutting
  <2>. QED BY <1>1, <1>2, <2>1, SettledHeartbeat
<1>7. CASE PicoReceives
  <2>1. /\ wire # <<>> /\ wire' = Tail(wire) /\ fwRelays' = Outputs(fwRelays, Head(wire))
        /\ todo' = todo /\ Cutting
    BY <1>7 DEF PicoReceives, FwReceive, piVars, Cutting
  <2>2. LinkSettled(fwRelays', wire') = S
    BY <1>1, <2>1, SettledTail
  <2>. QED BY <1>2, <2>1, <2>2
<1>8. CASE PicoChecks
  <2>1. fwRelays' = {} /\ wire' = wire /\ todo' = todo /\ Cutting
    BY <1>8 DEF PicoChecks, FwCheckWatchdog, piVars, Cutting
  <2>2. LinkSettled({}, wire) \subseteq S
    BY SettledAfterCut
  <2>3. LinkSettled(LinkSettled({}, wire), todo) \subseteq LinkSettled(S, todo)
    BY <2>2 DEF LinkSettled
  <2>. QED BY <1>2, <2>1, <2>3
<1>9. CASE SessionStep
  BY <1>9 DEF SessionStep, StartMowing, MowingBegins, CompleteMowing,
           StartRefused, AbortMowing, AbortEnds, Operate, Cutting
<1>10. CASE LineDamaged \/ Kill \/ Restart
  BY <1>10 DEF LineDamaged, Kill, Restart, Cutting
<1>. QED
  BY <1>3, <1>4, <1>5, <1>6, <1>7, <1>8, <1>9, <1>10 DEF LinkNext, MainSends, HbSends

-----------------------------------------------------------------------------
(***************************************************************************)
(* The invariant, for any length of the wire and number of processes.      *)
(***************************************************************************)
THEOREM LinkInvariant == LinkSpec => []LinkIInv
<1>1. LinkInit => LinkIInv
  <2> SUFFICES ASSUME LinkInit PROVE LinkIInv
    OBVIOUS
  <2>1. /\ wire = <<>> /\ fwRelays = {} /\ mainAt = "next" /\ todo = <<>>
        /\ piRelays = {} /\ ~signalled
    BY DEF LinkInit, FwInit, ProcessStarts
  <2>2. LinkTypeOK
    <3>1. <<>> \in Seq(Message)
      OBVIOUS
    <3>2. starts \in 1..MaxStarts
      BY LinkAssumption DEF LinkInit
    <3>. QED
      BY <2>1, <3>1, <3>2 DEF LinkInit, FwInit, ProcessStarts, LinkTypeOK, FwTypeOK
  <2>3. RelaysAgree
    BY <2>1, SettledEmpty DEF RelaysAgree
  <2>. QED BY <2>1, <2>2, <2>3
       DEF LinkIInv, SendHasLine, OnlyRelayLines, SignalledAtEnd, Ended, ShutdownCuts
<1>2. LinkIInv /\ [LinkNext]_linkVars => LinkIInv'
  <2> SUFFICES ASSUME LinkIInv, [LinkNext]_linkVars PROVE LinkIInv'
    OBVIOUS
  <2>1. CASE LinkNext
    <3>1. LinkShape
      BY DEF LinkIInv, LinkShape
    <3>2. LinkShape'
      BY <2>1, <3>1, MainKeepsShape, OthersKeepShape DEF LinkNext
    <3>. QED BY <2>1, <3>2, AgreementKept, CutKept DEF LinkIInv, LinkShape
  <2>2. CASE UNCHANGED linkVars
    BY <2>2 DEF linkVars, fwVars, LinkIInv, LinkTypeOK, FwTypeOK, RelaysAgree, SendHasLine,
                OnlyRelayLines, SignalledAtEnd, Ended, ShutdownCuts
  <2>. QED BY <2>1, <2>2
<1>. QED BY <1>1, <1>2, PTL DEF LinkSpec

(***************************************************************************)
(* The property of hardware/relay_manager.py: however its sends interleave *)
(* with the heartbeats and the firmware, without a loss or a cut its       *)
(* record is what the outputs will be.                                     *)
(***************************************************************************)
THEOREM RelaysTheorem == LinkSpec => []RelaysAgree
BY LinkInvariant, PTL DEF LinkIInv

(***************************************************************************)
(* The property of shutdown() in core/main.py: wherever the signal found   *)
(* the main thread, a process that ended through it leaves the relays off. *)
(***************************************************************************)
THEOREM ExitTheorem == LinkSpec => []ExitCutsRelays
<1>1. LinkIInv => ExitCutsRelays
  <2> SUFFICES ASSUME LinkIInv, mainAt = "exited", "lost" \notin linkHistory
               PROVE  LinkSettled(fwRelays, wire) = {}
    BY DEF ExitCutsRelays
  <2>1. todo = <<>> /\ LinkSettled(LinkSettled(fwRelays, wire), todo) = {}
    BY DEF LinkIInv, SignalledAtEnd, Ended, ShutdownCuts
  <2>. QED BY <2>1, SettledEmpty, SettledType
<1>. QED BY <1>1, LinkInvariant, PTL

-----------------------------------------------------------------------------
(***************************************************************************)
(* A sequence of waypoints that starts after p and leaves none out; and    *)
(* one in which each waypoint comes after all the earlier ones, which is   *)
(* what the server receives: InOrder itself does not survive a batch that  *)
(* is sent again.                                                          *)
(***************************************************************************)
RunsFrom(s, p) == \A k \in 1..Len(s) : s[k] = p + k

EarlierFirst(s) ==
  \A i \in 1..Len(s) : \A w \in 1..(s[i] - 1) : \E k \in 1..(i - 1) : s[k] = w

Arrived(p) == 1..p \subseteq Range(received)

(***************************************************************************)
(* Two batches in a row, and what their arrival adds to what was received. *)
(***************************************************************************)
LEMMA RunsJoined ==
  ASSUME NEW s \in Seq(Waypoints), NEW t \in Seq(Waypoints), NEW p \in Nat,
         RunsFrom(s, p), RunsFrom(t, p + Len(s))
  PROVE  RunsFrom(s \o t, p)
<1>. SUFFICES ASSUME NEW k \in 1..Len(s \o t)
              PROVE  (s \o t)[k] = p + k
  BY DEF RunsFrom
<1>1. /\ Len(s \o t) = Len(s) + Len(t) /\ Len(s) \in Nat /\ Len(t) \in Nat
      /\ (s \o t)[k] = IF k <= Len(s) THEN s[k] ELSE t[k - Len(s)]
  BY ConcatProperties
<1>2. CASE k <= Len(s)
  BY <1>1, <1>2 DEF RunsFrom
<1>3. CASE k > Len(s)
  <2>1. k - Len(s) \in 1..Len(t)
    BY <1>1, <1>3
  <2>2. t[k - Len(s)] = (p + Len(s)) + (k - Len(s))
    BY <2>1 DEF RunsFrom
  <2>. QED BY <1>1, <1>3, <2>2
<1>. QED BY <1>1, <1>2, <1>3

\* The members of two sequences one after the other.
LEMMA RangeJoined ==
  ASSUME NEW S, NEW s \in Seq(S), NEW t \in Seq(S)
  PROVE  Range(s \o t) = Range(s) \cup Range(t)
<1>1. /\ s \o t \in Seq(S) /\ Len(s \o t) = Len(s) + Len(t)
      /\ Len(s) \in Nat /\ Len(t) \in Nat
      /\ DOMAIN s = 1..Len(s) /\ DOMAIN t = 1..Len(t) /\ DOMAIN (s \o t) = 1..Len(s \o t)
      /\ \A k \in 1..(Len(s) + Len(t)) :
           (s \o t)[k] = IF k <= Len(s) THEN s[k] ELSE t[k - Len(s)]
  BY ConcatProperties
<1>2. \A k \in 1..Len(s) : (s \o t)[k] = s[k]
  BY <1>1
<1>3. \A k \in 1..Len(t) : k + Len(s) \in 1..Len(s \o t) /\ (s \o t)[k + Len(s)] = t[k]
  BY <1>1
<1>4. \A k \in 1..Len(s \o t) : (s \o t)[k] \in Range(s) \cup Range(t)
  BY <1>1 DEF Range
<1>5. Range(s) \subseteq Range(s \o t)
  BY <1>1, <1>2 DEF Range
<1>6. Range(t) \subseteq Range(s \o t)
  BY <1>1, <1>3 DEF Range
<1>7. Range(s \o t) \subseteq Range(s) \cup Range(t)
  BY <1>1, <1>4 DEF Range
<1>. QED BY <1>5, <1>6, <1>7

\* The members of a run of numbers.
LEMMA RunsRange ==
  ASSUME NEW s \in Seq(Waypoints), NEW p \in Nat, RunsFrom(s, p)
  PROVE  Range(s) = (p + 1)..(p + Len(s))
<1>1. DOMAIN s = 1..Len(s) /\ Len(s) \in Nat
  OBVIOUS
<1>2. \A w \in (p + 1)..(p + Len(s)) : w - p \in 1..Len(s) /\ s[w - p] = w
  BY <1>1 DEF RunsFrom
<1>3. (p + 1)..(p + Len(s)) \subseteq Range(s)
  BY <1>1, <1>2 DEF Range
<1>4. \A k \in 1..Len(s) : s[k] \in (p + 1)..(p + Len(s))
  BY <1>1 DEF RunsFrom
<1>5. Range(s) \subseteq (p + 1)..(p + Len(s))
  BY <1>1, <1>4 DEF Range
<1>. QED BY <1>3, <1>5

\* A sequence in order with every waypoint up to p, and a run that goes on from p,
\* are in order together.
LEMMA EarlierFirstJoined ==
  ASSUME NEW r \in Seq(Waypoints), NEW s \in Seq(Waypoints), NEW p \in Nat,
         RunsFrom(s, p), 1..p \subseteq Range(r), EarlierFirst(r)
  PROVE  EarlierFirst(r \o s)
<1>. DEFINE j == r \o s
<1>1. /\ Len(j) = Len(r) + Len(s) /\ Len(r) \in Nat /\ Len(s) \in Nat
      /\ \A k \in 1..(Len(r) + Len(s)) :
           j[k] = IF k <= Len(r) THEN r[k] ELSE s[k - Len(r)]
  BY ConcatProperties
<1>. HIDE DEF j
<1>. SUFFICES ASSUME NEW i \in 1..Len(j), NEW w \in 1..(j[i] - 1)
              PROVE  \E k \in 1..(i - 1) : j[k] = w
  BY DEF EarlierFirst, j
<1>2. CASE i <= Len(r)
  <2>1. i \in 1..Len(r) /\ j[i] = r[i]
    BY <1>1, <1>2
  <2>2. PICK k \in 1..(i - 1) : r[k] = w
    BY <2>1 DEF EarlierFirst
  <2>3. j[k] = w
    BY <1>1, <1>2, <2>2
  <2>. QED BY <2>3
<1>3. CASE i > Len(r)
  <2>1. i - Len(r) \in 1..Len(s) /\ j[i] = s[i - Len(r)]
    BY <1>1, <1>3
  <2>2. s[i - Len(r)] = p + (i - Len(r))
    BY <2>1 DEF RunsFrom
  <2>3. CASE w <= p
    <3>1. PICK k \in 1..Len(r) : r[k] = w
      BY <2>3 DEF Range
    <3>2. k \in 1..(i - 1) /\ j[k] = w
      BY <1>1, <1>3, <3>1
    <3>. QED BY <3>2
  <2>4. CASE w > p
    <3>. DEFINE d == w - p
                l == i - Len(r)
    <3>1. w \in Nat /\ l \in 1..Len(s) /\ w <= p + l - 1 /\ w = p + d
      BY <1>1, <2>1, <2>2
    <3>2. d \in 1..Len(s) /\ d < l
      BY <1>1, <2>4, <3>1
    <3>. HIDE DEF d, l
    <3>3. s[d] = w
      BY <3>1, <3>2 DEF RunsFrom
    <3>4. Len(r) + d \in 1..(i - 1)
      BY <1>1, <1>3, <3>2 DEF l
    <3>5. j[Len(r) + d] = w
      BY <1>1, <3>2, <3>3, <3>4
    <3>. QED BY <3>4, <3>5
  <2>. QED BY <2>3, <2>4
<1>. QED BY <1>1, <1>2, <1>3

-----------------------------------------------------------------------------
(***************************************************************************)
(* The inductive invariant.  Until end() takes the rest, what is still to  *)
(* be pushed is the end of the path, in order, and what comes before has   *)
(* arrived; afterwards the same of the last batch, if the push thread had  *)
(* none left.                                                              *)
(***************************************************************************)
Pushed == captured - Len(unpushed) - Len(teachBatch)

RestInOrder ==
  teachAt \in {"none", "open", "joining"} =>
    /\ Pushed \in Nat /\ Arrived(Pushed)
    /\ RunsFrom(teachBatch, Pushed)
    /\ RunsFrom(unpushed, Pushed + Len(teachBatch))

LastInOrder ==
  ~gaveUp /\ teachAt \in {"taken", "ended"} =>
    /\ teachBatch = <<>> /\ unpushed = <<>>
    /\ teachAt = "taken" =>
         /\ captured - Len(lastBatch) \in Nat /\ Arrived(captured - Len(lastBatch))
         /\ RunsFrom(lastBatch, captured - Len(lastBatch))

ReceivedInOrder ==
  ~gaveUp => EarlierFirst(received) /\ Range(received) \subseteq 1..captured

SavedAtEnd ==
  /\ saved => teachAt = "ended"
  /\ saved /\ ~gaveUp => Arrived(captured)
  /\ gaveUp => teachAt \in {"taken", "ended"}

TeachIInv ==
  TeachTypeOK /\ RestInOrder /\ LastInOrder /\ ReceivedInOrder /\ SavedAtEnd

\* Every step keeps the type of the recording.
LEMMA TeachStepKeepsType ==
  ASSUME TeachTypeOK, TeachNext
  PROVE  TeachTypeOK'
<1>. USE TeachAssumption DEF TeachTypeOK
<1>1. CASE TeachStart \/ EndBegins \/ EndDiscards
  BY <1>1 DEF TeachStart, EndBegins, EndDiscards
<1>2. CASE AddWaypoint
  <2>1. captured + 1 \in Waypoints /\ captured' \in 0..MaxWaypoints
    BY <1>2 DEF AddWaypoint, Waypoints
  <2>. QED BY <1>2, <2>1 DEF AddWaypoint
<1>3. CASE FlushBatch
  BY <1>3 DEF FlushBatch
<1>4. CASE PushAccepted
  BY <1>4 DEF PushAccepted
<1>5. ASSUME NEW arrived \in BOOLEAN, PushRefused(arrived)
      PROVE  TeachTypeOK'
  BY <1>5 DEF PushRefused, Requeued
<1>6. CASE EndTakes
  BY <1>6 DEF EndTakes
<1>7. ASSUME NEW arrived \in BOOLEAN, NEW answered \in BOOLEAN,
             EndSaves(arrived, answered)
      PROVE  TeachTypeOK'
  BY <1>7 DEF EndSaves
<1>. QED BY <1>1, <1>2, <1>3, <1>4, <1>5, <1>6, <1>7 DEF TeachNext

(***************************************************************************)
(* The sequences of a state, as the lemmas above want them.                *)
(***************************************************************************)
LEMMA TeachSequences ==
  ASSUME TeachTypeOK
  PROVE  /\ unpushed \in Seq(Waypoints) /\ teachBatch \in Seq(Waypoints) /\ lastBatch \in Seq(Waypoints)
         /\ received \in Seq(Waypoints) /\ captured \in Nat
         /\ Len(unpushed) \in Nat /\ Len(teachBatch) \in Nat /\ Len(lastBatch) \in Nat
BY TeachAssumption DEF TeachTypeOK

(***************************************************************************)
(* The arrival of a batch that follows what has arrived.                   *)
(***************************************************************************)
LEMMA ArrivalKeepsOrder ==
  ASSUME TeachTypeOK, ReceivedInOrder, ~gaveUp, NEW s \in Seq(Waypoints), NEW p \in Nat,
         p + Len(s) <= captured, RunsFrom(s, p), Arrived(p),
         received' = received \o s
  PROVE  /\ EarlierFirst(received') /\ Range(received') \subseteq 1..captured
         /\ 1..(p + Len(s)) \subseteq Range(received')
<1>1. received \in Seq(Waypoints) /\ captured \in Nat /\ Len(s) \in Nat
  BY TeachSequences
<1>2. EarlierFirst(received')
  BY <1>1, EarlierFirstJoined DEF ReceivedInOrder, Arrived
<1>3. Range(received') = Range(received) \cup ((p + 1)..(p + Len(s)))
  BY <1>1, RangeJoined, RunsRange
<1>4. Range(received') \subseteq 1..captured
  BY <1>1, <1>3 DEF ReceivedInOrder
<1>5. 1..(p + Len(s)) \subseteq Range(received')
  BY <1>1, <1>3 DEF Arrived
<1>. QED BY <1>2, <1>4, <1>5

(***************************************************************************)
(* Every step keeps the order.                                             *)
(***************************************************************************)
TeachOrder == RestInOrder /\ LastInOrder /\ ReceivedInOrder /\ SavedAtEnd

\* Every step keeps the order of what was recorded.
LEMMA TeachStepKeepsOrder ==
  ASSUME TeachIInv, TeachNext
  PROVE  TeachOrder'
<1>. USE DEF TeachIInv, TeachTypeOK, TeachOrder
<1>1. CASE TeachStart \/ EndBegins
  <2>1. /\ teachAt \in {"none", "open"} /\ teachAt' \in {"open", "joining"}
        /\ UNCHANGED <<captured, unpushed, teachBatch, lastBatch, received, saved, gaveUp>>
    BY <1>1 DEF TeachStart, EndBegins
  <2>2. Pushed' = Pushed
    BY <2>1 DEF Pushed
  <2>. QED BY <2>1, <2>2 DEF RestInOrder, LastInOrder, ReceivedInOrder, SavedAtEnd, Arrived
<1>2. CASE AddWaypoint
  <2>1. /\ teachAt = "open" /\ ~gaveUp /\ ~saved /\ captured' = captured + 1
        /\ unpushed' = Append(unpushed, captured + 1)
        /\ UNCHANGED <<teachBatch, teachAt, lastBatch, received, saved, gaveUp>>
    BY <1>2 DEF AddWaypoint, SavedAtEnd
  <2>2. Len(unpushed') = Len(unpushed) + 1 /\ Pushed' = Pushed
    BY <2>1, TeachSequences DEF Pushed
  <2>3. RunsFrom(unpushed', Pushed + Len(teachBatch))
    <3>1. RunsFrom(unpushed, Pushed + Len(teachBatch))
      BY <2>1 DEF RestInOrder
    <3>2. captured + 1 = (Pushed + Len(teachBatch)) + Len(unpushed')
      BY <2>2, TeachSequences DEF Pushed
    <3>3. /\ unpushed'[Len(unpushed')] = captured + 1
          /\ \A k \in 1..Len(unpushed) : unpushed'[k] = unpushed[k]
      BY <2>1, <2>2
    <3>4. Len(unpushed) \in Nat /\ Pushed + Len(teachBatch) \in Int
      BY TeachSequences DEF Pushed
    <3>. HIDE DEF TeachIInv, TeachTypeOK
    <3> SUFFICES ASSUME NEW k \in 1..Len(unpushed')
                 PROVE  unpushed'[k] = (Pushed + Len(teachBatch)) + k
      BY DEF RunsFrom
    <3>5. CASE k = Len(unpushed')
      BY <3>2, <3>3, <3>5
    <3>6. CASE k # Len(unpushed')
      <4>1. k \in 1..Len(unpushed)
        BY <2>2, <3>4, <3>6
      <4>. QED BY <3>1, <3>3, <4>1 DEF RunsFrom
    <3>. QED BY <3>5, <3>6
  <2>4. RestInOrder'
    BY <2>1, <2>2, <2>3 DEF RestInOrder, Arrived
  <2>5. Range(received) \subseteq 1..captured'
    BY <2>1, TeachSequences DEF ReceivedInOrder
  <2>. QED BY <2>1, <2>4, <2>5 DEF LastInOrder, ReceivedInOrder, SavedAtEnd
<1>3. CASE FlushBatch
  <2>1. teachAt \in {"none", "open", "joining"} \/ gaveUp
    BY <1>3 DEF FlushBatch, LastInOrder
  <2>2. /\ teachBatch = <<>> /\ teachBatch' = unpushed /\ unpushed' = <<>>
        /\ Len(<<>>) = 0 /\ UNCHANGED <<captured, teachAt, lastBatch, received, saved, gaveUp>>
    BY <1>3 DEF FlushBatch
  <2>3. Pushed' = Pushed
    BY <2>2, TeachSequences DEF Pushed
  <2>4. RestInOrder'
    BY <2>2, <2>3, TeachSequences DEF RestInOrder, Arrived, RunsFrom
  <2>. QED BY <2>1, <2>2, <2>4 DEF LastInOrder, ReceivedInOrder, SavedAtEnd, Arrived
<1>4. CASE EndTakes
  <2>1. /\ teachAt = "joining" /\ teachAt' = "taken" /\ lastBatch' = unpushed
        /\ unpushed' = <<>> /\ gaveUp' = (teachBatch # <<>>)
        /\ UNCHANGED <<captured, teachBatch, received, saved>> /\ ~gaveUp /\ ~saved
    BY <1>4 DEF EndTakes, SavedAtEnd
  <2>2. CASE teachBatch = <<>>
    <3>1. Pushed = captured - Len(lastBatch') /\ Pushed + Len(teachBatch) = Pushed
      BY <2>1, <2>2, TeachSequences DEF Pushed
    <3>. QED BY <2>1, <2>2, <3>1
         DEF RestInOrder, LastInOrder, ReceivedInOrder, SavedAtEnd, Arrived
  <2>3. CASE teachBatch # <<>>
    BY <2>1, <2>3 DEF RestInOrder, LastInOrder, ReceivedInOrder, SavedAtEnd
  <2>. QED BY <2>2, <2>3
<1>5. CASE EndDiscards
  BY <1>5 DEF EndDiscards, RestInOrder, LastInOrder, ReceivedInOrder, SavedAtEnd, Arrived
<1>6. ASSUME NEW arrived \in BOOLEAN, NEW answered \in BOOLEAN,
             EndSaves(arrived, answered)
      PROVE  TeachOrder'
  <2>1. /\ teachAt = "taken" /\ teachAt' = "ended" /\ saved' = answered
        /\ answered => arrived
        /\ UNCHANGED <<captured, unpushed, teachBatch, lastBatch, gaveUp>>
        /\ received' = IF arrived THEN received \o lastBatch ELSE received
    BY <1>6 DEF EndSaves
  <2>2. CASE gaveUp
    BY <2>1, <2>2 DEF RestInOrder, LastInOrder, ReceivedInOrder, SavedAtEnd
  <2>3. CASE ~gaveUp /\ ~arrived
    BY <2>1, <2>3 DEF RestInOrder, LastInOrder, ReceivedInOrder, SavedAtEnd
  <2>4. CASE ~gaveUp /\ arrived
    <3>. DEFINE p == captured - Len(lastBatch)
    <3>1. /\ p \in Nat /\ p + Len(lastBatch) = captured /\ Arrived(p)
          /\ RunsFrom(lastBatch, p)
      BY <2>1, <2>4, TeachSequences DEF LastInOrder
    <3>2. lastBatch \in Seq(Waypoints) /\ received' = received \o lastBatch
      BY <2>1, <2>4, TeachSequences
    <3>3. captured <= captured
      BY TeachSequences
    <3>. HIDE DEF p
    <3>4. /\ EarlierFirst(received') /\ Range(received') \subseteq 1..captured
          /\ 1..(p + Len(lastBatch)) \subseteq Range(received')
      BY <2>4, <3>1, <3>2, <3>3, ArrivalKeepsOrder
    <3>5. Arrived(captured)'
      BY <2>1, <3>1, <3>4 DEF Arrived
    <3>. QED BY <2>1, <2>4, <3>4, <3>5
         DEF RestInOrder, LastInOrder, ReceivedInOrder, SavedAtEnd
  <2>. QED BY <2>2, <2>3, <2>4
<1>7. CASE PushAccepted \/ \E arrived \in BOOLEAN : PushRefused(arrived)
  <2>. DEFINE p == Pushed
              b == teachBatch
  <2>1. /\ b # <<>> /\ teachBatch' = <<>> /\ Len(<<>>) = 0
        /\ UNCHANGED <<captured, teachAt, lastBatch, saved, gaveUp>>
    BY <1>7 DEF PushAccepted, PushRefused
  <2>2. \/ received' = received \o b /\ unpushed' = unpushed
        \/ received' \in {received, received \o b} /\ unpushed' = b \o unpushed
    BY <1>7 DEF PushAccepted, PushRefused, Requeued
  <2>3. CASE gaveUp
    <3>1. teachAt \in {"taken", "ended"}
      BY <2>3 DEF SavedAtEnd
    <3>. QED BY <2>1, <2>3, <3>1 DEF RestInOrder, LastInOrder, ReceivedInOrder, SavedAtEnd
  <2>4. CASE ~gaveUp
    <3>1. teachAt \in {"none", "open", "joining"}
      BY <2>1, <2>4 DEF LastInOrder
    <3>2. /\ p \in Nat /\ Arrived(p) /\ RunsFrom(b, p) /\ RunsFrom(unpushed, p + Len(b))
      BY <3>1 DEF RestInOrder
    <3>3. /\ b \in Seq(Waypoints) /\ unpushed \in Seq(Waypoints) /\ captured \in Nat
          /\ Len(b) \in Nat /\ Len(unpushed) \in Nat
          /\ captured = (p + Len(b)) + Len(unpushed)
      BY TeachSequences DEF Pushed
    <3>4. p + Len(b) <= captured
      BY <3>2, <3>3
    <3>5. ASSUME received' = received \o b
          PROVE  /\ EarlierFirst(received') /\ Range(received') \subseteq 1..captured
                 /\ 1..(p + Len(b)) \subseteq Range(received')
      <4>. HIDE DEF p, b
      <4>. QED BY <2>4, <3>2, <3>3, <3>4, <3>5, ArrivalKeepsOrder
    <3>6. 1..p \subseteq Range(received')
      <4>1. CASE received' = received
        BY <3>2, <4>1 DEF Arrived
      <4>2. CASE received' = received \o b
        BY <3>2, <3>3, <3>5, <4>2
      <4>. QED BY <2>2, <4>1, <4>2
    <3>7. ReceivedInOrder'
      BY <2>1, <2>2, <3>5 DEF ReceivedInOrder
    <3>8. RestInOrder'
      <4>1. CASE unpushed' = unpushed /\ received' = received \o b
        <5>1. Pushed' = p + Len(b)
          BY <2>1, <3>3, <4>1 DEF Pushed
        <5>2. RunsFrom(teachBatch', p + Len(b)) /\ (p + Len(b)) + Len(teachBatch') = p + Len(b)
          BY <2>1, <3>2, <3>3 DEF RunsFrom
        <5>3. p + Len(b) \in Nat
          BY <3>2, <3>3
        <5>. QED BY <3>2, <3>5, <4>1, <5>1, <5>2, <5>3 DEF RestInOrder, Arrived
      <4>2. CASE unpushed' = b \o unpushed
        <5>1. Len(unpushed') = Len(b) + Len(unpushed)
          BY <3>3, <4>2, ConcatProperties
        <5>2. Pushed' = p /\ p + Len(teachBatch') = p
          BY <2>1, <3>2, <3>3, <5>1 DEF Pushed
        <5>3. RunsFrom(unpushed', p)
          BY <3>2, <3>3, <4>2, RunsJoined
        <5>4. RunsFrom(teachBatch', p)
          BY <2>1 DEF RunsFrom
        <5>. QED BY <3>2, <3>6, <5>2, <5>3, <5>4 DEF RestInOrder, Arrived
      <4>. QED BY <2>2, <4>1, <4>2
    <3>9. LastInOrder' /\ SavedAtEnd'
      BY <2>1, <2>4, <3>1 DEF LastInOrder, SavedAtEnd
    <3>. QED BY <3>7, <3>8, <3>9
  <2>. QED BY <2>3, <2>4
<1>. QED BY <1>1, <1>2, <1>3, <1>4, <1>5, <1>6, <1>7 DEF TeachNext

(***************************************************************************)
(* The invariant holds, for any bound on the waypoints.                    *)
(***************************************************************************)
THEOREM TeachInvariant == TeachSpec => []TeachIInv
<1>1. TeachInit => TeachIInv
  <2> SUFFICES ASSUME TeachInit PROVE TeachIInv
    OBVIOUS
  <2>1. TeachTypeOK
    <3>1. <<>> \in Seq(Waypoints) /\ 0 \in 0..MaxWaypoints
      BY TeachAssumption
    <3>. QED BY <3>1, Zenon DEF TeachInit, TeachTypeOK
  <2>2. Pushed = 0 /\ 1..0 = {}
    <3>1. Len(<<>>) = 0
      OBVIOUS
    <3>2. captured = 0 /\ Len(unpushed) = 0 /\ Len(teachBatch) = 0
      BY <3>1, Zenon DEF TeachInit
    <3>3. Pushed = 0
      BY <3>2 DEF Pushed
    <3>4. 1..0 = {}
      OBVIOUS
    <3>. QED BY <3>3, <3>4
  <2>3. RestInOrder
    BY <2>2 DEF TeachInit, RestInOrder, Arrived, RunsFrom
  <2>4. Range(received) = {} /\ EarlierFirst(received)
    BY DEF TeachInit, Range, EarlierFirst
  <2>. QED BY <2>1, <2>3, <2>4 DEF TeachIInv, TeachInit, LastInOrder, ReceivedInOrder, SavedAtEnd
<1>2. TeachIInv /\ [TeachNext]_teachVars => TeachIInv'
  <2> SUFFICES ASSUME TeachIInv, [TeachNext]_teachVars PROVE TeachIInv'
    OBVIOUS
  <2>1. CASE TeachNext
    BY <2>1, TeachStepKeepsType, TeachStepKeepsOrder DEF TeachIInv, TeachOrder
  <2>2. CASE UNCHANGED teachVars
    BY <2>2 DEF teachVars, TeachIInv, TeachTypeOK, RestInOrder, LastInOrder,
                ReceivedInOrder, SavedAtEnd, Pushed, Arrived
  <2>. QED BY <2>1, <2>2
<1>. QED BY <1>1, <1>2, PTL DEF TeachSpec

(***************************************************************************)
(* The property of autonomy/teach_mode.py: whatever is lost, refused or    *)
(* sent again, the server has the path as it was driven, unless end() gave *)
(* the push thread up.                                                     *)
(***************************************************************************)
THEOREM PathTheorem == TeachSpec => []PathIsFaithful
<1>1. TeachIInv => PathIsFaithful
  <2> SUFFICES ASSUME TeachIInv, ~gaveUp
               PROVE  InOrder(received) /\ (saved => Range(received) = 1..captured)
    BY DEF PathIsFaithful
  <2>1. EarlierFirst(received) /\ Range(received) \subseteq 1..captured
    BY DEF TeachIInv, ReceivedInOrder
  <2>2. \A i \in 1..Len(received) : received[i] \in Nat \ {0}
    <3>1. \A i \in 1..Len(received) : received[i] \in Waypoints
      BY DEF TeachIInv, TeachTypeOK
    <3>. QED BY <3>1, TeachAssumption DEF Waypoints
  <2>3. InOrder(received)
    <3> SUFFICES ASSUME NEW i \in 1..Len(received), NEW j \in 1..Len(received),
                        i < j, received[i] > received[j]
                 PROVE  \E k \in 1..(i - 1) : received[k] = received[j]
      BY DEF InOrder
    <3>1. received[j] \in 1..(received[i] - 1)
      BY <2>2
    <3>. QED BY <2>1, <3>1 DEF EarlierFirst
  <2>4. saved => Range(received) = 1..captured
    BY <2>1 DEF TeachIInv, SavedAtEnd, Arrived
  <2>. QED BY <2>3, <2>4
<1>. QED BY <1>1, TeachInvariant, PTL
=============================================================================
