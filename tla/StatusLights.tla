---------------------------- MODULE StatusLights ----------------------------
(***************************************************************************)
(* hardware/lights.py and pico/firmware/led_control.py: an indication is   *)
(* two lines to the Pico, one for the strip and one for the amber beacon,  *)
(* which the Pi sends as a pattern called "beacon".  The firmware renders  *)
(* both on the one strip, and knows neither that pattern nor the names     *)
(* lights.py gives its own.  Animation steps are left out: LEDController   *)
(* has update() for them, which the firmware never calls.                  *)
(***************************************************************************)
EXTENDS Naturals, Sequences

CONSTANT MaxLedWire        \* bound on the lines under way

ASSUME LightsAssumption == MaxLedWire \in Nat

SolidIndications == {"mowing", "manual", "idle", "off"}
PatternOf == [obstacle |-> "obstacle_flash", fault |-> "fault_flash",
              estop |-> "estop_flash", returning |-> "return_cycle",
              docking |-> "dock_pulse"]
Indications == SolidIndications \cup DOMAIN PatternOf

\* Those mow_session.py and return_home.py ask for; nobody asks for the others.
Asked == {"mowing", "obstacle", "returning", "docking"}

Solid(i) == [kind |-> "solid", show |-> i]
Pattern(p) == [kind |-> "pattern", show |-> p]
LedLine == [kind : {"solid"}, show : SolidIndications] \cup
           [kind : {"pattern"}, show : {PatternOf[i] : i \in DOMAIN PatternOf} \cup {"beacon"}]

VARIABLES
  piUp,                    \* the control process runs
  indicated,               \* LightManager._current_pattern
  ledTodo,                 \* lines of the indication not yet sent
  ledWire,                 \* lines sent and not yet dispatched
  strip,                   \* what the strip shows: "dark", "BOOT", "ESTOP", or
                           \* the colour of an indication
  ledLost                  \* history: a line of this process was lost

lightsVars == <<piUp, indicated, ledTodo, ledWire, strip, ledLost>>

LightsTypeOK ==
  /\ piUp \in BOOLEAN /\ indicated \in Indications
  /\ ledTodo \in Seq(LedLine) /\ ledWire \in Seq(LedLine)
  /\ strip \in {"dark", "BOOT", "ESTOP"} \cup Indications
  /\ ledLost \in BOOLEAN

\* The firmware's main() shows BOOT.
LightsInit ==
  /\ piUp = TRUE /\ indicated = "idle" /\ ledTodo = <<>> /\ ledWire = <<>>
  /\ strip = "BOOT" /\ ledLost = FALSE

\* indicate_*() and all_off().
Indication(i) ==
  <<IF i \in SolidIndications THEN Solid(i) ELSE Pattern(PatternOf[i]),
    Pattern("beacon")>>

Indicate(i) ==
  /\ piUp /\ ledTodo = <<>>
  /\ ledTodo' = Indication(i) /\ indicated' = i
  /\ UNCHANGED <<piUp, ledWire, strip, ledLost>>

LedSend ==
  /\ ledTodo # <<>> /\ ledTodo' = Tail(ledTodo)
  /\ \/ Len(ledWire) < MaxLedWire
        /\ ledWire' = Append(ledWire, Head(ledTodo)) /\ UNCHANGED ledLost
     \/ ledLost' = TRUE /\ UNCHANGED ledWire
  /\ UNCHANGED <<piUp, indicated, strip>>

\* Mutant of Rendered: a pattern the firmware does not know changes nothing.
RenderedIfKnown(line, was) == IF line.kind = "solid" THEN line.show ELSE was

\* set_solid(), and set_pattern() with _render(): of the names lights.py sends
\* the firmware knows none, and renders an unknown one as off.
Rendered(line, was) ==
  IF line.kind = "solid" /\ line.show # "off" THEN line.show ELSE "dark"

LedDispatched ==
  /\ ledWire # <<>> /\ ledWire' = Tail(ledWire)
  /\ strip' = Rendered(Head(ledWire), strip)
  /\ UNCHANGED <<piUp, indicated, ledTodo, ledLost>>

\* The firmware's own stop, on a command or on its watchdog.
FwShowsStop ==
  strip' = "ESTOP" /\ UNCHANGED <<piUp, indicated, ledTodo, ledWire, ledLost>>

LightsDie ==
  /\ piUp /\ piUp' = FALSE
  /\ ledTodo' = <<>>
  /\ UNCHANGED <<indicated, ledWire, strip, ledLost>>

\* Restarted five seconds later, after the lines have arrived and the firmware's
\* watchdog has tripped.
LightsRestart ==
  /\ ~piUp /\ ledWire = <<>> /\ strip = "ESTOP"
  /\ piUp' = TRUE /\ indicated' = "idle" /\ ledLost' = FALSE
  /\ UNCHANGED <<ledTodo, ledWire, strip>>

LightsNext ==
  \/ \E i \in Asked : Indicate(i)
  \/ LedSend \/ LedDispatched \/ FwShowsStop \/ LightsDie \/ LightsRestart

LightsSpec == LightsInit /\ [][LightsNext]_lightsVars

-----------------------------------------------------------------------------
\* With nothing under way and nothing lost the strip never shows a status the
\* unit has left: it is dark, or shows the firmware's own stop or start, or what
\* LightManager indicates (led_control.py:174, the pattern it does not know).
NoStaleLights ==
  piUp /\ ledTodo = <<>> /\ ledWire = <<>> /\ ~ledLost =>
    strip \in {"dark", "BOOT", "ESTOP", indicated}
=============================================================================
