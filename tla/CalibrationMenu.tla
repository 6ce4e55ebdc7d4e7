--------------------------- MODULE CalibrationMenu ---------------------------
(***************************************************************************)
(* calibration/display_menu.py with the parts of hardware/display.py it    *)
(* drives: the touch reader thread runs the buttons' handlers, some other  *)
(* thread may call enter() and exit(), and each flow runs in a thread of   *)
(* its own.  All of them write the state of the menu, the page shown, the  *)
(* handlers wired and the cancel flag without a lock, one after the other: *)
(* a routine is the sequence of what it writes, and one write is one step. *)
(***************************************************************************)
EXTENDS Integers, Sequences, FiniteSets

CONSTANTS
  MaxFlows,                \* bound of a run: flows running at once
  MaxAtOnce,               \* bound of a run: threads at work when a call begins
  MaxCameras               \* bound of a run: cameras of the unit

\* CAMERA_NAMES has five: there is a camera to begin with.
ASSUME CalibrationAssumption ==
  MaxFlows \in Nat /\ MaxAtOnce \in Nat /\ MaxCameras \in Nat \ {0}

Flows == 1..MaxFlows
Toucher == 0                         \* the touch reader thread
Visitor == -1                        \* the other caller of enter() and exit()
CalThreads == Flows \cup {Toucher, Visitor}

VARIABLES
  calState,                \* _state
  page,                    \* page the Nextion shows
  touch,                   \* buttons with a handler
  calCancelled,            \* _cancel_flag
  calFlow,                 \* flow |-> its kind, where it is and its camera
  calTodo,                 \* thread |-> what its routine has still to write
  calCrossed               \* history: since an enter(), exit() or return to the
                           \* menu last began alone, a routine began beside
                           \* another or beside a flow, or a flow died

calVars == <<calState, page, touch, calCancelled, calFlow, calTodo, calCrossed>>

CalStates == {"IDLE", "MAIN_MENU", "SELECT_CAMERA", "COLLECTING",
              "AUTO_EXTRINSIC", "STATUS", "EXITING"}
Pages == {"main", "menu", "progress"}
Buttons == {"flows", "exit", "cancel"}         \* INTRINSIC, AUTO and STATUS as one
Kinds == {"intrinsic", "auto", "status"}
Stages == {"begin", "camera", "collect", "compute", "show", "linger", "over"}
Writes == CalStates \cup Pages \cup Buttons \cup Kinds
            \cup {"clear", "raise", "lower", "check", "wait"}

NoFlow == [kind |-> "status", at |-> "over", cam |-> 0]

\* A thread is at work while it has something to write, or is a flow not over.
AtWork(t) == calTodo[t] # <<>> \/ (t \in Flows /\ calFlow[t].at # "over")
Running == {f \in Flows : AtWork(f)}

CalTypeOK ==
  /\ calState \in CalStates /\ page \in Pages /\ touch \subseteq Buttons
  /\ calCancelled \in BOOLEAN /\ calCrossed \in BOOLEAN
  /\ calFlow \in [Flows -> [kind : Kinds, at : Stages, cam : 0..(MaxCameras + 1)]]
  /\ calTodo \in [CalThreads -> Seq(Writes)]

CalInit ==
  /\ calState = "IDLE" /\ page = "main" /\ touch = {}
  /\ calCancelled = FALSE /\ calCrossed = FALSE
  /\ calFlow = [f \in Flows |-> NoFlow]
  /\ calTodo = [t \in CalThreads |-> <<>>]

-----------------------------------------------------------------------------
(* The routines, as what they write: a state, a page, a handler, "clear"   *)
(* for all handlers, "raise" or "lower" the cancel flag; "check" reads the *)
(* state, "wait" is a sleep, and a kind starts a flow.                     *)

EnterSteps == <<"lower", "clear", "flows", "exit", "menu", "MAIN_MENU">>
ReturnSteps == <<"MAIN_MENU", "clear", "flows", "exit", "menu">>

\* Mutant of ExitSteps: the page is left with its handlers wired.
ExitKeepsHandlers == <<"raise", "EXITING", "main", "IDLE">>

ExitSteps == <<"raise", "EXITING", "clear", "main", "IDLE">>

\* _on_intrinsic, _on_auto_extrinsic, the same with no survey loaded (a message
\* for four seconds, then _return_to_menu), and _on_status, which leaves the
\* cancel flag as it was.
IntrinsicSteps == <<"check", "SELECT_CAMERA", "lower", "clear", "cancel", "intrinsic">>
AutoSteps == <<"check", "AUTO_EXTRINSIC", "lower", "clear", "cancel", "auto">>
UnavailableSteps ==
  <<"check", "progress", "wait", "MAIN_MENU", "clear", "flows", "exit", "menu">>
StatusSteps == <<"check", "STATUS", "clear", "cancel", "status">>

OthersActive(t) == \E u \in CalThreads \ {t} : AtWork(u)
Begin(t, steps) ==
  /\ calTodo[t] = <<>> /\ calTodo' = [calTodo EXCEPT ![t] = steps]
  /\ t \notin Flows => Cardinality({u \in CalThreads : AtWork(u)}) < MaxAtOnce

\* enter(), refused while a flow has the state.
CalEnter ==
  /\ Begin(Visitor, EnterSteps) /\ calState \in {"IDLE", "STATUS"}
  /\ calCrossed' = OthersActive(Visitor)
  /\ UNCHANGED <<calState, page, touch, calCancelled, calFlow>>

\* _dispatch_touch: a button of the page shown, if it has a handler.
Touched(button) ==
  /\ button \in touch
  /\ page = IF button = "cancel" THEN "progress" ELSE "menu"

\* exit(), by the button or a call.
CalExit ==
  /\ \E t \in {Toucher, Visitor} : /\ Begin(t, ExitSteps)
                                   /\ t = Toucher => Touched("exit")
                                   /\ calCrossed' = OthersActive(t)
  /\ UNCHANGED <<calState, page, touch, calCancelled, calFlow>>

OnFlowButton ==
  /\ Touched("flows")
  /\ \E steps \in {IntrinsicSteps, AutoSteps, UnavailableSteps, StatusSteps} :
       Begin(Toucher, steps)
  /\ calCrossed' = (calCrossed \/ OthersActive(Toucher))
  /\ UNCHANGED <<calState, page, touch, calCancelled, calFlow>>

OnCancel ==
  /\ Touched("cancel") /\ calTodo[Toucher] = <<>>
  /\ calCancelled' = TRUE
  /\ UNCHANGED <<calState, page, touch, calFlow, calTodo, calCrossed>>

StartFlow(kind) ==
  \E f \in Flows :
    /\ ~AtWork(f) /\ 1..(f - 1) \subseteq Running
    /\ calFlow' = [calFlow EXCEPT ![f] = [kind |-> kind, at |-> "begin", cam |-> 1]]

Written(w) ==
  /\ calState' = IF w \in CalStates THEN w ELSE calState
  /\ page' = IF w \in Pages THEN w ELSE page
  /\ touch' = IF w = "clear" THEN {} ELSE touch \cup ({w} \cap Buttons)
  /\ calCancelled' = IF w \in {"raise", "lower"} THEN w = "raise" ELSE calCancelled
  /\ IF w \in Kinds THEN StartFlow(w) ELSE UNCHANGED calFlow

\* The next write of a routine; a handler goes no further in another state.
RoutineGoesOn(t) ==
  /\ calTodo[t] # <<>>
  /\ Written(Head(calTodo[t]))
  /\ calTodo' = [calTodo EXCEPT ![t] =
                   IF Head(@) = "check" /\ calState # "MAIN_MENU" THEN <<>> ELSE Tail(@)]
  /\ UNCHANGED calCrossed

-----------------------------------------------------------------------------
(* The flows.  show_cal_progress switches the page; show_cal_result writes *)
(* on it wherever it is.  A test of the cancel flag and what a flow writes *)
(* on it are one step: whatever came between them has begun beside a flow, *)
(* and counts as crossed until that flow, or another routine, mends it.    *)

ProgressShown == page' = "progress"

FlowIs(f, kind, stages) == calFlow[f].kind = kind /\ calFlow[f].at \in stages
FlowGoes(f, at, cam) == calFlow' = [calFlow EXCEPT ![f].at = at, ![f].cam = cam]

\* _run_intrinsic: the head of the loop over the cameras.
IntrinsicCamera(f) ==
  /\ FlowIs(f, "intrinsic", {"begin", "camera"})
  /\ IF calCancelled \/ calFlow[f].cam > MaxCameras
       THEN FlowGoes(f, "linger", 0) /\ UNCHANGED <<calState, page>>
       ELSE FlowGoes(f, "collect", calFlow[f].cam) /\ calState' = "COLLECTING" /\ ProgressShown
  /\ UNCHANGED <<touch, calCancelled, calTodo, calCrossed>>

\* Samples until there are enough or the operator cancels; each shows the page.
IntrinsicCollects(f) ==
  /\ FlowIs(f, "intrinsic", {"collect"})
  /\ \/ calCancelled /\ FlowGoes(f, "linger", 0) /\ UNCHANGED page
     \/ ~calCancelled /\ FlowGoes(f, "compute", calFlow[f].cam) /\ ProgressShown
     \/ ~calCancelled /\ page # "progress" /\ ProgressShown /\ UNCHANGED calFlow
  /\ UNCHANGED <<calState, touch, calCancelled, calTodo, calCrossed>>

\* calibrate() and save_intrinsic(), or the error a calibration ends with: the
\* result is shown on whatever page there is, and the next camera is due.
IntrinsicSaves(f) ==
  /\ FlowIs(f, "intrinsic", {"compute"})
  /\ FlowGoes(f, "camera", calFlow[f].cam + 1)
  /\ UNCHANGED <<calState, page, touch, calCancelled, calTodo, calCrossed>>

\* _run_auto_extrinsic up to the position: no provider or a failed read ends it
\* after the message, a cancel at once.
AutoLocates(f) ==
  /\ FlowIs(f, "auto", {"begin"})
  /\ ProgressShown
  /\ \/ FlowGoes(f, "linger", 0)
     \/ ~calCancelled /\ FlowGoes(f, "compute", 0)
  /\ UNCHANGED <<calState, touch, calCancelled, calTodo, calCrossed>>

\* calibrate_all(), which no cancel interrupts; success shows the page again.
AutoComputes(f) ==
  /\ FlowIs(f, "auto", {"compute"})
  /\ page' \in {page, "progress"}
  /\ FlowGoes(f, "linger", 0)
  /\ UNCHANGED <<calState, touch, calCancelled, calTodo, calCrossed>>

\* The status worker: each camera in turn, then the ground plane; a set cancel
\* flag skips the cameras.
StatusShows(f) ==
  LET cam == calFlow[f].cam IN
  /\ FlowIs(f, "status", {"begin", "show"})
  /\ ProgressShown
  /\ IF calCancelled \/ cam > MaxCameras
       THEN FlowGoes(f, "linger", 0) ELSE FlowGoes(f, "show", cam + 1)
  /\ UNCHANGED <<calState, touch, calCancelled, calTodo, calCrossed>>

\* An exception no flow catches ends its thread where it is: _samples, which the
\* calibrator does not have (line 224), or a capture; load_intrinsic (line 348).
FlowDies(f) ==
  /\ \/ FlowIs(f, "intrinsic", {"collect"})
     \/ FlowIs(f, "status", {"begin", "show"}) /\ calFlow[f].cam <= MaxCameras
  /\ ~calCancelled
  /\ FlowGoes(f, "over", 0)
  /\ calCrossed' = TRUE
  /\ UNCHANGED <<calState, page, touch, calCancelled, calTodo>>

\* _return_to_menu begins, in the thread of the flow.
FlowReturns(f) ==
  /\ calFlow[f].at = "linger"
  /\ Begin(f, ReturnSteps) /\ FlowGoes(f, "over", 0)
  /\ calCrossed' = OthersActive(f)
  /\ UNCHANGED <<calState, page, touch, calCancelled>>

FlowStep(f) ==
  \/ IntrinsicCamera(f) \/ IntrinsicCollects(f) \/ IntrinsicSaves(f)
  \/ AutoLocates(f) \/ AutoComputes(f) \/ StatusShows(f)
  \/ FlowDies(f) \/ FlowReturns(f)

CalNext ==
  \/ CalEnter \/ CalExit \/ OnFlowButton \/ OnCancel
  \/ \E t \in CalThreads : RoutineGoesOn(t)
  \/ \E f \in Flows : FlowStep(f)

CalSpec == CalInit /\ [][CalNext]_calVars

-----------------------------------------------------------------------------
MenuFits == calState = "MAIN_MENU" /\ page = "menu" /\ touch = {"flows", "exit"}
MainFits == calState = "IDLE" /\ page = "main" /\ touch = {}

(***************************************************************************)
(* As long as nothing crossed and no flow died: once no thread of the menu *)
(* is at work, the page shown, the handlers wired and the state belong     *)
(* together, so that the operator is not on a page whose buttons do        *)
(* nothing; and one flow runs at a time, with CANCEL wired whenever its    *)
(* page is shown: the state is the only lock there is.  A flow outlives an *)
(* exit() by seconds and brings the menu back, which mends what was        *)
(* crossed, since each routine writes state, handlers and page.            *)
(***************************************************************************)
MenuWorks ==
  ~calCrossed =>
    /\ (\A t \in CalThreads : ~AtWork(t)) => MenuFits \/ MainFits
    /\ Cardinality(Running) <= 1
    /\ \A f \in Running :
         calFlow[f].at # "over" /\ page = "progress" => touch = {"cancel"}
=============================================================================
