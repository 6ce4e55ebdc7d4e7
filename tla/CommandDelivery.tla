-------------------------- MODULE CommandDelivery --------------------------
(***************************************************************************)
(* A command's way from the server to the report of its outcome:           *)
(* connectivity/command_stream.py acknowledges and queues it, the main     *)
(* loop of core/main.py runs it and reports, over the HTTP client of       *)
(* connectivity/api_client.py, whose calls are lost or repeated.  Of the   *)
(* commands, those that open and end the server's mowing sessions.  The    *)
(* process may die at any step.                                            *)
(*                                                                         *)
(* The server is external: a command is handed out while it is pending.    *)
(***************************************************************************)
EXTENDS Naturals, SequencesExt

CONSTANTS
  NumCommands,             \* bound on the commands the server issues
  MaxDelivered,            \* bound on the answers that carry a command
  MaxSessions,             \* bound on the server's sessions
  MaxDeaths                \* bound on the deaths of the process

ASSUME DeliveryAssumption ==
  /\ NumCommands \in Nat /\ MaxDelivered \in Nat /\ MaxSessions \in Nat
  /\ MaxDeaths \in Nat

CommandIds == 1..NumCommands
Actions == {"mow_start", "mow_stop", "return_home", "estop"}

VARIABLES
  action,                  \* the action of each command issued
  status,                  \* the server's record of it
  held,                    \* the command in the stream thread's hands, or 0
  delivered,               \* answers that carried a command so far
  streamQueue,             \* CommandStream.queue
  running,                 \* the command the main thread is running, or 0
  runAt,                   \* where it is
  mow,                     \* MowSession._state
  currentSession,          \* _current_session_id, or 0
  sessions,                \* the server's open sessions
  opened,                  \* sessions the server has opened: 1..opened
  deaths,
  ran,                     \* history: how often each command was run
  ackLost,                 \* history: commands whose acknowledgement was lost
  sessionHistory           \* history: "repeated" start, "lost" or repeated call

deliveryVars == <<action, status, held, delivered, streamQueue, running, runAt,
                  mow, currentSession, sessions, opened, deaths, ran, ackLost,
                  sessionHistory>>

Statuses == {"unissued", "pending", "acked", "completed", "failed"}

DeliveryTypeOK ==
  /\ action \in [CommandIds -> Actions \cup {"none"}]
  /\ status \in [CommandIds -> Statuses]
  /\ held \in 0..NumCommands /\ delivered \in 0..MaxDelivered
  /\ streamQueue \in Seq(CommandIds)
  /\ running \in 0..NumCommands
  /\ runAt \in {"idle", "begin", "open", "start", "end", "completed", "failed"}
  /\ mow \in {"idle", "mowing", "over"}
  /\ currentSession \in 0..MaxSessions /\ sessions \in SUBSET (1..MaxSessions)
  /\ opened \in 0..MaxSessions /\ deaths \in 0..MaxDeaths
  /\ ran \in [CommandIds -> 0..MaxDelivered]
  /\ ackLost \in SUBSET CommandIds
  /\ sessionHistory \in SUBSET {"repeated", "lost"}

DeliveryInit ==
  /\ action = [i \in CommandIds |-> "none"]
  /\ status = [i \in CommandIds |-> "unissued"]
  /\ held = 0 /\ delivered = 0 /\ streamQueue = <<>> /\ running = 0
  /\ runAt = "idle" /\ mow = "idle" /\ currentSession = 0 /\ sessions = {}
  /\ opened = 0 /\ deaths = 0 /\ ran = [i \in CommandIds |-> 0]
  /\ ackLost = {} /\ sessionHistory = {}

serverVars == <<action, status, delivered>>
sessionVars == <<mow, currentSession, sessions, opened, sessionHistory>>

-----------------------------------------------------------------------------
(* The server and the stream thread.                                       *)

Issue(i, a) ==
  /\ status[i] = "unissued" /\ \A j \in 1..(i - 1) : status[j] # "unissued"
  /\ action' = [action EXCEPT ![i] = a]
  /\ status' = [status EXCEPT ![i] = "pending"]
  /\ UNCHANGED <<held, delivered, streamQueue, running, runAt, sessionVars, deaths,
                 ran, ackLost>>

\* A poll is answered with a command that is still pending.
ReceiveCommand(i) ==
  /\ held = 0 /\ status[i] = "pending" /\ delivered < MaxDelivered
  /\ held' = i /\ delivered' = delivered + 1
  /\ UNCHANGED <<action, status, streamQueue, running, runAt, sessionVars, deaths,
                 ran, ackLost>>

\* _post(): a POST is sent again when its answer is one of the errors the session
\* retries, so it may have its effect twice; without an answer, or with an error
\* for one, the caller does not know whether it had any.
Resent == 0..2

PostOutcomes == {o \in [effects : Resent, answered : BOOLEAN] :
                   o.answered => o.effects > 0}

\* _safe_post(): whether a call that may be repeated without harm took effect.
Arrivals == {o.effects > 0 : o \in PostOutcomes}

Record(i, s) ==
  status' = [status EXCEPT ![i] = IF @ \in {"completed", "failed"} THEN @ ELSE s]

\* Mutant of AckAndQueue: a command whose acknowledgement failed is not queued,
\* though the server may have recorded it.
AckThenQueueIfAcked(arrived, answered) ==
  /\ held # 0 /\ held' = 0
  /\ IF arrived THEN Record(held, "acked") /\ UNCHANGED ackLost
     ELSE ackLost' = ackLost \cup {held} /\ UNCHANGED status
  /\ streamQueue' = IF answered THEN Append(streamQueue, held) ELSE streamQueue
  /\ UNCHANGED <<action, delivered, running, runAt, sessionVars, deaths, ran>>

\* _handle_command: the acknowledgement arrives or not, and is answered or not;
\* the command is queued in every case.
AckAndQueue(arrived, answered) ==
  /\ held # 0 /\ held' = 0
  /\ IF arrived THEN Record(held, "acked") /\ UNCHANGED ackLost
     ELSE ackLost' = ackLost \cup {held} /\ UNCHANGED status
  /\ streamQueue' = Append(streamQueue, held)
  /\ UNCHANGED <<action, delivered, running, runAt, sessionVars, deaths, ran>>

-----------------------------------------------------------------------------
(* _drain_command_queue, _dispatch and the handlers.                       *)

\* Mutant of TakeQueued: the command stays in the queue until it is reported.
PeekQueued ==
  /\ running = 0 /\ streamQueue # <<>>
  /\ running' = Head(streamQueue) /\ runAt' = "begin"
  /\ ran' = [ran EXCEPT ![Head(streamQueue)] = @ + 1]
  /\ UNCHANGED <<serverVars, held, streamQueue, sessionVars, deaths, ackLost>>

TakeQueued ==
  /\ running = 0 /\ streamQueue # <<>>
  /\ running' = Head(streamQueue) /\ streamQueue' = Tail(streamQueue)
  /\ runAt' = "begin"
  /\ ran' = [ran EXCEPT ![Head(streamQueue)] = @ + 1]
  /\ UNCHANGED <<serverVars, held, sessionVars, deaths, ackLost>>

Runs(a) == running # 0 /\ action[running] = a

Goes(from, to) ==
  /\ runAt = from /\ runAt' = to
  /\ UNCHANGED <<serverVars, held, streamQueue, running, deaths, ran, ackLost>>

\* request_auto() refuses, which fails the command, or enters AUTO.
StartAsksAuto ==
  /\ Runs("mow_start")
  /\ \E to \in {"open", "failed"} : Goes("begin", to)
  /\ UNCHANGED sessionVars

\* session_start: a session is opened as often as the call has effect; without an
\* answer the id is None.
StartOpensSession(n, answered) ==
  /\ Goes("open", "start")
  /\ opened + n <= MaxSessions
  /\ opened' = opened + n
  /\ sessions' = sessions \cup ((opened + 1)..(opened + n))
  /\ currentSession' = IF answered THEN opened + n ELSE 0
  /\ sessionHistory' = sessionHistory
       \cup (IF currentSession # 0 THEN {"repeated"} ELSE {})
       \cup (IF n = 2 \/ (n = 1 /\ ~answered) THEN {"lost"} ELSE {})
  /\ UNCHANGED mow

\* MowSession.start(): refused unless IDLE; its result is not looked at.
StartBeginsMowing ==
  /\ Goes("start", "completed")
  /\ mow' = IF mow = "idle" THEN "mowing" ELSE mow
  /\ UNCHANGED <<currentSession, sessions, opened, sessionHistory>>

\* mow_stop aborts, estop does not; return_home completes, and ends the server's
\* session only with the mowing.
OthersStopMowing ==
  /\ \/ Runs("mow_stop") /\ Goes("begin", "end")
        /\ mow' = IF mow = "mowing" THEN "over" ELSE mow
     \/ Runs("return_home") /\ mow = "mowing" /\ Goes("begin", "end")
        /\ mow' = "over"
     \/ Runs("return_home") /\ mow # "mowing" /\ Goes("begin", "completed")
        /\ UNCHANGED mow
     \/ Runs("estop") /\ Goes("begin", "end") /\ UNCHANGED mow
  /\ UNCHANGED <<currentSession, sessions, opened, sessionHistory>>

\* Mutant of EndSession: the server is told only while the unit is mowing.
EndSessionIfMowing(arrived) ==
  /\ Goes("end", "completed")
  /\ sessions' = IF mow = "mowing" THEN sessions \ {currentSession} ELSE sessions
  /\ currentSession' = 0 /\ arrived
  /\ UNCHANGED <<mow, opened, sessionHistory>>

\* _end_session: the id is forgotten whether or not the server was told.
EndSession(arrived) ==
  /\ Goes("end", "completed")
  /\ sessions' = IF arrived THEN sessions \ {currentSession} ELSE sessions
  /\ sessionHistory' = IF arrived \/ currentSession = 0 THEN sessionHistory
                       ELSE sessionHistory \cup {"lost"}
  /\ currentSession' = 0
  /\ UNCHANGED <<mow, opened>>

\* complete_command: the report arrives or not.
Report(arrived) ==
  /\ runAt \in {"completed", "failed"} /\ runAt' = "idle"
  /\ running' = 0
  /\ IF arrived THEN Record(running, runAt) ELSE UNCHANGED status
  /\ UNCHANGED <<action, held, delivered, streamQueue, sessionVars, deaths, ran,
                 ackLost>>

\* The queue, the session's id and the mowing session live in the process.
ProcessDies ==
  /\ deaths < MaxDeaths /\ deaths' = deaths + 1
  /\ held' = 0 /\ streamQueue' = <<>> /\ running' = 0 /\ runAt' = "idle"
  /\ mow' = "idle" /\ currentSession' = 0
  /\ UNCHANGED <<serverVars, sessions, opened, ran, ackLost, sessionHistory>>

RunStep ==
  \/ StartAsksAuto \/ StartBeginsMowing \/ OthersStopMowing
  \/ \E o \in PostOutcomes : StartOpensSession(o.effects, o.answered)
  \/ \E arrived \in Arrivals : EndSession(arrived) \/ Report(arrived)

DeliveryNext ==
  \/ \E i \in CommandIds : ReceiveCommand(i) \/ \E a \in Actions : Issue(i, a)
  \/ \E o \in PostOutcomes : AckAndQueue(o.effects > 0, o.answered)
  \/ TakeQueued \/ RunStep \/ ProcessDies

DeliverySpec == DeliveryInit /\ [][DeliveryNext]_deliveryVars

-----------------------------------------------------------------------------
Waiting(i) == Cardinality({k \in 1..Len(streamQueue) : streamQueue[k] = i})

\* A command is run once: twice only when an acknowledgement of it was lost, even
\* if the process dies (command_stream.py:200), and never, though the server
\* counts it as acknowledged, only when the process died with it.
CommandsRunOnce ==
  \A i \in CommandIds :
    /\ ran[i] + Waiting(i) > 1 => i \in ackLost
    /\ status[i] = "acked" /\ deaths = 0 => ran[i] > 0 \/ Waiting(i) > 0

\* A session left open on the server that the unit no longer knows of comes from
\* a start while one was open, a lost or repeated call, or a death of the process.
OrphanSessionExplained ==
  sessions \subseteq {currentSession} \/ sessionHistory # {} \/ deaths > 0
=============================================================================
