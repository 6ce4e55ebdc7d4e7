--------------------------- MODULE Server_proofs ----------------------------
(***************************************************************************)
(* Proofs about what unit and server agree on: ClaimLifecycle, for any     *)
(* number of tokens, deaths, failed writes, lost replies and withdrawals,  *)
(* and CommandDelivery, for any number of commands, deliveries, sessions   *)
(* and deaths.  And about what the server is told: the type and the        *)
(* accounting of the telemetry queue, for every capacity and batch size    *)
(* and for any number of snapshots, its refinement of the lossy store, and *)
(* the buffer of InfluxLogger, for any size and any number of snapshots.   *)
(***************************************************************************)
EXTENDS ClaimLifecycle, CommandDelivery, TelemetryQueue, InfluxLogger,
        SequenceTheorems, FiniteSetTheorems, TLAPS
-----------------------------------------------------------------------------
(***************************************************************************)
(* The inductive invariant behind TokenSurvives: what each label of the    *)
(* threads says of memory, disk and server.  That the server's token is on *)
(* the disk says nothing of the states in which the disk is about to be    *)
(* written, and there the server must not have the token yet.              *)
(***************************************************************************)
PostAgrees ==
  /\ postAt # "idle" => claimAt = "serve" /\ IsClaimed(identity)
  /\ postAt = "save" => serverToken = NoToken
  /\ postAt = "reply" => disk = identity

BootAgrees ==
  /\ claimAt = "begin" => identity = disk /\ ~IsClaimed(disk)
  /\ claimAt = "writeCode" => identity.state = "CLAIMING"
  /\ claimAt \in {"writeCode", "serve"} /\ identity.state = "CLAIMING" =>
       serverToken = NoToken

ServiceAgrees ==
  /\ claimAt \in {"serve", "config", "start", "up"} /\ IsClaimed(identity)
       /\ serverToken # NoToken => identity = disk
  /\ claimAt \in {"config", "start", "up"} /\ resetAt = "none" => IsClaimed(identity)
  /\ resetAt # "none" => claimAt \in {"start", "up"}
  /\ resetAt # "none" => identity = Unclaimed
  /\ resetAt = "save" => serverToken = NoToken

ClaimIInv ==
  ClaimTypeOK /\ TokenSurvives /\ PostAgrees /\ BootAgrees /\ ServiceAgrees

-----------------------------------------------------------------------------
(***************************************************************************)
(* The unclaimed record is well typed and holds no token; a record with a  *)
(* token the server issued is claimed.                                     *)
(***************************************************************************)
LEMMA RecordFacts ==
  /\ Unclaimed \in ClaimRecords /\ ~IsClaimed(Unclaimed)
  /\ \A t \in Tokens : /\ [state |-> "CLAIMED", token |-> t] \in ClaimRecords
                       /\ IsClaimed([state |-> "CLAIMED", token |-> t])
  /\ \A r \in ClaimRecords :
       [state |-> "CLAIMING", token |-> r.token] \in ClaimRecords
BY ClaimAssumption DEF Unclaimed, IsClaimed, ClaimRecords, ClaimStates

(***************************************************************************)
(* The next token is one of the tokens while any is left.                  *)
(***************************************************************************)
LEMMA NextToken ==
  ASSUME issued \in 0..MaxTokens, issued < MaxTokens
  PROVE  issued + 1 \in Tokens
BY ClaimAssumption DEF Tokens

(***************************************************************************)
(* A step that counts as trouble keeps the count within its bound.         *)
(***************************************************************************)
LEMMA TroubleKeepsType ==
  ASSUME trouble \in 0..MaxTrouble, Trouble
  PROVE  trouble' \in 0..MaxTrouble
BY ClaimAssumption DEF Trouble

(***************************************************************************)
(* Every step keeps the types.                                             *)
(***************************************************************************)
LEMMA StepKeepsType ==
  ASSUME ClaimTypeOK, ClaimNext
  PROVE  ClaimTypeOK'
<1>. USE RecordFacts DEF ClaimTypeOK
<1>1. CASE BootLoads
  BY <1>1 DEF BootLoads
<1>2. CASE ClaimingBegins
  BY <1>2, TroubleKeepsType DEF ClaimingBegins
<1>3. CASE CodeWritten
  BY <1>3, TroubleKeepsType DEF CodeWritten
<1>4. CASE ClaimFlowEnds
  BY <1>4 DEF ClaimFlowEnds
<1>5. CASE ClaimPosted
  <2>1. issued + 1 \in Tokens
    BY <1>5, NextToken DEF ClaimPosted
  <2>2. issued' \in 0..MaxTokens
    BY <1>5, <2>1, ClaimAssumption DEF ClaimPosted, Tokens
  <2>3. identity' \in ClaimRecords
    BY <1>5, <2>1 DEF ClaimPosted
  <2>. QED BY <1>5, <2>2, <2>3 DEF ClaimPosted
<1>6. CASE ClaimSaved
  BY <1>6, TroubleKeepsType DEF ClaimSaved
<1>7. CASE ClaimReplied
  BY <1>7, TroubleKeepsType DEF ClaimReplied, ClaimRecords
<1>8. CASE AuthRejected
  BY <1>8 DEF AuthRejected
<1>9. CASE ResetSaved
  BY <1>9, TroubleKeepsType DEF ResetSaved, Stops
<1>10. CASE UnitDies
  BY <1>10, TroubleKeepsType DEF UnitDies
<1>11. CASE UnitRestarts
  BY <1>11 DEF UnitRestarts
<1>12. CASE ServerWithdraws
  BY <1>12, TroubleKeepsType DEF ServerWithdraws
<1>13. CASE ConfigFound
  BY <1>13, TroubleKeepsType DEF ConfigFound
<1>14. CASE RunBegins
  BY <1>14 DEF RunBegins
<1>. QED
  BY <1>1, <1>2, <1>3, <1>4, <1>5, <1>6, <1>7, <1>8, <1>9, <1>10, <1>11, <1>12, <1>13, <1>14
     DEF ClaimNext, UnitStep

-----------------------------------------------------------------------------
(***************************************************************************)
(* No step of the main thread or of systemd breaks the agreement.          *)
(***************************************************************************)
LEMMA MainKeeps ==
  ASSUME ClaimIInv,
         BootLoads \/ ClaimingBegins \/ CodeWritten \/ ClaimFlowEnds
           \/ ConfigFound \/ RunBegins \/ UnitRestarts \/ UnitDies
  PROVE  TokenSurvives' /\ PostAgrees' /\ BootAgrees' /\ ServiceAgrees'
<1>. USE RecordFacts
     DEF ClaimIInv, ClaimTypeOK, TokenSurvives, PostAgrees, BootAgrees, ServiceAgrees
<1>1. CASE BootLoads
  BY <1>1 DEF BootLoads
<1>2. CASE ClaimingBegins
  <2>1. ~IsClaimed(disk) /\ serverToken = NoToken
    BY <1>2, Zenon DEF ClaimingBegins, IsClaimed
  <2>2. \/ serverToken' = NoToken /\ identity'.state # "CLAIMED"
        \/ claimAt' = "down"
    BY <1>2 DEF ClaimingBegins
  <2>. QED BY <1>2, <2>1, <2>2 DEF ClaimingBegins, IsClaimed
<1>3. CASE CodeWritten
  BY <1>3 DEF CodeWritten
<1>4. CASE ClaimFlowEnds
  BY <1>4 DEF ClaimFlowEnds
<1>5. CASE UnitRestarts
  BY <1>5 DEF UnitRestarts
<1>6. CASE UnitDies
  BY <1>6 DEF UnitDies
<1>7. CASE ConfigFound
  BY <1>7 DEF ConfigFound
<1>8. CASE RunBegins
  BY <1>8 DEF RunBegins
<1>. QED BY <1>1, <1>2, <1>3, <1>4, <1>5, <1>6, <1>7, <1>8

(***************************************************************************)
(* Nor does a step of the claim server, of the authentication failure or   *)
(* of River Song.                                                          *)
(***************************************************************************)
LEMMA ServerKeeps ==
  ASSUME ClaimIInv,
         ClaimPosted \/ ClaimSaved \/ ClaimReplied \/ AuthRejected \/ ResetSaved
           \/ ServerWithdraws
  PROVE  TokenSurvives' /\ PostAgrees' /\ BootAgrees' /\ ServiceAgrees'
<1>. USE RecordFacts
     DEF ClaimIInv, ClaimTypeOK, TokenSurvives, PostAgrees, BootAgrees, ServiceAgrees
<1>1. CASE ClaimPosted
  <2>1. IsClaimed(identity') /\ identity'.state # "CLAIMING"
    BY <1>1, NextToken DEF ClaimPosted
  <2>2. serverToken = NoToken
    BY <1>1 DEF ClaimPosted
  <2>. QED BY <1>1, <2>1, <2>2 DEF ClaimPosted
<1>2. CASE ClaimSaved
  BY <1>2 DEF ClaimSaved, IsClaimed
<1>3. CASE ClaimReplied
  <2>1. identity = [state |-> "CLAIMED", token |-> identity.token]
    BY <1>3 DEF ClaimReplied, IsClaimed, ClaimRecords
  <2>. QED BY <1>3, <2>1 DEF ClaimReplied, IsClaimed
<1>4. CASE AuthRejected
  <2>1. serverToken = NoToken
    BY <1>4 DEF AuthRejected
  <2>2. postAt = "idle"
    BY <1>4 DEF AuthRejected
  <2>. QED BY <1>4, <2>1, <2>2 DEF AuthRejected
<1>5. CASE ResetSaved
  <2>1. serverToken = NoToken /\ ~IsClaimed(identity) /\ postAt = "idle"
    BY <1>5 DEF ResetSaved
  <2>. QED BY <1>5, <2>1 DEF ResetSaved, Stops
<1>6. CASE ServerWithdraws
  BY <1>6 DEF ServerWithdraws
<1>. QED BY <1>1, <1>2, <1>3, <1>4, <1>5, <1>6

(***************************************************************************)
(* The invariant: it holds of a unit never claimed, and every step keeps   *)
(* it.                                                                     *)
(***************************************************************************)
THEOREM ClaimInvariant == ClaimSpec => []ClaimIInv
<1>1. ClaimInit => ClaimIInv
  <2>1. 0 \in 0..MaxTokens /\ 0 \in 0..MaxTrouble
    BY ClaimAssumption
  <2>. QED BY <2>1, RecordFacts
     DEF ClaimInit, ClaimIInv, ClaimTypeOK, TokenSurvives, PostAgrees, BootAgrees,
         ServiceAgrees
<1>2. ClaimIInv /\ [ClaimNext]_claimVars => ClaimIInv'
  <2> SUFFICES ASSUME ClaimIInv, [ClaimNext]_claimVars PROVE ClaimIInv'
    OBVIOUS
  <2>1. CASE ClaimNext
    BY <2>1, StepKeepsType, MainKeeps, ServerKeeps DEF ClaimIInv, ClaimNext, UnitStep
  <2>2. CASE UNCHANGED claimVars
    BY <2>2 DEF claimVars, ClaimIInv, ClaimTypeOK, TokenSurvives, PostAgrees,
                BootAgrees, ServiceAgrees, IsClaimed
  <2>. QED BY <2>1, <2>2
<1>. QED BY <1>1, <1>2, PTL DEF ClaimSpec

(***************************************************************************)
(* Types, and the property of core/bootstrap.py and core/identity.py: a    *)
(* token the server accepts is on the disk at every step, whatever dies or *)
(* fails next.                                                             *)
(***************************************************************************)
THEOREM TokenSurvivesTheorem == ClaimSpec => [](ClaimTypeOK /\ TokenSurvives)
BY ClaimInvariant, PTL DEF ClaimIInv

-----------------------------------------------------------------------------
(***************************************************************************)
(* The places of a sequence that hold a value; Waiting counts those of the *)
(* stream's queue.                                                         *)
(***************************************************************************)
Places(q, i) == {k \in 1..Len(q) : q[k] = i}

(***************************************************************************)
(* The places are finitely many, and none in the empty sequence.           *)
(***************************************************************************)
LEMMA PlacesFinite ==
  ASSUME NEW S, NEW q \in Seq(S), NEW i
  PROVE  IsFiniteSet(Places(q, i)) /\ Cardinality(Places(q, i)) \in Nat
<1>1. IsFiniteSet(1..Len(q))
  BY FS_Interval
<1>. QED BY <1>1, FS_Subset, FS_CardinalityType DEF Places

\* Nothing has a place in an empty queue.
LEMMA PlacesEmpty ==
  ASSUME NEW i
  PROVE  Cardinality(Places(<<>>, i)) = 0
<1>1. Places(<<>>, i) = {}
  BY DEF Places
<1>. QED BY <1>1, FS_EmptySet

(***************************************************************************)
(* A value at the head of a sequence has a place in it.                    *)
(***************************************************************************)
LEMMA PlacesHead ==
  ASSUME NEW S, NEW q \in Seq(S), q # <<>>
  PROVE  Cardinality(Places(q, Head(q))) > 0
<1>1. 1 \in Places(q, Head(q))
  BY DEF Places
<1>. QED BY <1>1, PlacesFinite, FS_EmptySet

(***************************************************************************)
(* Append adds a place of the value appended.                              *)
(***************************************************************************)
LEMMA PlacesAppend ==
  ASSUME NEW S, NEW q \in Seq(S), NEW x \in S, NEW i
  PROVE  Cardinality(Places(Append(q, x), i)) =
           Cardinality(Places(q, i)) + IF x = i THEN 1 ELSE 0
<1>1. Len(q) + 1 \notin Places(q, i)
  BY DEF Places
<1>2. Places(Append(q, x), i) =
        IF x = i THEN Places(q, i) \cup {Len(q) + 1} ELSE Places(q, i)
  BY DEF Places
<1>3. IsFiniteSet(Places(q, i)) /\ Cardinality(Places(q, i)) \in Nat
  BY PlacesFinite
<1>4. Cardinality(Places(q, i) \cup {Len(q) + 1}) = Cardinality(Places(q, i)) + 1
  BY <1>1, <1>3, FS_AddElement
<1>. QED BY <1>2, <1>3, <1>4

(***************************************************************************)
(* Tail takes the place at the head away and moves the others by one.      *)
(***************************************************************************)
LEMMA PlacesTail ==
  ASSUME NEW S, NEW q \in Seq(S), q # <<>>, NEW i
  PROVE  Cardinality(Places(q, i)) =
           Cardinality(Places(Tail(q), i)) + IF Head(q) = i THEN 1 ELSE 0
<1>. DEFINE A == Places(Tail(q), i)
            B == Places(q, i) \ {1}
            f == [k \in A |-> k + 1]
<1>1. /\ Len(q) \in Nat \ {0} /\ Tail(q) \in Seq(S) /\ Len(Tail(q)) = Len(q) - 1
      /\ \A k \in 1..(Len(q) - 1) : Tail(q)[k] = q[k + 1]
  OBVIOUS
<1>2. f \in Injection(A, B)
  <2>1. \A k \in A : k + 1 \in B
    BY <1>1 DEF Places
  <2>. QED BY <2>1 DEF Injection, IsInjective, Places
<1>3. f \in Surjection(A, B)
  <2>1. \A k \in B : k - 1 \in A /\ f[k - 1] = k
    BY <1>1 DEF Places
  <2>. QED BY <1>2, <2>1 DEF Surjection, Injection
<1>4. ExistsBijection(A, B)
  BY <1>2, <1>3 DEF ExistsBijection, Bijection
<1>5. Cardinality(A) = Cardinality(B)
  BY <1>1, <1>4, PlacesFinite, FS_Bijection
<1>6. 1 \in Places(q, i) <=> Head(q) = i
  BY <1>1 DEF Places
<1>7. Cardinality(B) = Cardinality(Places(q, i)) - IF Head(q) = i THEN 1 ELSE 0
  <2>1. IsFiniteSet(Places(q, i))
    BY PlacesFinite
  <2>2. Cardinality(B) = IF 1 \in Places(q, i) THEN Cardinality(Places(q, i)) - 1
                         ELSE Cardinality(Places(q, i))
    BY <2>1, FS_RemoveElement
  <2>3. Cardinality(Places(q, i)) \in Nat
    BY PlacesFinite
  <2>. QED BY <1>6, <2>2, <2>3
<1>8. Cardinality(A) \in Nat /\ Cardinality(Places(q, i)) \in Nat
  BY <1>1, PlacesFinite
<1>. QED BY <1>5, <1>7, <1>8

-----------------------------------------------------------------------------
(***************************************************************************)
(* The inductive invariant behind CommandsRunOnce.  What is queued, run or *)
(* in the stream thread's hands was delivered; a command delivered again   *)
(* was still pending, so its acknowledgement was lost.                     *)
(***************************************************************************)
Handled(i) == ran[i] + Waiting(i) + IF held = i THEN 1 ELSE 0

EachWasDelivered == \A i \in CommandIds : Handled(i) <= delivered

DeliveredOnce ==
  \A i \in CommandIds :
    /\ i \notin ackLost => Handled(i) <= 1
    /\ i \notin ackLost /\ status[i] = "pending" /\ held # i => Handled(i) = 0
    /\ status[i] = "unissued" => Handled(i) = 0

AckedIsHandled ==
  \A i \in CommandIds :
    status[i] = "acked" /\ deaths = 0 => ran[i] > 0 \/ Waiting(i) > 0

RunningHasPlace == runAt = "idle" <=> running = 0

DeliveryIInv ==
  /\ DeliveryTypeOK /\ EachWasDelivered /\ DeliveredOnce /\ AckedIsHandled
  /\ RunningHasPlace /\ OrphanSessionExplained

\* The commands that wait, counted by their places.
LEMMA WaitingIsPlaces ==
  \A i : Waiting(i) = Cardinality(Places(streamQueue, i))
BY DEF Waiting, Places

\* How often a command waits is a number.
LEMMA WaitingType ==
  ASSUME DeliveryTypeOK, NEW i
  PROVE  Waiting(i) \in Nat
BY WaitingIsPlaces, PlacesFinite DEF DeliveryTypeOK

(***************************************************************************)
(* Handled by a step of the queue.                                         *)
(***************************************************************************)
LEMMA WaitingAfterAppend ==
  ASSUME DeliveryTypeOK, NEW c \in CommandIds, streamQueue' = Append(streamQueue, c),
         NEW i
  PROVE  Waiting(i)' = Waiting(i) + IF c = i THEN 1 ELSE 0
<1>1. Waiting(i)' = Cardinality(Places(Append(streamQueue, c), i))
  BY DEF Waiting, Places
<1>. QED BY <1>1, PlacesAppend, WaitingIsPlaces DEF DeliveryTypeOK

\* A command taken from the queue leaves one place.
LEMMA WaitingAfterTail ==
  ASSUME DeliveryTypeOK, streamQueue # <<>>, streamQueue' = Tail(streamQueue), NEW i
  PROVE  Waiting(i) = Waiting(i)' + IF Head(streamQueue) = i THEN 1 ELSE 0
<1>1. Waiting(i)' = Cardinality(Places(Tail(streamQueue), i))
  BY DEF Waiting, Places
<1>. QED BY <1>1, PlacesTail, WaitingIsPlaces DEF DeliveryTypeOK

-----------------------------------------------------------------------------
(***************************************************************************)
(* Every step keeps the types; that a run does not leave the bound on      *)
(* counts follows from what was delivered.                                 *)
(***************************************************************************)
LEMMA RecordKeepsType ==
  ASSUME DeliveryTypeOK, NEW i, NEW s \in Statuses, Record(i, s)
  PROVE  status' \in [CommandIds -> Statuses]
BY DEF DeliveryTypeOK, Record, Statuses

\* Every step keeps the type of the delivery.
LEMMA DeliveryStepKeepsType ==
  ASSUME DeliveryIInv, DeliveryNext
  PROVE  DeliveryTypeOK'
<1>. USE DeliveryAssumption DEF DeliveryTypeOK, DeliveryIInv
<1>1. ASSUME NEW i \in CommandIds, ReceiveCommand(i)
      PROVE  DeliveryTypeOK'
  BY <1>1 DEF ReceiveCommand, sessionVars, CommandIds
<1>2. ASSUME NEW i \in CommandIds, NEW a \in Actions, Issue(i, a)
      PROVE  DeliveryTypeOK'
  BY <1>2 DEF Issue, sessionVars, Statuses
<1>3. ASSUME NEW o \in PostOutcomes, AckAndQueue(o.effects > 0, o.answered)
      PROVE  DeliveryTypeOK'
  <2>1. held \in CommandIds
    BY <1>3 DEF AckAndQueue, CommandIds
  <2>2. status' \in [CommandIds -> Statuses] /\ ackLost' \in SUBSET CommandIds
    BY <1>3, <2>1, RecordKeepsType DEF AckAndQueue, Statuses
  <2>. QED BY <1>3, <2>1, <2>2 DEF AckAndQueue, sessionVars
<1>4. CASE TakeQueued
  <2>1. Head(streamQueue) \in CommandIds /\ Tail(streamQueue) \in Seq(CommandIds)
    BY <1>4 DEF TakeQueued
  <2>2. Handled(Head(streamQueue)) <= delivered
    BY <2>1 DEF EachWasDelivered
  <2>3. Waiting(Head(streamQueue)) \in Nat \ {0}
    BY <1>4, PlacesHead, WaitingIsPlaces, WaitingType DEF TakeQueued
  <2>4. ran[Head(streamQueue)] + 1 \in 0..MaxDelivered
    BY <2>1, <2>2, <2>3 DEF Handled
  <2>5. running' \in 0..NumCommands
    BY <1>4, <2>1 DEF TakeQueued, CommandIds
  <2>. QED BY <1>4, <2>1, <2>4, <2>5 DEF TakeQueued, sessionVars, serverVars
<1>5. CASE StartAsksAuto \/ StartBeginsMowing \/ OthersStopMowing
  <2>1. CASE StartAsksAuto
    BY <2>1 DEF StartAsksAuto, Goes, sessionVars, serverVars
  <2>2. CASE StartBeginsMowing
    BY <2>2 DEF StartBeginsMowing, Goes, serverVars
  <2>3. CASE OthersStopMowing
    BY <2>3 DEF OthersStopMowing, Goes, serverVars
  <2>. QED BY <1>5, <2>1, <2>2, <2>3
<1>6. ASSUME NEW o \in PostOutcomes, StartOpensSession(o.effects, o.answered)
      PROVE  DeliveryTypeOK'
  <2>1. o.effects \in 0..2
    BY DEF PostOutcomes, Resent
  <2>2. opened' \in 0..MaxSessions
    BY <1>6, <2>1 DEF StartOpensSession
  <2>6. sessions' \in SUBSET (1..MaxSessions)
    <3>1. (opened + 1)..(opened + o.effects) \subseteq 1..MaxSessions
      BY <1>6, <2>1 DEF StartOpensSession
    <3>. QED BY <1>6, <3>1 DEF StartOpensSession
  <2>3. currentSession' \in 0..MaxSessions
    BY <1>6, <2>1 DEF StartOpensSession
  <2>4. sessionHistory' \in SUBSET {"repeated", "lost"}
    BY <1>6 DEF StartOpensSession
  <2>. QED BY <1>6, <2>2, <2>3, <2>4, <2>6 DEF StartOpensSession, Goes, serverVars
<1>7. ASSUME NEW came \in Arrivals, EndSession(came)
      PROVE  DeliveryTypeOK'
  BY <1>7 DEF EndSession, Goes, serverVars
<1>8. ASSUME NEW came \in Arrivals, Report(came)
      PROVE  DeliveryTypeOK'
  <2>1. status' \in [CommandIds -> Statuses]
    BY <1>8, RecordKeepsType DEF Report, Statuses
  <2>. QED BY <1>8, <2>1 DEF Report, sessionVars
<1>9. CASE ProcessDies
  BY <1>9 DEF ProcessDies, serverVars
<1>. QED
  BY <1>1, <1>2, <1>3, <1>4, <1>5, <1>6, <1>7, <1>8, <1>9 DEF DeliveryNext, RunStep

-----------------------------------------------------------------------------
(***************************************************************************)
(* A step that touches neither queue, nor hands, nor counts, and no status *)
(* but to complete or fail a command, keeps what is said of commands.      *)
(***************************************************************************)
CommandsAgree ==
  /\ EachWasDelivered /\ DeliveredOnce /\ AckedIsHandled /\ RunningHasPlace

\* A step of the thread that runs commands keeps what the invariant says of them.
LEMMA RunStepKeepsCommands ==
  ASSUME DeliveryIInv, RunStep
  PROVE  CommandsAgree'
<1>. USE DEF DeliveryIInv, DeliveryTypeOK, CommandsAgree
<1>1. UNCHANGED <<streamQueue, held, ran, delivered, deaths, ackLost>>
  BY DEF RunStep, StartAsksAuto, StartBeginsMowing, OthersStopMowing, Goes,
         StartOpensSession, EndSession, Report, serverVars
<1>2. \A i \in CommandIds : status'[i] \in {status[i], "completed", "failed"}
  BY DEF RunStep, StartAsksAuto, StartBeginsMowing, OthersStopMowing, Goes,
         StartOpensSession, EndSession, Report, serverVars, Record
<1>3. RunningHasPlace'
  BY DEF RunStep, StartAsksAuto, StartBeginsMowing, OthersStopMowing, Goes,
         StartOpensSession, EndSession, Report, serverVars, RunningHasPlace
<1>4. \A i : Waiting(i)' = Waiting(i)
  BY <1>1 DEF Waiting
<1>5. \A i : Handled(i)' = Handled(i)
  BY <1>1, <1>4 DEF Handled
<1>. QED
  BY <1>1, <1>2, <1>3, <1>4, <1>5
     DEF EachWasDelivered, DeliveredOnce, AckedIsHandled

(***************************************************************************)
(* Receiving, acknowledging, taking and dying keep it too.                 *)
(***************************************************************************)
LEMMA OtherStepsKeepCommands ==
  ASSUME DeliveryIInv, DeliveryNext, ~RunStep
  PROVE  CommandsAgree'
<1>. USE DeliveryAssumption DEF DeliveryIInv, DeliveryTypeOK, CommandsAgree
<1>0. \A i : Waiting(i) \in Nat
  BY WaitingType
<1>1. ASSUME NEW c \in CommandIds, ReceiveCommand(c)
      PROVE  CommandsAgree'
  <2>1. \A i : Waiting(i)' = Waiting(i)
    BY <1>1 DEF ReceiveCommand, Waiting
  <2>2. c # 0 /\ held = 0
    BY <1>1 DEF ReceiveCommand, CommandIds
  <2>3. \A i \in CommandIds : Handled(i)' = Handled(i) + IF i = c THEN 1 ELSE 0
    BY <1>0, <1>1, <2>1, <2>2 DEF Handled, ReceiveCommand, CommandIds
  <2>4. \A i \in CommandIds : Handled(i) \in Nat
    BY <1>0 DEF Handled
  <2>5. EachWasDelivered'
    <3>1. \A i \in CommandIds : Handled(i) <= delivered
      BY DEF EachWasDelivered
    <3>2. delivered' = delivered + 1
      BY <1>1 DEF ReceiveCommand
    <3>3. \A i \in CommandIds : Handled(i)' <= delivered'
      BY <2>3, <2>4, <3>1, <3>2
    <3>. QED BY <3>3 DEF EachWasDelivered
  <2>6. DeliveredOnce'
    <3>1. UNCHANGED <<status, ackLost>> /\ held' = c /\ status[c] = "pending"
      BY <1>1 DEF ReceiveCommand
    <3>2. c \notin ackLost => Handled(c) = 0
      BY <2>2, <3>1 DEF DeliveredOnce
    <3>3. \A i \in CommandIds : i # c => Handled(i)' = Handled(i)
      BY <2>3, <2>4
    <3>4. Handled(c)' = Handled(c) + 1
      BY <2>3
    <3>5. SUFFICES ASSUME NEW i \in CommandIds
                   PROVE  /\ i \notin ackLost' => Handled(i)' <= 1
                          /\ i \notin ackLost' /\ status'[i] = "pending" /\ held' # i
                               => Handled(i)' = 0
                          /\ status'[i] = "unissued" => Handled(i)' = 0
      BY DEF DeliveredOnce
    <3>6. CASE i = c
      BY <2>2, <2>4, <3>1, <3>2, <3>4, <3>6
    <3>7. CASE i # c
      <4>1. held # i
        BY <2>2 DEF CommandIds
      <4>. QED BY <3>1, <3>3, <3>7, <4>1 DEF DeliveredOnce
    <3>. QED BY <3>6, <3>7
  <2>7. AckedIsHandled' /\ RunningHasPlace'
    BY <1>1, <2>1 DEF ReceiveCommand, AckedIsHandled, RunningHasPlace
  <2>. QED BY <2>5, <2>6, <2>7
<1>2. ASSUME NEW c \in CommandIds, NEW a \in Actions, Issue(c, a)
      PROVE  CommandsAgree'
  <2>1. \A i : Waiting(i)' = Waiting(i) /\ Handled(i)' = Handled(i)
    BY <1>2 DEF Issue, Waiting, Handled
  <2>2. \A i \in CommandIds : status'[i] = IF i = c THEN "pending" ELSE status[i]
    BY <1>2 DEF Issue
  <2>3. status[c] = "unissued"
    BY <1>2 DEF Issue
  <2>. QED BY <1>2, <2>1, <2>2, <2>3
       DEF Issue, EachWasDelivered, DeliveredOnce, AckedIsHandled, RunningHasPlace
<1>3. ASSUME NEW o \in PostOutcomes, AckAndQueue(o.effects > 0, o.answered)
      PROVE  CommandsAgree'
  <2>1. held \in CommandIds /\ held # 0
    BY <1>3 DEF AckAndQueue, CommandIds
  <2>2. \A i : Waiting(i)' = Waiting(i) + IF held = i THEN 1 ELSE 0
    BY <1>3, <2>1, WaitingAfterAppend DEF AckAndQueue
  <2>3. \A i \in CommandIds : Handled(i)' = Handled(i) /\ Handled(i) \in Nat
    <3>1. held' = 0 /\ ran' = ran /\ 0 \notin CommandIds
      BY <1>3 DEF AckAndQueue, CommandIds
    <3>. QED BY <1>0, <2>2, <3>1 DEF Handled
  <2>4. \A i \in CommandIds : i # held => status'[i] = status[i]
    BY <1>3 DEF AckAndQueue, Record
  <2>5. held \in ackLost' \/ status'[held] \in {"acked", "completed", "failed"}
    BY <1>3, <2>1 DEF AckAndQueue, Record
  <2>6. ackLost \subseteq ackLost' /\ status'[held] # "unissued"
    <3>1. Handled(held) > 0
      BY <1>0, <2>1 DEF Handled
    <3>2. status[held] # "unissued"
      BY <2>1, <3>1 DEF DeliveredOnce
    <3>. QED BY <1>3, <2>1, <3>2 DEF AckAndQueue, Record
  <2>7. EachWasDelivered' /\ RunningHasPlace'
    BY <1>3, <2>3 DEF AckAndQueue, EachWasDelivered, RunningHasPlace
  <2>8. DeliveredOnce'
    BY <1>3, <2>1, <2>3, <2>4, <2>5, <2>6 DEF AckAndQueue, DeliveredOnce
  <2>9. AckedIsHandled'
    BY <1>0, <1>3, <2>1, <2>2, <2>4 DEF AckAndQueue, AckedIsHandled
  <2>. QED BY <2>7, <2>8, <2>9
<1>4. CASE TakeQueued
  <2>. DEFINE h == Head(streamQueue)
  <2>1. h \in CommandIds /\ h # 0
    BY <1>4 DEF TakeQueued, CommandIds
  <2>2. \A i : Waiting(i) = Waiting(i)' + IF h = i THEN 1 ELSE 0
    BY <1>4, WaitingAfterTail DEF TakeQueued
  <2>3. \A i \in CommandIds : ran'[i] = ran[i] + IF h = i THEN 1 ELSE 0
    BY <1>4, <2>1 DEF TakeQueued
  <2>4. \A i : Waiting(i)' \in Nat
    <3>1. Tail(streamQueue) \in Seq(CommandIds)
      BY <1>4 DEF TakeQueued
    <3>2. \A i : Waiting(i)' = Cardinality(Places(Tail(streamQueue), i))
      BY <1>4 DEF TakeQueued, Waiting, Places
    <3>. QED BY <3>1, <3>2, PlacesFinite
  <2>5. \A i \in CommandIds : Handled(i)' = Handled(i)
    <3>1. TAKE i \in CommandIds
    <3>2. held' = held
      BY <1>4 DEF TakeQueued
    <3>3. ran[i] \in Nat /\ Waiting(i)' \in Nat
      BY <2>4
    <3>4. ran'[i] + Waiting(i)' = ran[i] + Waiting(i)
      BY <2>2, <2>3, <3>3
    <3>5. Handled(i)' = ran'[i] + Waiting(i)' + IF held = i THEN 1 ELSE 0
      BY <3>2 DEF Handled
    <3>. QED BY <3>4, <3>5 DEF Handled
  <2>6. EachWasDelivered' /\ DeliveredOnce'
    BY <1>4, <2>5 DEF TakeQueued, serverVars, EachWasDelivered, DeliveredOnce
  <2>7. AckedIsHandled'
    BY <1>0, <1>4, <2>2, <2>3, <2>4 DEF TakeQueued, serverVars, AckedIsHandled
  <2>8. RunningHasPlace'
    BY <1>4, <2>1 DEF TakeQueued, RunningHasPlace
  <2>. QED BY <2>6, <2>7, <2>8
<1>5. CASE ProcessDies
  <2>1. \A i : Waiting(i)' = 0
    BY <1>5, PlacesEmpty DEF ProcessDies, Waiting, Places
  <2>2. \A i \in CommandIds : Handled(i)' = ran[i] /\ ran[i] <= Handled(i)
    BY <1>0, <1>5, <2>1 DEF ProcessDies, Handled, CommandIds
  <2>3. \A i \in CommandIds : Handled(i) \in Nat
    BY <1>0 DEF Handled
  <2>4. AckedIsHandled' /\ RunningHasPlace'
    BY <1>5 DEF ProcessDies, AckedIsHandled, RunningHasPlace
  <2>5. EachWasDelivered'
    BY <1>5, <2>2, <2>3 DEF ProcessDies, serverVars, EachWasDelivered
  <2>6. DeliveredOnce'
    BY <1>0, <1>5, <2>2, <2>3 DEF ProcessDies, serverVars, DeliveredOnce, Handled
  <2>. QED BY <2>4, <2>5, <2>6
<1>. QED BY <1>1, <1>2, <1>3, <1>4, <1>5 DEF DeliveryNext

-----------------------------------------------------------------------------
(***************************************************************************)
(* A session is opened and forgotten as OrphanSessionExplained says.       *)
(***************************************************************************)
LEMMA StepKeepsSessions ==
  ASSUME DeliveryIInv, DeliveryNext
  PROVE  OrphanSessionExplained'
<1>. USE DEF DeliveryIInv, DeliveryTypeOK, OrphanSessionExplained
<1>1. ASSUME NEW o \in PostOutcomes, StartOpensSession(o.effects, o.answered)
      PROVE  OrphanSessionExplained'
  <2>1. o.effects \in 0..2 /\ o.answered \in BOOLEAN
        /\ (o.answered => o.effects > 0)
    BY DEF PostOutcomes, Resent
  <2>2. CASE sessionHistory' # {} \/ deaths > 0
    BY <1>1, <2>2 DEF StartOpensSession, Goes
  <2>3. CASE sessionHistory' = {} /\ ~(deaths > 0)
    <3>1. currentSession = 0 /\ sessionHistory = {}
      BY <1>1, <2>3 DEF StartOpensSession
    <3>2. sessions = {}
      BY <2>3, <3>1
    <3>3. o.effects = 0 \/ (o.effects = 1 /\ o.answered)
      BY <1>1, <2>1, <2>3 DEF StartOpensSession
    <3>4. sessions' = (opened + 1)..(opened + o.effects)
      BY <1>1, <3>2 DEF StartOpensSession
    <3>5. CASE o.effects = 0
      BY <3>4, <3>5
    <3>6. CASE o.effects = 1 /\ o.answered
      <4>1. currentSession' = opened + 1
        BY <1>1, <3>6 DEF StartOpensSession
      <4>. QED BY <3>4, <3>6, <4>1
    <3>. QED BY <3>3, <3>5, <3>6
  <2>. QED BY <2>2, <2>3
<1>2. ASSUME NEW came \in Arrivals, EndSession(came)
      PROVE  OrphanSessionExplained'
  BY <1>2 DEF EndSession, Goes
<1>3. CASE ProcessDies
  BY <1>3 DEF ProcessDies
<1>4. CASE UNCHANGED <<currentSession, sessions, sessionHistory, deaths>>
  BY <1>4
<1>. QED
  BY <1>1, <1>2, <1>3, <1>4
     DEF DeliveryNext, RunStep, ReceiveCommand, Issue, AckAndQueue, TakeQueued,
         StartAsksAuto, StartBeginsMowing, OthersStopMowing, Report, Goes, sessionVars

(***************************************************************************)
(* The invariant holds, for any number of commands, answers, sessions and  *)
(* deaths.                                                                 *)
(***************************************************************************)
THEOREM DeliveryInvariant == DeliverySpec => []DeliveryIInv
<1>1. DeliveryInit => DeliveryIInv
  <2> SUFFICES ASSUME DeliveryInit PROVE DeliveryIInv
    OBVIOUS
  <2>1. DeliveryTypeOK
    BY DeliveryAssumption DEF DeliveryInit, DeliveryTypeOK, Statuses
  <2>2. \A i : Waiting(i) = 0
    BY PlacesEmpty, WaitingIsPlaces DEF DeliveryInit
  <2>3. \A i \in CommandIds : Handled(i) = 0
    BY <2>2 DEF Handled, DeliveryInit, CommandIds
  <2>. QED BY <2>1, <2>2, <2>3
       DEF DeliveryIInv, DeliveryInit, EachWasDelivered, DeliveredOnce, AckedIsHandled,
           RunningHasPlace, OrphanSessionExplained
<1>2. DeliveryIInv /\ [DeliveryNext]_deliveryVars => DeliveryIInv'
  <2> SUFFICES ASSUME DeliveryIInv, [DeliveryNext]_deliveryVars PROVE DeliveryIInv'
    OBVIOUS
  <2>1. CASE DeliveryNext
    <3>1. CommandsAgree'
      BY <2>1, RunStepKeepsCommands, OtherStepsKeepCommands
    <3>. QED
      BY <2>1, <3>1, DeliveryStepKeepsType, StepKeepsSessions
         DEF DeliveryIInv, CommandsAgree
  <2>2. CASE UNCHANGED deliveryVars
    BY <2>2 DEF deliveryVars, DeliveryIInv, DeliveryTypeOK, EachWasDelivered,
                DeliveredOnce, AckedIsHandled, RunningHasPlace, Handled, Waiting,
                OrphanSessionExplained
  <2>. QED BY <2>1, <2>2
<1>. QED BY <1>1, <1>2, PTL DEF DeliverySpec

(***************************************************************************)
(* The property of connectivity/command_stream.py: a command runs twice    *)
(* only when its acknowledgement was lost, and an acknowledged one is lost *)
(* only with the process.                                                  *)
(***************************************************************************)
THEOREM RunOnceTheorem == DeliverySpec => []CommandsRunOnce
<1>1. DeliveryIInv => CommandsRunOnce
  <2> SUFFICES ASSUME DeliveryIInv PROVE CommandsRunOnce
    OBVIOUS
  <2>1. \A i \in CommandIds : Waiting(i) \in Nat /\ ran[i] \in Nat
    BY WaitingType DEF DeliveryIInv, DeliveryTypeOK
  <2>2. \A i \in CommandIds : ran[i] + Waiting(i) <= Handled(i)
    BY <2>1 DEF Handled
  <2>. QED BY <2>1, <2>2
       DEF CommandsRunOnce, DeliveryIInv, DeliveredOnce, AckedIsHandled, Handled
<1>. QED BY <1>1, DeliveryInvariant, PTL

(***************************************************************************)
(* The property of core/main.py's session handlers: a session the unit has *)
(* lost track of is explained by what was lost, repeated or died.          *)
(***************************************************************************)
THEOREM SessionTheorem == DeliverySpec => []OrphanSessionExplained
BY DeliveryInvariant, PTL DEF DeliveryIInv

-----------------------------------------------------------------------------
\* What an append to a bounded deque leaves: numbers of snapshots built, no more
\* than the capacity, and the overflow accounts for the rest.
LEMMA EnqueueBounds ==
  ASSUME NEW all \in Seq(Nat), NEW n \in Nat, all \in Seq(1..n), QueueMax \in Nat \ {0}
  PROVE  LET kept == SubSeq(all, Overflow(Len(all)) + 1, Len(all)) IN
         /\ kept \in Seq(1..n)
         /\ Len(kept) <= QueueMax
         /\ Len(kept) + Overflow(Len(all)) = Len(all)
         /\ Overflow(Len(all)) \in Nat
<1> DEFINE from == Overflow(Len(all)) + 1
           kept == SubSeq(all, from, Len(all))
<1>1. Len(all) \in Nat
  BY LenProperties
<1>2. /\ Overflow(Len(all)) \in Nat /\ Overflow(Len(all)) <= Len(all)
      /\ Len(all) - Overflow(Len(all)) <= QueueMax
  BY <1>1 DEF Overflow
<1>3. kept \in Seq(1..n)
  BY <1>1, <1>2, SubSeqProperties
<1>4. Len(kept) = Len(all) - Overflow(Len(all))
  BY <1>1, <1>2, SubSeqProperties
<1>5. kept \in Seq(1..n) /\ Len(kept) <= QueueMax
      /\ Len(kept) + Overflow(Len(all)) = Len(all)
  <2> HIDE DEF kept
  <2> QED BY <1>1, <1>2, <1>3, <1>4
<1> QED BY <1>2, <1>5

\* A sequence of snapshots stays one when more have been built.
LEMMA SeqGrows ==
  ASSUME NEW n \in Nat, NEW s \in Seq(1..n)
  PROVE  s \in Seq(1..(n + 1)) /\ s \in Seq(Nat) /\ Len(s) \in Nat
OBVIOUS

\* What _enqueue makes of a queue q and a count d of evicted snapshots.
Enqueued(q, d, new, q2, d2) ==
  /\ q2 = SubSeq(q \o new, Overflow(Len(q \o new)) + 1, Len(q \o new))
  /\ d2 = d + Overflow(Len(q \o new))

\* It keeps both typed, and counts what it evicts.
LEMMA EnqueueStep ==
  ASSUME NEW n \in Nat, NEW q \in Seq(1..n), NEW d \in Nat, NEW new \in Seq(1..n),
         NEW q2, NEW d2, QueueMax \in Nat \ {0}, Enqueued(q, d, new, q2, d2)
  PROVE  /\ q2 \in Seq(1..n) /\ Len(q2) <= QueueMax /\ d2 \in Nat
         /\ Len(q2) + d2 = Len(q) + Len(new) + d
<1>1. q \o new \in Seq(1..n) /\ Len(q \o new) = Len(q) + Len(new)
  BY ConcatProperties
<1>2. q \o new \in Seq(Nat) /\ Len(q) \in Nat /\ Len(new) \in Nat
  BY <1>1, SeqGrows
<1>3. /\ q2 \in Seq(1..n) /\ Len(q2) <= QueueMax
      /\ Len(q2) + Overflow(Len(q \o new)) = Len(q \o new)
      /\ Overflow(Len(q \o new)) \in Nat
  BY <1>1, <1>2, EnqueueBounds DEF Enqueued
<1>4. d2 = d + Overflow(Len(q \o new))
  BY DEF Enqueued
<1>5. Len(q2) \in Nat
  BY <1>3, LenProperties
<1>6. d2 \in Nat
  BY <1>3, <1>4
<1>7. Len(q2) + d2 = Len(q) + Len(new) + d
  <2> DEFINE o == Overflow(Len(q \o new))
             l == Len(q2)
             a == Len(q)
             b == Len(new)
  <2>1. o \in Nat /\ l \in Nat /\ a \in Nat /\ b \in Nat
    BY <1>2, <1>3, <1>5
  <2>2. l + o = a + b
    BY <1>1, <1>3, Zenon
  <2>3. d2 = d + o
    BY <1>4
  <2>4. l + d2 = a + b + d
    <3> HIDE DEF o, l, a, b
    <3> QED BY <2>1, <2>2, <2>3
  <2> QED BY <2>4
<1> QED BY <1>3, <1>6, <1>7

-----------------------------------------------------------------------------
\* Taking the backlog splits the queue in two.
LEMMA BacklogStep ==
  ASSUME QueueTypeOK, TickOnline, BoundsAssumption
  PROVE  /\ batch' \in Seq(1..built') /\ Len(batch') <= BatchMax
         /\ queue' \in Seq(1..built') /\ Len(queue') <= QueueMax
         /\ Len(queue') + Len(batch') = Len(queue) + 1
<1> DEFINE sent == SubSeq(queue, 1, Backlog)
           rest == SubSeq(queue, Backlog + 1, Len(queue))
<1>1. queue \in Seq(1..(built + 1)) /\ Len(queue) \in Nat /\ built \in Nat
  BY SeqGrows DEF QueueTypeOK
<1>2. Backlog \in Nat /\ Backlog <= Len(queue) /\ Backlog + 1 <= BatchMax
  BY <1>1 DEF Backlog, BoundsAssumption
<1>3. sent \in Seq(1..(built + 1)) /\ Len(sent) = Backlog
  BY <1>1, <1>2, SubSeqProperties
<1>4. rest \in Seq(1..(built + 1)) /\ Len(rest) = Len(queue) - Backlog
  BY <1>1, <1>2, SubSeqProperties
<1>5. <<built + 1>> \in Seq(1..(built + 1)) /\ Len(<<built + 1>>) = 1
  BY <1>1
<1>6. /\ sent \o <<built + 1>> \in Seq(1..(built + 1))
      /\ Len(sent \o <<built + 1>>) = Backlog + 1
  BY <1>2, <1>3, <1>5, ConcatProperties
<1>7. batch' = sent \o <<built + 1>> /\ queue' = rest /\ built' = built + 1
  BY DEF TickOnline
<1>8. Len(queue) <= QueueMax /\ QueueMax \in Nat /\ BatchMax \in Nat
  BY DEF QueueTypeOK, BoundsAssumption
<1>9. batch' \in Seq(1..built') /\ queue' \in Seq(1..built')
  BY <1>4, <1>6, <1>7
<1>10. Len(batch') = Backlog + 1 /\ Len(queue') = Len(queue) - Backlog
  BY <1>4, <1>6, <1>7
<1> QED BY <1>1, <1>2, <1>8, <1>9, <1>10

\* The inductive invariant: the conservation law needs the types (lengths are
\* numbers, the queue within its bound) and nothing else.
Accounts == QueueTypeOK /\ EverySnapshotAccounted

\* Each step of the thread, and each change around it, keeps the accounts.
LEMMA AccountsPreserved ==
  ASSUME Accounts, [QueueNext]_queueVars, BoundsAssumption
  PROVE  Accounts'
<1>0. /\ Len(queue) \in Nat /\ Len(batch) \in Nat /\ built \in Nat
      /\ dropped \in Nat /\ acked \in Nat
  BY SeqGrows DEF Accounts, QueueTypeOK
<1>t. QueueTypeOK /\ built = Len(queue) + Len(batch) + acked + dropped
  BY DEF Accounts, EverySnapshotAccounted
<1>1. CASE TickOffline
  <2>1. queue \in Seq(1..(built + 1)) /\ batch \in Seq(1..(built + 1))
    BY <1>t, SeqGrows DEF QueueTypeOK
  <2>2. <<built + 1>> \in Seq(1..(built + 1)) /\ Len(<<built + 1>>) = 1
    BY <1>0
  <2>e. Enqueued(queue, dropped, <<built + 1>>, queue', dropped')
    BY <1>1 DEF TickOffline, Enqueue, Enqueued
  <2>3. /\ queue' \in Seq(1..(built + 1)) /\ Len(queue') <= QueueMax
        /\ dropped' \in Nat
        /\ Len(queue') + dropped' = Len(queue) + Len(<<built + 1>>) + dropped
    <3> DEFINE m == built + 1
               new == <<built + 1>>
    <3>1. /\ m \in Nat /\ QueueMax \in Nat \ {0}
          /\ queue \in Seq(1..m) /\ new \in Seq(1..m) /\ dropped \in Nat
      BY <1>0, <2>1, <2>2 DEF BoundsAssumption
    <3>2. Enqueued(queue, dropped, new, queue', dropped')
      BY <2>e
    <3>3. /\ queue' \in Seq(1..m) /\ Len(queue') <= QueueMax /\ dropped' \in Nat
          /\ Len(queue') + dropped' = Len(queue) + Len(new) + dropped
      <4> HIDE DEF m, new
      <4> QED BY <3>1, <3>2, EnqueueStep
    <3> QED BY <3>3
  <2>4. Len(queue') \in Nat
    BY <2>3, LenProperties
  <2>5. QueueTypeOK'
    BY <1>0, <1>1, <1>t, <2>1, <2>3 DEF TickOffline, QueueTypeOK
  <2>6. built' = built + 1 /\ batch' = batch /\ acked' = acked
    BY <1>1 DEF TickOffline
  <2>7. EverySnapshotAccounted'
    <3>1. Len(queue') + dropped' = Len(queue) + 1 + dropped /\ dropped' \in Nat
      BY <2>2, <2>3, Zenon
    <3> QED BY <1>0, <1>t, <2>4, <2>6, <3>1 DEF EverySnapshotAccounted
  <2> QED BY <2>5, <2>7 DEF Accounts
<1>2. CASE TickOnline
  <2>1. /\ batch' \in Seq(1..built') /\ Len(batch') <= BatchMax
        /\ queue' \in Seq(1..built') /\ Len(queue') <= QueueMax
        /\ Len(queue') + Len(batch') = Len(queue) + 1
    BY <1>2, <1>t, BacklogStep
  <2>2. Len(batch) = 0
    BY <1>2 DEF TickOnline, TickStarts
  <2>3. Len(queue') \in Nat /\ Len(batch') \in Nat
    BY <2>1, LenProperties
  <2>4. QueueTypeOK'
    <3>1. /\ built' = built + 1 /\ pushing' = pushing /\ cadenced' = cadenced
          /\ pushOnline' = pushOnline /\ dropped' = dropped /\ acked' = acked
          /\ arrived' = arrived
      BY <1>2 DEF TickOnline
    <3>2. built' \in Nat /\ arrived' \subseteq 1..built'
      BY <1>0, <1>t, <3>1 DEF QueueTypeOK
    <3> QED BY <1>0, <1>t, <2>1, <3>1, <3>2 DEF QueueTypeOK
  <2>5. built' = built + 1 /\ acked' = acked /\ dropped' = dropped
    BY <1>2 DEF TickOnline
  <2>6. EverySnapshotAccounted'
    <3>1. Len(queue') + Len(batch') = Len(queue) + 1
      BY <2>1
    <3> QED BY <1>0, <1>t, <2>2, <2>3, <2>5, <3>1 DEF EverySnapshotAccounted
  <2> QED BY <2>4, <2>6 DEF Accounts
<1>3. CASE PushSucceeds
  <2>1. Range(batch) \subseteq 1..built
    BY <1>t DEF QueueTypeOK, Range
  <2>2. batch' = <<>> /\ Len(batch') = 0 /\ batch' \in Seq(1..built)
    BY <1>3 DEF PushSucceeds
  <2>3. QueueTypeOK'
    <3>1. /\ queue' = queue /\ dropped' = dropped /\ built' = built
          /\ pushing' = pushing /\ cadenced' = cadenced /\ pushOnline' = pushOnline
          /\ arrived' = arrived \cup Range(batch) /\ acked' = acked + Len(batch)
      BY <1>3 DEF PushSucceeds
    <3>2. arrived' \subseteq 1..built' /\ acked' \in Nat
      <4>1. arrived \subseteq 1..built
        BY <1>t DEF QueueTypeOK
      <4>2. arrived' \subseteq 1..built'
        BY <2>1, <3>1, <4>1
      <4>3. acked' \in Nat
        BY <1>0, <3>1
      <4> QED BY <4>2, <4>3
    <3>3. batch' \in Seq(1..built') /\ Len(batch') <= BatchMax
      BY <2>2, <3>1 DEF BoundsAssumption
    <3> QED BY <1>t, <3>1, <3>2, <3>3 DEF QueueTypeOK
  <2>4. queue' = queue /\ dropped' = dropped /\ built' = built
        /\ acked' = acked + Len(batch)
    BY <1>3 DEF PushSucceeds
  <2>5. EverySnapshotAccounted'
    BY <1>0, <1>t, <2>2, <2>4 DEF EverySnapshotAccounted
  <2> QED BY <2>3, <2>5 DEF Accounts
<1>4. CASE PushFails
  <2>1. Range(batch) \subseteq 1..built
    BY <1>t DEF QueueTypeOK, Range
  <2>2. batch' = <<>> /\ Len(batch') = 0 /\ batch' \in Seq(1..built)
    BY <1>4 DEF PushFails
  <2>e. Enqueued(queue, dropped, batch, queue', dropped')
    BY <1>4 DEF PushFails, Enqueue, Enqueued
  <2>3. /\ queue' \in Seq(1..built) /\ Len(queue') <= QueueMax /\ dropped' \in Nat
        /\ Len(queue') + dropped' = Len(queue) + Len(batch) + dropped
    BY <1>0, <1>t, <2>e, EnqueueStep DEF QueueTypeOK, BoundsAssumption
  <2>4. Len(queue') \in Nat
    BY <2>3, LenProperties
  <2>5. arrived' \subseteq 1..built
    BY <1>4, <1>t, <2>1 DEF PushFails, QueueTypeOK
  <2>6. QueueTypeOK'
    BY <1>0, <1>4, <1>t, <2>2, <2>3, <2>5 DEF PushFails, QueueTypeOK, BoundsAssumption
  <2>7. built' = built /\ acked' = acked
    BY <1>4 DEF PushFails
  <2>8. EverySnapshotAccounted'
    <3>1. Len(queue') + dropped' = Len(queue) + Len(batch) + dropped /\ dropped' \in Nat
      BY <2>3
    <3>2. Len(batch') = 0
      BY <2>2
    <3> QED BY <1>0, <1>t, <2>4, <2>7, <3>1, <3>2 DEF EverySnapshotAccounted
  <2> QED BY <2>6, <2>8 DEF Accounts
<1>5. CASE QueueStop \/ ProbeAnswers \/ ModeChanges
  BY <1>5 DEF Accounts, QueueStop, ProbeAnswers, ModeChanges, QueueTypeOK, EverySnapshotAccounted
<1>6. CASE UNCHANGED queueVars
  BY <1>6 DEF Accounts, queueVars, QueueTypeOK, EverySnapshotAccounted
<1> QED BY <1>1, <1>2, <1>3, <1>4, <1>5, <1>6 DEF QueueNext

\* For every capacity, batch size and number of snapshots the queue's state stays
\* well typed: neither queue nor batch grows past its bound.
THEOREM TypeCorrect == QueueSpec => []QueueTypeOK
<1> USE BoundsAssumption
<1>1. QueueInit => Accounts
  BY DEF QueueInit, Accounts, QueueTypeOK, EverySnapshotAccounted, BoundsAssumption
<1>2. Accounts /\ [QueueNext]_queueVars => Accounts'
  BY AccountsPreserved
<1>3. Accounts => QueueTypeOK
  BY DEF Accounts
<1> QED BY <1>1, <1>2, <1>3, PTL DEF QueueSpec

\* However often pushes fail and the queue overflows, every snapshot built is
\* queued, in flight, acknowledged or counted as dropped.
THEOREM AccountingTheorem == QueueSpec => []EverySnapshotAccounted
<1> USE BoundsAssumption
<1>1. QueueInit => Accounts
  BY DEF QueueInit, Accounts, QueueTypeOK, EverySnapshotAccounted, BoundsAssumption
<1>2. Accounts /\ [QueueNext]_queueVars => Accounts'
  BY AccountsPreserved
<1>3. Accounts => EverySnapshotAccounted
  BY DEF Accounts
<1> QED BY <1>1, <1>2, <1>3, PTL DEF QueueSpec

-----------------------------------------------------------------------------
(***************************************************************************)
(* The refinement.  The store's items are the members of queue and batch,  *)
(* so what it says of cardinalities needs that they are distinct.          *)
(***************************************************************************)
Distinct(s) == \A i, j \in 1..Len(s) : s[i] = s[j] => i = j
Apart(s, t) == \A i \in 1..Len(s), j \in 1..Len(t) : s[i] # t[j]

Refines ==
  /\ Accounts
  /\ Distinct(queue) /\ Distinct(batch) /\ Apart(queue, batch)
  /\ Len(queue) + Len(batch) <= QueueMax + 1

\* A sequence without repetitions has as many members as its length says.
LEMMA DistinctCount ==
  ASSUME NEW S, NEW s \in Seq(S), Distinct(s)
  PROVE  IsFiniteSet(Range(s)) /\ Cardinality(Range(s)) = Len(s)
<1>1. Len(s) \in Nat /\ s \in [1..Len(s) -> S] /\ DOMAIN s = 1..Len(s)
  BY LenProperties
<1>2. s \in [1..Len(s) -> Range(s)] /\ \A x \in Range(s) : \E i \in 1..Len(s) : s[i] = x
  BY <1>1 DEF Range
<1>3. s \in Injection(1..Len(s), Range(s)) /\ s \in Surjection(1..Len(s), Range(s))
  BY <1>1, <1>2 DEF Distinct, Injection, IsInjective, Surjection
<1>4. ExistsBijection(1..Len(s), Range(s))
  BY <1>3 DEF ExistsBijection, Bijection
<1>. QED BY <1>1, <1>4, FS_CountingElements, FS_NatBijection

\* Two that share no member make one, with the members of both.
LEMMA DistinctConcat ==
  ASSUME NEW S, NEW s \in Seq(S), NEW t \in Seq(S),
         Distinct(s), Distinct(t), Apart(s, t)
  PROVE  Distinct(s \o t) /\ Range(s \o t) = Range(s) \cup Range(t)
<1>1. Len(s) \in Nat /\ Len(t) \in Nat
  BY LenProperties
<1>2. /\ s \o t \in Seq(S) /\ Len(s \o t) = Len(s) + Len(t)
      /\ \A i \in 1..(Len(s) + Len(t)) :
           (s \o t)[i] = IF i <= Len(s) THEN s[i] ELSE t[i - Len(s)]
  BY ConcatProperties
<1>3. Distinct(s \o t)
  <2>. DEFINE u == s \o t
              a == Len(s)
              b == Len(t)
  <2>1. SUFFICES ASSUME NEW i \in 1..(a + b), NEW j \in 1..(a + b), u[i] = u[j]
                 PROVE  i = j
    BY <1>2 DEF Distinct
  <2>2. /\ a \in Nat /\ b \in Nat
        /\ \A k \in 1..(a + b) : u[k] = IF k <= a THEN s[k] ELSE t[k - a]
        /\ \A k, l \in 1..a : s[k] = s[l] => k = l
        /\ \A k, l \in 1..b : t[k] = t[l] => k = l
        /\ \A k \in 1..a, l \in 1..b : s[k] # t[l]
    BY <1>1, <1>2 DEF Distinct, Apart
  <2>. HIDE DEF u, a, b
  <2>. QED BY <2>1, <2>2
<1>4. Range(s \o t) = Range(s) \cup Range(t)
  BY RangeConcatenation
<1>. QED BY <1>3, <1>4

\* What is left when the first member goes.
LEMMA DistinctRest ==
  ASSUME NEW S, NEW s \in Seq(S), Distinct(s), Len(s) # 0
  PROVE  LET rest == SubSeq(s, 2, Len(s)) IN
         Distinct(rest) /\ Range(rest) = Range(s) \ {s[1]} /\ s[1] \in Range(s)
<1>. DEFINE rest == SubSeq(s, 2, Len(s))
            n == Len(s)
<1>1. /\ n \in Nat \ {0} /\ s \in [1..n -> S] /\ DOMAIN s = 1..n
      /\ \A i, j \in 1..n : s[i] = s[j] => i = j
  BY LenProperties DEF Distinct
<1>2. \A i \in 2..n : s[i] \in S
  BY <1>1
<1>3. /\ rest \in Seq(S) /\ Len(rest) = n - 1
      /\ \A i \in 1..(n - 1) : rest[i] = s[i + 1]
  <2>1. /\ SubSeq(s, 2, n) \in Seq(S)
        /\ Len(SubSeq(s, 2, n)) = IF 2 <= n THEN n - 2 + 1 ELSE 0
        /\ \A i \in 1..(n - 2 + 1) : SubSeq(s, 2, n)[i] = s[2 + i - 1]
    <3>. HIDE DEF n
    <3>. QED BY <1>1, <1>2, SubSeqProperties
  <2>. HIDE DEF rest, n
  <2>. QED BY <1>1, <2>1 DEF rest
<1>4. DOMAIN rest = 1..(n - 1)
  BY <1>3, LenProperties
<1>. HIDE DEF rest, n
<1>5. Distinct(rest)
  BY <1>1, <1>3 DEF Distinct
<1>6. Range(rest) = Range(s) \ {s[1]}
  <2>1. \A x \in Range(rest) : x \in Range(s) /\ x # s[1]
    BY <1>1, <1>3, <1>4 DEF Range
  <2>2. ASSUME NEW x \in Range(s), x # s[1] PROVE x \in Range(rest)
    <3>1. PICK i \in 1..n : x = s[i]
      BY <1>1 DEF Range
    <3>2. i - 1 \in 1..(n - 1) /\ rest[i - 1] = s[i]
      BY <1>1, <1>3, <2>2, <3>1
    <3>. QED BY <1>4, <3>1, <3>2 DEF Range
  <2>. QED BY <2>1, <2>2
<1>7. s[1] \in Range(s)
  BY <1>1 DEF Range
<1>. QED BY <1>5, <1>6, <1>7 DEF rest, n

\* All of items stay, or there was one too many, which went and was counted.
OneTooMany(items, left, d, d2) ==
  \/ left = items /\ d2 = d
  \/ /\ Cardinality(items) > QueueMax /\ d2 = d + 1
     /\ \E gone \in items : left = items \ {gone}

\* What _enqueue does to the members of the queue.
LEMMA EnqueueMembers ==
  ASSUME NEW S, NEW q \in Seq(S), NEW new \in Seq(S), NEW d \in Nat, NEW q2, NEW d2,
         Distinct(q), Distinct(new), Apart(q, new),
         QueueMax \in Nat \ {0}, Len(q) + Len(new) <= QueueMax + 1,
         Enqueued(q, d, new, q2, d2)
  PROVE  /\ Distinct(q2) /\ Cardinality(Range(q) \cup Range(new)) = Len(q) + Len(new)
         /\ OneTooMany(Range(q) \cup Range(new), Range(q2), d, d2)
<1>. DEFINE all == q \o new
            items == Range(q) \cup Range(new)
<1>1. all \in Seq(S) /\ Len(all) = Len(q) + Len(new) /\ Len(all) \in Nat
  BY ConcatProperties, LenProperties
<1>2. Distinct(all) /\ Range(all) = items
  BY DistinctConcat
<1>3. Cardinality(items) = Len(all)
  BY <1>1, <1>2, DistinctCount
<1>4. q2 = SubSeq(all, Overflow(Len(all)) + 1, Len(all)) /\ d2 = d + Overflow(Len(all))
  BY DEF Enqueued
<1>5. CASE Len(all) <= QueueMax
  <2>1. Overflow(Len(all)) = 0
    BY <1>1, <1>5 DEF Overflow
  <2>2. q2 = SubSeq(all, 1, Len(all)) /\ d2 = d
    BY <1>4, <2>1
  <2>3. q2 = all
    <3>. HIDE DEF all
    <3>. QED BY <1>1, <2>2, SubSeqFull
  <2>. QED BY <1>1, <1>2, <1>3, <2>2, <2>3 DEF OneTooMany
<1>6. CASE Len(all) = QueueMax + 1
  <2>1. Overflow(Len(all)) = 1 /\ Len(all) # 0 /\ Len(all) > QueueMax
    BY <1>1, <1>6 DEF Overflow
  <2>2. q2 = SubSeq(all, 2, Len(all)) /\ d2 = d + 1
    BY <1>4, <2>1
  <2>3. Distinct(q2) /\ Range(q2) = Range(all) \ {all[1]} /\ all[1] \in Range(all)
    BY <1>1, <1>2, <2>1, <2>2, DistinctRest
  <2>. QED BY <1>1, <1>2, <1>3, <2>1, <2>2, <2>3 DEF OneTooMany
<1>. QED BY <1>1, <1>5, <1>6

\* Taking the backlog: queue and batch have the old members and the new one.
LEMMA BacklogMembers ==
  ASSUME QueueTypeOK, Distinct(queue), TickOnline, BoundsAssumption
  PROVE  /\ Distinct(queue') /\ Distinct(batch') /\ Apart(queue', batch')
         /\ Range(queue') \cup Range(batch') = Range(queue) \cup {built + 1}
<1>. DEFINE n == Len(queue)
            b == Backlog
            m == built + 1
            one == <<m>>
            sent == SubSeq(queue, 1, b)
            rest == SubSeq(queue, b + 1, n)
<1>1. /\ n \in Nat /\ built \in Nat /\ queue \in [1..n -> 1..built]
      /\ DOMAIN queue = 1..n /\ \A i, j \in 1..n : queue[i] = queue[j] => i = j
  BY LenProperties DEF QueueTypeOK, Distinct
<1>2. b \in Nat /\ b <= n
  BY <1>1 DEF Backlog, BoundsAssumption
<1>3. m \in Nat /\ m \in 1..m /\ \A i \in 1..n : queue[i] \in 1..m /\ queue[i] # m
  BY <1>1
<1>. HIDE DEF n, b, m
<1>4. sent \in Seq(1..m) /\ Len(sent) = b /\ \A i \in 1..b : sent[i] = queue[i]
  BY <1>1, <1>2, <1>3, SubSeqProperties
<1>5. /\ rest \in Seq(1..m) /\ Len(rest) = n - b
      /\ \A i \in 1..(n - b) : rest[i] = queue[b + i]
  <2>1. \A i \in (b + 1)..n : queue[i] \in 1..m
    BY <1>1, <1>2, <1>3
  <2>2. /\ rest \in Seq(1..m)
        /\ Len(rest) = IF b + 1 <= n THEN n - (b + 1) + 1 ELSE 0
        /\ \A i \in 1..(n - (b + 1) + 1) : rest[i] = queue[b + 1 + i - 1]
    BY <1>1, <1>2, <2>1, SubSeqProperties
  <2>. HIDE DEF rest
  <2>. QED BY <1>1, <1>2, <2>2
<1>. HIDE DEF sent, rest
<1>6. one \in Seq(1..m) /\ Len(one) = 1 /\ one[1] = m /\ Range(one) = {m}
  BY <1>3 DEF Range
<1>. HIDE DEF one
<1>7. Distinct(sent) /\ Distinct(rest) /\ Distinct(one)
  <2>1. Distinct(one)
    BY <1>6 DEF Distinct
  <2>2. Distinct(sent)
    BY <1>1, <1>2, <1>4 DEF Distinct
  <2>3. Distinct(rest)
    BY <1>1, <1>2, <1>5 DEF Distinct
  <2>. QED BY <2>1, <2>2, <2>3
<1>8. Apart(sent, one)
  BY <1>1, <1>2, <1>3, <1>4, <1>6 DEF Apart
<1>9. DOMAIN sent = 1..b /\ DOMAIN rest = 1..(n - b)
  BY <1>4, <1>5, LenProperties
<1>10. Range(sent) \cup Range(rest) = Range(queue)
  <2>1. ASSUME NEW x \in Range(queue) PROVE x \in Range(sent) \cup Range(rest)
    <3>1. PICK i \in 1..n : x = queue[i]
      BY <1>1 DEF Range
    <3>2. CASE i <= b
      BY <1>2, <1>4, <1>9, <3>1, <3>2 DEF Range
    <3>3. CASE i > b
      <4>1. i - b \in 1..(n - b) /\ b + (i - b) = i
        BY <1>1, <1>2, <3>1, <3>3
      <4>. QED BY <1>5, <1>9, <3>1, <4>1 DEF Range
    <3>. QED BY <1>2, <3>1, <3>2, <3>3
  <2>2. \A i \in 1..(n - b) : b + i \in 1..n
    BY <1>1, <1>2
  <2>3. Range(sent) \subseteq Range(queue) /\ Range(rest) \subseteq Range(queue)
    BY <1>1, <1>2, <1>4, <1>5, <1>9, <2>2 DEF Range
  <2>. QED BY <2>1, <2>3
<1>11. Distinct(sent \o one) /\ Range(sent \o one) = Range(sent) \cup {m}
  BY <1>4, <1>6, <1>7, <1>8, <1>9, DistinctConcat
<1>12. Apart(rest, sent \o one)
  <2>1. /\ Len(sent \o one) = b + 1
        /\ \A i \in 1..(b + 1) : (sent \o one)[i] = IF i <= b THEN sent[i] ELSE m
    <3>1. /\ Len(sent \o one) = Len(sent) + Len(one)
          /\ \A i \in 1..(Len(sent) + Len(one)) :
               (sent \o one)[i] = IF i <= Len(sent) THEN sent[i] ELSE one[i - Len(sent)]
      BY <1>4, <1>6, ConcatProperties
    <3>. QED BY <1>2, <1>4, <1>6, <3>1
  <2>2. ASSUME NEW i \in 1..(n - b), NEW j \in 1..(b + 1) PROVE rest[i] # (sent \o one)[j]
    <3>1. rest[i] = queue[b + i] /\ b + i \in 1..n
      BY <1>1, <1>2, <1>5
    <3>2. CASE j <= b
      <4>1. (sent \o one)[j] = queue[j] /\ j \in 1..n /\ b + i # j
        BY <1>1, <1>2, <1>4, <2>1, <3>2
      <4>. QED BY <1>1, <3>1, <4>1
    <3>3. CASE j > b
      <4>1. (sent \o one)[j] = m
        BY <1>2, <2>1, <3>3
      <4>2. queue[b + i] # m
        BY <1>3, <3>1
      <4>. QED BY <3>1, <4>1, <4>2
    <3>4. j <= b \/ j > b
      BY <1>2
    <3>. QED BY <3>2, <3>3, <3>4
  <2>. QED BY <1>5, <2>1, <2>2 DEF Apart
<1>13. queue' = rest /\ batch' = sent \o one
  BY DEF TickOnline, rest, sent, one, n, b, m
<1>. QED BY <1>7, <1>10, <1>11, <1>12, <1>13 DEF m

-----------------------------------------------------------------------------
\* The store counts its items as this module does.
LEMMA StoreCardinality == \A S : Store!Cardinality(S) = Cardinality(S)
BY Zenon DEF Store!Cardinality, Cardinality

\* Every step of the thread is one of the store, or leaves it alone, and keeps
\* the members of queue and batch distinct.
LEMMA StepRefines ==
  ASSUME Refines, [QueueNext]_queueVars, BoundsAssumption
  PROVE  Refines' /\ [Store!StoreNext]_Store!storeVars
<1>0. /\ Len(queue) \in Nat /\ Len(batch) \in Nat /\ built \in Nat /\ dropped \in Nat
      /\ QueueMax \in Nat \ {0} /\ Len(queue) <= QueueMax
      /\ queue \in Seq(1..built) /\ batch \in Seq(1..built) /\ arrived \subseteq 1..built
  BY SeqGrows DEF Refines, Accounts, QueueTypeOK, BoundsAssumption
<1>a. Accounts /\ Accounts'
  BY AccountsPreserved DEF Refines
<1>b. Distinct(queue) /\ Distinct(batch) /\ Apart(queue, batch)
  BY DEF Refines
<1>c. Range(queue) \subseteq 1..built /\ Range(batch) \subseteq 1..built
  BY <1>0, RangeOfSeq
<1>d. Range(<<>>) = {} /\ Len(<<>>) = 0 /\ Distinct(<<>>)
  BY DEF Range, Distinct
<1>e. \A s : Apart(s, <<>>) /\ Apart(<<>>, s)
  BY DEF Apart
<1>1. CASE TickOffline
  <2>. DEFINE m == built + 1
              new == <<m>>
  <2>1. /\ m \in Nat /\ new \in Seq(1..m) /\ queue \in Seq(1..m)
        /\ Len(new) = 1 /\ Distinct(new) /\ Range(new) = {m}
    BY <1>0, SeqGrows DEF Distinct, Range
  <2>2. Apart(queue, new)
    BY <1>0, LenProperties DEF Apart
  <2>3. /\ Enqueued(queue, dropped, new, queue', dropped') /\ m <= MaxBuilt
        /\ batch = <<>> /\ batch' = <<>> /\ arrived' = arrived
    BY <1>0, <1>1 DEF TickOffline, TickStarts, Enqueue, Enqueued, BoundsAssumption
  <2>4. Len(queue) + Len(new) <= QueueMax + 1
    BY <1>0, <2>1
  <2>. HIDE DEF m, new
  <2>5. /\ Distinct(queue')
        /\ Cardinality(Range(queue) \cup Range(new)) = Len(queue) + Len(new)
        /\ OneTooMany(Range(queue) \cup Range(new), Range(queue'), dropped, dropped')
    BY <1>0, <1>b, <2>1, <2>2, <2>3, <2>4, EnqueueMembers
  <2>6. Held = Range(queue) /\ Held' = Range(queue')
    BY <1>d, <2>3 DEF Held
  <2>7. Store!Keep(Held \cup {m})
    BY <2>1, <2>4, <2>5, <2>6, StoreCardinality DEF Store!Keep, OneTooMany
  <2>8. m \in 1..MaxBuilt /\ m \notin Held \cup arrived
    BY <1>0, <1>c, <2>3, <2>6 DEF m, BoundsAssumption
  <2>9. Store!Take
    BY <2>3, <2>7, <2>8 DEF Store!Take
  <2>10. Len(queue') + Len(batch') <= QueueMax + 1
    BY <1>0, <1>a, <1>d, <2>3, SeqGrows DEF Accounts, QueueTypeOK
  <2>. QED BY <1>a, <1>d, <1>e, <2>3, <2>5, <2>9, <2>10 DEF Refines, Store!StoreNext
<1>2. CASE TickOnline
  <2>1. /\ Distinct(queue') /\ Distinct(batch') /\ Apart(queue', batch')
        /\ Range(queue') \cup Range(batch') = Range(queue) \cup {built + 1}
    BY <1>a, <1>b, <1>2, BacklogMembers DEF Accounts
  <2>2. /\ batch = <<>> /\ built + 1 <= MaxBuilt
        /\ UNCHANGED <<dropped, arrived>>
    BY <1>0, <1>2 DEF TickOnline, TickStarts, BoundsAssumption
  <2>3. Held = Range(queue) /\ Held' = Held \cup {built + 1}
    BY <1>d, <2>1, <2>2 DEF Held
  <2>4. IsFiniteSet(Held) /\ Cardinality(Held) = Len(queue)
    BY <1>0, <1>b, <2>3, DistinctCount
  <2>5. built + 1 \in 1..MaxBuilt /\ built + 1 \notin Held \cup arrived
    BY <1>0, <1>c, <2>2, <2>3 DEF BoundsAssumption
  <2>6. Cardinality(Held \cup {built + 1}) = Len(queue) + 1
    BY <2>4, <2>5, FS_AddElement
  <2>7. Store!Keep(Held \cup {built + 1})
    BY <1>0, <2>2, <2>3, <2>6, StoreCardinality DEF Store!Keep
  <2>8. Store!Take
    BY <2>2, <2>5, <2>7 DEF Store!Take
  <2>9. Len(queue') + Len(batch') <= QueueMax + 1
    BY <1>0, <1>a, <1>2, BacklogStep DEF Accounts
  <2>. QED BY <1>a, <2>1, <2>8, <2>9 DEF Refines, Store!StoreNext
<1>3. CASE PushSucceeds
  <2>1. /\ UNCHANGED <<queue, dropped>> /\ batch' = <<>>
        /\ arrived' = arrived \cup Range(batch)
    BY <1>3 DEF PushSucceeds
  <2>2. Range(queue) \cap Range(batch) = {}
    BY <1>0, <1>b, LenProperties DEF Apart, Range
  <2>3. Held' = Held \ Range(batch) /\ Range(batch) \in SUBSET Held
    BY <1>d, <2>1, <2>2 DEF Held
  <2>4. Store!Deliver
    BY <2>1, <2>3 DEF Store!Deliver
  <2>5. Len(queue') + Len(batch') <= QueueMax + 1
    BY <1>0, <1>d, <2>1
  <2>. QED BY <1>a, <1>b, <1>d, <1>e, <2>1, <2>4, <2>5 DEF Refines, Store!StoreNext
<1>4. CASE PushFails
  <2>1. /\ Enqueued(queue, dropped, batch, queue', dropped') /\ batch' = <<>>
        /\ arrived' = arrived \/ arrived' = arrived \cup Range(batch)
    BY <1>4 DEF PushFails, Enqueue, Enqueued
  <2>2. Len(queue) + Len(batch) <= QueueMax + 1
    BY DEF Refines
  <2>3. /\ Distinct(queue') /\ Cardinality(Held) = Len(queue) + Len(batch)
        /\ OneTooMany(Held, Range(queue'), dropped, dropped')
    BY <1>0, <1>b, <2>1, <2>2, EnqueueMembers DEF Held
  <2>4. Held' = Range(queue')
    BY <1>d, <2>1 DEF Held
  <2>5. Store!Keep(Held)
    BY <2>2, <2>3, <2>4, StoreCardinality DEF Store!Keep, OneTooMany
  <2>6. \E items \in SUBSET Held : arrived' = arrived \cup items
    <3>1. CASE arrived' = arrived
      BY <3>1, {} \in SUBSET Held
    <3>2. CASE arrived' = arrived \cup Range(batch)
      BY <3>2, Range(batch) \in SUBSET Held DEF Held
    <3>. QED BY <2>1, <3>1, <3>2
  <2>7. Store!Fail
    BY <2>5, <2>6 DEF Store!Fail
  <2>8. Len(queue') + Len(batch') <= QueueMax + 1
    BY <1>0, <1>a, <1>d, <2>1, SeqGrows DEF Accounts, QueueTypeOK
  <2>. QED BY <1>a, <1>d, <1>e, <2>1, <2>3, <2>7, <2>8 DEF Refines, Store!StoreNext
<1>5. CASE QueueStop \/ ProbeAnswers \/ ModeChanges \/ UNCHANGED queueVars
  <2>1. UNCHANGED <<queue, batch, dropped, arrived>>
    BY <1>5 DEF QueueStop, ProbeAnswers, ModeChanges, queueVars
  <2>2. UNCHANGED Held
    BY <2>1 DEF Held
  <2>. QED BY <1>a, <2>1, <2>2 DEF Refines, Store!storeVars
<1>. QED BY <1>1, <1>2, <1>3, <1>4, <1>5 DEF QueueNext

\* For every capacity, batch size and number of snapshots the thread implements
\* the lossy store: a snapshot goes only when it was delivered, or as the one too
\* many for a full queue, and is then counted.
THEOREM RefinementTheorem == QueueSpec => ImplementsLossyStore
<1>. USE BoundsAssumption
<1>1. QueueInit => Refines /\ Store!StoreInit
  <2>. SUFFICES ASSUME QueueInit PROVE Refines /\ Store!StoreInit
    OBVIOUS
  <2>1. Accounts
    BY DEF QueueInit, Accounts, QueueTypeOK, EverySnapshotAccounted, BoundsAssumption
  <2>2. queue = <<>> /\ batch = <<>> /\ arrived = {} /\ dropped = 0
    BY DEF QueueInit
  <2>3. Held = {}
    BY <2>2 DEF Held, Range
  <2>4. Distinct(<<>>) /\ Apart(<<>>, <<>>) /\ Len(<<>>) = 0
    BY DEF Distinct, Apart
  <2>5. Len(queue) + Len(batch) <= QueueMax + 1
    BY <2>2, <2>4 DEF BoundsAssumption
  <2>. QED BY <2>1, <2>2, <2>3, <2>4, <2>5 DEF Refines, Store!StoreInit
<1>2. Refines /\ [QueueNext]_queueVars => Refines' /\ [Store!StoreNext]_Store!storeVars
  BY StepRefines
<1>. QED BY <1>1, <1>2, PTL DEF QueueSpec, ImplementsLossyStore, Store!StoreSpec

-----------------------------------------------------------------------------
(***************************************************************************)
(* The inductive invariant of the logger.  Points taken from the buffer    *)
(* keep their room in it, so a failed write can put them all back; what is *)
(* a point in the buffer was in a failed write and stands before every     *)
(* snapshot, so a flush that raises has taken nothing else.                *)
(***************************************************************************)
RoomForAll == Len(points) + Len(buffer) <= BufferMax

NumbersKnown ==
  /\ \A i \in 1..Len(buffer) : buffer[i].n \in 1..collected
  /\ \A i \in 1..Len(points) : points[i].n \in 1..collected

ByPlace ==
  /\ influxAt = "idle" => points = <<>>
  /\ influxAt = "write" => buffer = <<>>

FormsInOrder ==
  /\ \A i \in 1..Len(points) : points[i].form = "point"
  /\ \A i \in 1..Len(buffer) : buffer[i].form = "point" => buffer[i].n \in refused /\ points = <<>>
  /\ \A i, j \in 1..Len(buffer) : i < j /\ buffer[j].form = "point" => buffer[i].form = "point"

InfluxIInv ==
  InfluxTypeOK /\ RoomForAll /\ NumbersKnown /\ ByPlace /\ FormsInOrder
    /\ LostOnlyAfterItsWriteFailed

\* The snapshots of a sequence when an item is added at its end.
LEMMA NumbersOfAppend ==
  ASSUME NEW S, NEW s \in Seq(S), NEW item \in S
  PROVE  Numbers(Append(s, item)) = Numbers(s) \cup {item.n}
<1>. DEFINE t == Append(s, item)
<1>1. DOMAIN t = 1..(Len(s) + 1) /\ DOMAIN s = 1..Len(s) /\ Len(s) \in Nat
  OBVIOUS
<1>2. t[Len(s) + 1] = item /\ \A i \in 1..Len(s) : t[i] = s[i]
  OBVIOUS
<1>. HIDE DEF t
<1>3. Numbers(t) = {t[i].n : i \in 1..(Len(s) + 1)} /\ Numbers(s) = {s[i].n : i \in 1..Len(s)}
  BY <1>1 DEF Numbers
<1>4. \A i : i \in 1..(Len(s) + 1) <=> i \in 1..Len(s) \/ i = Len(s) + 1
  BY <1>1
<1>5. Numbers(t) = Numbers(s) \cup {item.n}
  BY <1>2, <1>3, <1>4
<1>. QED BY <1>5 DEF t

\* The snapshots of a sequence are the one of its head and those of its tail.
LEMMA NumbersOfTail ==
  ASSUME NEW S, NEW s \in Seq(S), s # <<>>
  PROVE  /\ Numbers(s) = {Head(s).n} \cup Numbers(Tail(s))
         /\ Tail(s) \in Seq(S) /\ Len(Tail(s)) = Len(s) - 1 /\ Head(s) = s[1] /\ s[1] \in S
         /\ Len(s) \in Nat /\ 1 \in 1..Len(s)
         /\ \A i \in 1..Len(Tail(s)) : i + 1 \in 1..Len(s) /\ Tail(s)[i] = s[i + 1]
<1>. DEFINE t == Tail(s)
<1>1. /\ t \in Seq(S) /\ Len(t) = Len(s) - 1 /\ Head(s) = s[1]
      /\ Len(s) \in Nat \ {0} /\ DOMAIN t = 1..Len(t) /\ DOMAIN s = 1..Len(s)
  OBVIOUS
<1>2. \A i \in 1..Len(t) : i + 1 \in 1..Len(s) /\ t[i] = s[i + 1]
  BY <1>1
<1>5. s[1] \in S /\ 1 \in 1..Len(s)
  BY <1>1
<1>. HIDE DEF t
<1>3. Numbers(t) = {t[i].n : i \in 1..Len(t)} /\ Numbers(s) = {s[i].n : i \in 1..Len(s)}
  BY <1>1 DEF Numbers
<1>4. \A i \in 1..Len(s) : i = 1 \/ (i - 1 \in 1..Len(t) /\ t[i - 1] = s[i])
  BY <1>1, <1>2
<1>6. Numbers(s) = {s[1].n} \cup Numbers(t)
  <2>1. \A x \in Numbers(s) : x \in {s[1].n} \cup Numbers(t)
    BY <1>3, <1>4
  <2>2. \A x \in {s[1].n} \cup Numbers(t) : x \in Numbers(s)
    BY <1>2, <1>3, <1>5
  <2>. QED BY <2>1, <2>2
<1>. QED BY <1>1, <1>2, <1>5, <1>6 DEF t

\* The snapshots of a sequence of items no later than the last one collected.
LEMMA NumbersWithin ==
  ASSUME NEW S, NEW s \in Seq(S), NEW m, \A i \in 1..Len(s) : s[i].n \in 1..m
  PROVE  Numbers(s) \subseteq 1..m
<1>1. DOMAIN s = 1..Len(s)
  OBVIOUS
<1>. QED BY <1>1 DEF Numbers

\* A round: the new snapshot is behind everything, what is pushed out is noted.
LEMMA RoundKeeps ==
  ASSUME InfluxIInv, RoundBegins
  PROVE  InfluxIInv'
<1>. USE InfluxAssumption
<1>. DEFINE item == [n |-> collected + 1, form |-> "snapshot"]
            all == Append(buffer, item)
<1>1. /\ influxAt = "idle" /\ points = <<>> /\ points' = points /\ refused' = refused
      /\ written' = written
      /\ collected' = collected + 1 /\ collected \in Nat /\ collected + 1 <= MaxCollected
  BY DEF RoundBegins, Collects, InfluxIInv, ByPlace, InfluxTypeOK
<1>2. /\ buffer \in Seq(Item) /\ Len(buffer) <= BufferMax /\ Len(buffer) \in Nat
      /\ points \in Seq(Item) /\ Len(points) = 0
  BY <1>1 DEF InfluxIInv, InfluxTypeOK
<1>3. item \in Item /\ item.n = collected + 1 /\ item.form = "snapshot"
  BY <1>1 DEF Item
<1>. HIDE DEF item
<1>4. /\ all \in Seq(Item) /\ Len(all) = Len(buffer) + 1
      /\ \A i \in 1..Len(buffer) : all[i] = buffer[i]
      /\ all[Len(buffer) + 1] = item
  BY <1>2, <1>3
<1>5. Numbers(all) = Numbers(buffer) \cup {collected + 1}
  BY <1>2, <1>3, NumbersOfAppend
<1>b. IF Len(all) > BufferMax
        THEN buffer' = Tail(all) /\ evicted' = evicted \cup {Head(all).n}
        ELSE buffer' = all /\ UNCHANGED evicted
  BY DEF RoundBegins, Buffered, item
<1>. HIDE DEF all
<1>6. /\ \A i \in 1..Len(all) : all[i].n \in 1..(collected + 1)
      /\ \A i \in 1..Len(all) : all[i].form = "point" => all[i].n \in refused
      /\ \A i, j \in 1..Len(all) : i < j /\ all[j].form = "point" => all[i].form = "point"
  <2>1. \A i \in 1..Len(all) : i \in 1..Len(buffer) \/ i = Len(buffer) + 1
    BY <1>2, <1>4
  <2>2. \A i \in 1..Len(buffer) : buffer[i].n \in 1..(collected + 1)
    BY <1>1 DEF InfluxIInv, NumbersKnown
  <2>3. collected + 1 \in 1..(collected + 1)
    BY <1>1
  <2>4. \A i \in 1..Len(all) : all[i].n \in 1..(collected + 1)
    BY <1>3, <1>4, <2>1, <2>2, <2>3
  <2>5. \A i \in 1..Len(all) : all[i].form = "point" => i \in 1..Len(buffer)
    BY <1>3, <1>4, <2>1
  <2>6. \A i \in 1..Len(all) : all[i].form = "point" => all[i].n \in refused
    BY <1>4, <2>5 DEF InfluxIInv, FormsInOrder
  <2>7. ASSUME NEW i \in 1..Len(all), NEW j \in 1..Len(all), i < j, all[j].form = "point"
        PROVE  all[i].form = "point"
    <3>1. i \in 1..Len(buffer) /\ j \in 1..Len(buffer)
      BY <1>2, <2>5, <2>7
    <3>. QED BY <1>4, <2>7, <3>1 DEF InfluxIInv, FormsInOrder
  <2>. QED BY <2>4, <2>6, <2>7
<1>7. all # <<>>
  BY <1>2, <1>4
<1>8. /\ Numbers(all) = {all[1].n} \cup Numbers(Tail(all))
      /\ Tail(all) \in Seq(Item) /\ Len(Tail(all)) = Len(all) - 1 /\ Head(all) = all[1]
      /\ 1 \in 1..Len(all)
      /\ \A i \in 1..Len(Tail(all)) : i + 1 \in 1..Len(all) /\ Tail(all)[i] = all[i + 1]
  BY <1>4, <1>7, NumbersOfTail
<1>9. /\ buffer' \in Seq(Item) /\ Len(buffer') <= BufferMax
      /\ \A i \in 1..Len(buffer') : buffer'[i].n \in 1..(collected + 1)
      /\ \A i \in 1..Len(buffer') : buffer'[i].form = "point" => buffer'[i].n \in refused
      /\ \A i, j \in 1..Len(buffer') :
           i < j /\ buffer'[j].form = "point" => buffer'[i].form = "point"
      /\ evicted' \subseteq 1..(collected + 1)
      /\ Numbers(buffer) \cup {collected + 1} \cup evicted \subseteq Numbers(buffer') \cup evicted'
  <2>1. evicted \subseteq 1..(collected + 1)
    <3>1. evicted \subseteq 1..collected
      BY DEF InfluxIInv, InfluxTypeOK
    <3>. QED BY <1>1, <3>1
  <2>2. CASE Len(all) > BufferMax
    <3>1. buffer' = Tail(all) /\ evicted' = evicted \cup {all[1].n}
      BY <1>b, <1>8, <2>2
    <3>2. Len(buffer') <= BufferMax
      BY <1>2, <1>4, <1>8, <3>1
    <3>3. \A i, j \in 1..Len(Tail(all)) : i < j => i + 1 < j + 1
      BY <1>8, <1>4
    <3>4. /\ \A i \in 1..Len(buffer') : buffer'[i].n \in 1..(collected + 1)
          /\ \A i \in 1..Len(buffer') : buffer'[i].form = "point" => buffer'[i].n \in refused
      BY <1>6, <1>8, <3>1
    <3>5. \A i, j \in 1..Len(buffer') :
            i < j /\ buffer'[j].form = "point" => buffer'[i].form = "point"
      BY <1>6, <1>8, <3>1, <3>3
    <3>6. all[1].n \in 1..(collected + 1)
      BY <1>6, <1>8
    <3>. QED BY <1>5, <1>8, <2>1, <3>1, <3>2, <3>4, <3>5, <3>6
  <2>3. CASE ~(Len(all) > BufferMax)
    <3>1. buffer' = all /\ evicted' = evicted
      BY <1>b, <2>3
    <3>2. Len(buffer') <= BufferMax
      BY <1>2, <1>4, <2>3, <3>1
    <3>. QED BY <1>4, <1>5, <1>6, <2>1, <3>1, <3>2
  <2>. QED BY <2>2, <2>3
<1>10. InfluxTypeOK'
  <2>1. /\ sensorsGiven' \in BOOLEAN /\ influxClient' \in BOOLEAN /\ influxRunning' \in BOOLEAN
        /\ influxAt' \in {"idle", "flush", "write"}
    BY DEF InfluxIInv, InfluxTypeOK, RoundBegins
  <2>2. collected' \in 0..MaxCollected
    BY <1>1
  <2>3. written' \subseteq 1..collected' /\ refused' \subseteq 1..collected'
    <3>1. written \subseteq 1..collected /\ refused \subseteq 1..collected
      BY DEF InfluxIInv, InfluxTypeOK
    <3>. QED BY <1>1, <3>1
  <2>4. evicted' \subseteq 1..collected'
    BY <1>1, <1>9
  <2>5. Len(points') <= BufferMax
    BY <1>1, <1>2
  <2>. QED BY <1>1, <1>2, <1>9, <2>1, <2>2, <2>3, <2>4, <2>5 DEF InfluxTypeOK
<1>11. RoomForAll'
  BY <1>1, <1>2, <1>9 DEF RoomForAll
<1>12. NumbersKnown'
  BY <1>1, <1>2, <1>9 DEF NumbersKnown
<1>13. ByPlace'
  <2>1. influxAt' # "write"
    BY DEF RoundBegins
  <2>. QED BY <1>1, <2>1 DEF ByPlace
<1>14. FormsInOrder'
  BY <1>1, <1>2, <1>9 DEF FormsInOrder
<1>15. LostOnlyAfterItsWriteFailed'
  <2>1. \A n \in 1..(collected + 1) : n \in 1..collected \/ n = collected + 1
    BY <1>1
  <2>2. \A n \in 1..collected :
          n \in Numbers(buffer) \cup Numbers(points) \cup written \cup refused \cup evicted
    BY DEF InfluxIInv, LostOnlyAfterItsWriteFailed
  <2>3. Numbers(points') = Numbers(points)
    BY <1>1
  <2>4. \A n \in 1..(collected + 1) :
          n \in Numbers(buffer') \cup Numbers(points') \cup written' \cup refused' \cup evicted'
    BY <1>1, <1>9, <2>1, <2>2, <2>3
  <2>5. (Numbers(buffer))' = Numbers(buffer') /\ (Numbers(points))' = Numbers(points')
    BY DEF Numbers
  <2>. QED BY <1>1, <2>4, <2>5 DEF LostOnlyAfterItsWriteFailed
<1>. QED BY <1>10, <1>11, <1>12, <1>13, <1>14, <1>15 DEF InfluxIInv

\* A conversion moves one snapshot from the head of the buffer to the points.
LEMMA ConvertKeeps ==
  ASSUME InfluxIInv, FlushConverts
  PROVE  InfluxIInv'
<1>. USE InfluxAssumption
<1>. DEFINE item == [Head(buffer) EXCEPT !.form = "point"]
<1>1. /\ buffer \in Seq(Item) /\ points \in Seq(Item) /\ buffer # <<>>
      /\ Len(points) \in Nat /\ Len(buffer) \in Nat
      /\ Len(points) + Len(buffer) <= BufferMax /\ collected \in Nat
  BY DEF FlushConverts, InfluxIInv, InfluxTypeOK, RoomForAll
<1>2. /\ Numbers(buffer) = {buffer[1].n} \cup Numbers(buffer')
      /\ buffer' \in Seq(Item) /\ Len(buffer') = Len(buffer) - 1 /\ Head(buffer) = buffer[1]
      /\ buffer[1] \in Item /\ 1 \in 1..Len(buffer)
      /\ \A i \in 1..Len(buffer') : i + 1 \in 1..Len(buffer) /\ buffer'[i] = buffer[i + 1]
  <2>1. buffer' = Tail(buffer)
    BY DEF FlushConverts
  <2>. QED BY <1>1, <2>1, NumbersOfTail
<1>3. item \in Item /\ item.n = buffer[1].n /\ item.form = "point"
  BY <1>2 DEF Item
<1>4. points' = Append(points, item)
  BY DEF FlushConverts
<1>. HIDE DEF item
<1>5. /\ points' \in Seq(Item) /\ Len(points') = Len(points) + 1
      /\ \A i \in 1..Len(points) : points'[i] = points[i]
      /\ points'[Len(points) + 1] = item
      /\ \A i \in 1..Len(points') : i \in 1..Len(points) \/ i = Len(points) + 1
  BY <1>1, <1>3, <1>4
<1>6. Numbers(points') = Numbers(points) \cup {buffer[1].n}
  BY <1>1, <1>3, <1>4, NumbersOfAppend
<1>7. /\ influxAt' = "flush" /\ collected' = collected /\ written' = written
      /\ refused' = refused /\ evicted' = evicted
      /\ UNCHANGED <<sensorsGiven, influxClient, influxRunning>>
  BY DEF FlushConverts
<1>8. buffer[1].form = "snapshot"
  BY <1>2 DEF FlushConverts
<1>9. \A i \in 1..Len(buffer) : buffer[i].form # "point"
  <2>1. ASSUME NEW i \in 1..Len(buffer), buffer[i].form = "point"
        PROVE  FALSE
    <3>1. CASE i = 1
      BY <1>8, <2>1, <3>1
    <3>2. CASE i # 1
      <4>1. 1 < i
        BY <1>1, <3>2
      <4>. QED BY <1>2, <1>8, <2>1, <4>1 DEF InfluxIInv, FormsInOrder
    <3>. QED BY <3>1, <3>2
  <2>. QED BY <2>1
<1>10. InfluxTypeOK'
  BY <1>1, <1>2, <1>5, <1>7 DEF InfluxIInv, InfluxTypeOK
<1>11. RoomForAll'
  BY <1>1, <1>2, <1>5 DEF RoomForAll
<1>12. NumbersKnown'
  <2>1. buffer[1].n \in 1..collected
    BY <1>2 DEF InfluxIInv, NumbersKnown
  <2>. QED BY <1>2, <1>3, <1>5, <1>7, <2>1 DEF InfluxIInv, NumbersKnown
<1>13. ByPlace'
  BY <1>7 DEF ByPlace
<1>14. FormsInOrder'
  <2>1. \A i \in 1..Len(buffer') : buffer'[i].form # "point"
    BY <1>2, <1>9
  <2>. QED BY <1>3, <1>5, <2>1 DEF InfluxIInv, FormsInOrder
<1>15. LostOnlyAfterItsWriteFailed'
  <2>1. (Numbers(buffer))' = Numbers(buffer') /\ (Numbers(points))' = Numbers(points')
    BY DEF Numbers
  <2>. QED BY <1>2, <1>6, <1>7, <2>1 DEF InfluxIInv, LostOnlyAfterItsWriteFailed
<1>. QED BY <1>10, <1>11, <1>12, <1>13, <1>14, <1>15 DEF InfluxIInv

\* A flush that raises takes one point, of a failed write, and nothing else.
LEMMA RaiseKeeps ==
  ASSUME InfluxIInv, FlushRaises
  PROVE  InfluxIInv'
<1>. USE InfluxAssumption
<1>1. /\ buffer \in Seq(Item) /\ buffer # <<>> /\ Len(buffer) \in Nat
      /\ Len(buffer) <= BufferMax /\ collected \in Nat
  BY DEF FlushRaises, InfluxIInv, InfluxTypeOK
<1>2. /\ Numbers(buffer) = {buffer[1].n} \cup Numbers(buffer')
      /\ buffer' \in Seq(Item) /\ Len(buffer') = Len(buffer) - 1 /\ Head(buffer) = buffer[1]
      /\ buffer[1] \in Item /\ 1 \in 1..Len(buffer)
      /\ \A i \in 1..Len(buffer') : i + 1 \in 1..Len(buffer) /\ buffer'[i] = buffer[i + 1]
  <2>1. buffer' = Tail(buffer)
    BY DEF FlushRaises
  <2>. QED BY <1>1, <2>1, NumbersOfTail
<1>3. buffer[1].form = "point"
  BY <1>2 DEF FlushRaises
<1>4. buffer[1].n \in refused /\ points = <<>>
  BY <1>2, <1>3 DEF InfluxIInv, FormsInOrder
<1>5. /\ influxAt' = "idle" /\ collected' = collected /\ written' = written /\ points' = <<>>
      /\ refused' = refused /\ evicted' = evicted
      /\ UNCHANGED <<sensorsGiven, influxClient, influxRunning>>
  BY DEF FlushRaises
<1>6. <<>> \in Seq(Item) /\ Len(<<>>) = 0
  OBVIOUS
<1>10. InfluxTypeOK'
  BY <1>1, <1>2, <1>5, <1>6 DEF InfluxIInv, InfluxTypeOK
<1>11. RoomForAll'
  BY <1>1, <1>2, <1>5, <1>6 DEF RoomForAll
<1>12. NumbersKnown'
  BY <1>2, <1>5, <1>6 DEF InfluxIInv, NumbersKnown
<1>13. ByPlace'
  BY <1>5 DEF ByPlace
<1>14. FormsInOrder'
  <2>1. \A i, j \in 1..Len(buffer') : i < j => i + 1 < j + 1
    BY <1>1, <1>2
  <2>2. 1..Len(points') = {}
    BY <1>5, <1>6
  <2>3. \A i \in 1..Len(buffer') :
          buffer'[i].form = "point" => buffer'[i].n \in refused'
    BY <1>2, <1>5 DEF InfluxIInv, FormsInOrder
  <2>4. \A i, j \in 1..Len(buffer') :
          i < j /\ buffer'[j].form = "point" => buffer'[i].form = "point"
    BY <1>2, <2>1 DEF InfluxIInv, FormsInOrder
  <2>. QED BY <1>5, <2>2, <2>3, <2>4 DEF FormsInOrder
<1>15. LostOnlyAfterItsWriteFailed'
  <2>1. (Numbers(buffer))' = Numbers(buffer') /\ (Numbers(points))' = Numbers(points')
    BY DEF Numbers
  <2>2. Numbers(points') = Numbers(points)
    BY <1>4, <1>5
  <2>. QED BY <1>2, <1>4, <1>5, <2>1, <2>2 DEF InfluxIInv, LostOnlyAfterItsWriteFailed
<1>. QED BY <1>10, <1>11, <1>12, <1>13, <1>14, <1>15 DEF InfluxIInv

\* A failed write puts every point back, in the other order.
LEMMA FailureKeeps ==
  ASSUME InfluxIInv, WriteFails
  PROVE  InfluxIInv'
<1>. USE InfluxAssumption
<1>1. /\ points \in Seq(Item) /\ Len(points) \in Nat /\ DOMAIN points = 1..Len(points)
      /\ Len(points) <= BufferMax /\ collected \in Nat /\ buffer = <<>>
  BY DEF WriteFails, InfluxIInv, InfluxTypeOK, ByPlace
<1>2. /\ influxAt' = "idle" /\ collected' = collected /\ written' = written /\ points' = <<>>
      /\ refused' = refused \cup Numbers(points) /\ evicted' = evicted
      /\ UNCHANGED <<sensorsGiven, influxClient, influxRunning>>
      /\ buffer' = [i \in 1..Len(points) |-> points[Len(points) + 1 - i]]
  BY DEF WriteFails, Rebuffered
<1>3. \A i \in 1..Len(points) : Len(points) + 1 - i \in 1..Len(points)
  BY <1>1
<1>4. \A i \in 1..Len(points) : points[i] \in Item
  BY <1>1
<1>5. buffer' \in Seq(Item) /\ Len(buffer') = Len(points)
  BY <1>1, <1>2, <1>3, <1>4
<1>6. \A i \in 1..Len(buffer') :
        /\ buffer'[i].form = "point" /\ buffer'[i].n \in 1..collected
        /\ buffer'[i].n \in Numbers(points)
  <2>1. \A i \in 1..Len(buffer') :
          Len(points) + 1 - i \in 1..Len(points) /\ buffer'[i] = points[Len(points) + 1 - i]
    BY <1>2, <1>3, <1>5
  <2>2. \A k \in 1..Len(points) :
          points[k].form = "point" /\ points[k].n \in 1..collected /\ points[k].n \in Numbers(points)
    BY <1>1 DEF InfluxIInv, FormsInOrder, NumbersKnown, Numbers
  <2>. QED BY <2>1, <2>2
<1>7. <<>> \in Seq(Item) /\ Len(<<>>) = 0
  OBVIOUS
<1>8. Numbers(points) \subseteq 1..collected
  BY <1>1, NumbersWithin DEF InfluxIInv, NumbersKnown
<1>9. 1..Len(points') = {}
  BY <1>2, <1>7
<1>10. InfluxTypeOK'
  <2>1. refused' \subseteq 1..collected'
    BY <1>2, <1>8 DEF InfluxIInv, InfluxTypeOK
  <2>. QED BY <1>1, <1>2, <1>5, <1>7, <2>1 DEF InfluxIInv, InfluxTypeOK
<1>11. RoomForAll'
  BY <1>1, <1>2, <1>5, <1>7 DEF RoomForAll
<1>12. NumbersKnown'
  BY <1>2, <1>6, <1>9 DEF NumbersKnown
<1>13. ByPlace'
  BY <1>2 DEF ByPlace
<1>14. FormsInOrder'
  <2>1. \A i, j \in 1..Len(buffer') : buffer'[i].form = "point"
    BY <1>6
  <2>2. \A i \in 1..Len(buffer') : buffer'[i].n \in refused' /\ points' = <<>>
    <3>1. refused' = refused \cup Numbers(points) /\ points' = <<>>
      BY <1>2
    <3>. QED BY <1>6, <3>1
  <2>. QED BY <1>9, <2>1, <2>2 DEF FormsInOrder
<1>15. LostOnlyAfterItsWriteFailed'
  <2>1. (Numbers(buffer))' = Numbers(buffer') /\ (Numbers(points))' = Numbers(points')
    BY DEF Numbers
  <2>2. Numbers(buffer) = {}
    BY <1>1 DEF Numbers
  <2>. QED BY <1>2, <2>1, <2>2 DEF InfluxIInv, LostOnlyAfterItsWriteFailed
<1>. QED BY <1>10, <1>11, <1>12, <1>13, <1>14, <1>15 DEF InfluxIInv

\* The steps that move nothing between the buffer and the points.
LEMMA OtherInfluxStepsKeep ==
  ASSUME InfluxIInv, FlushWrites \/ WriteSucceeds \/ InfluxStop \/ UNCHANGED influxVars
  PROVE  InfluxIInv'
<1>. USE InfluxAssumption
<1>0. <<>> \in Seq(Item) /\ Len(<<>>) = 0 /\ Numbers(<<>>) = {}
  BY DEF Numbers
<1>1. CASE FlushWrites
  BY <1>1 DEF FlushWrites, InfluxIInv, InfluxTypeOK, RoomForAll, NumbersKnown, ByPlace,
     FormsInOrder,
              LostOnlyAfterItsWriteFailed, Numbers
<1>2. CASE WriteSucceeds
  <2>1. /\ influxAt' = "idle" /\ points' = <<>> /\ buffer' = buffer /\ buffer = <<>>
        /\ written' = written \cup Numbers(points)
        /\ UNCHANGED <<sensorsGiven, influxClient, influxRunning, collected, refused, evicted>>
    BY <1>2 DEF WriteSucceeds, InfluxIInv, ByPlace
  <2>2. Numbers(points) \subseteq 1..collected
    BY NumbersWithin DEF InfluxIInv, InfluxTypeOK, NumbersKnown
  <2>3. InfluxTypeOK' /\ RoomForAll' /\ NumbersKnown' /\ ByPlace' /\ FormsInOrder'
    BY <1>0, <2>1, <2>2 DEF InfluxIInv, InfluxTypeOK, RoomForAll, NumbersKnown, ByPlace,
       FormsInOrder
  <2>4. (Numbers(buffer))' = Numbers(buffer') /\ (Numbers(points))' = Numbers(points')
    BY DEF Numbers
  <2>5. LostOnlyAfterItsWriteFailed'
    BY <1>0, <2>1, <2>4 DEF InfluxIInv, LostOnlyAfterItsWriteFailed
  <2>. QED BY <2>3, <2>5 DEF InfluxIInv
<1>3. CASE InfluxStop
  BY <1>3 DEF InfluxStop, InfluxIInv, InfluxTypeOK, RoomForAll, NumbersKnown, ByPlace, FormsInOrder,
              LostOnlyAfterItsWriteFailed, Numbers
<1>4. CASE UNCHANGED influxVars
  BY <1>4 DEF influxVars, InfluxIInv, InfluxTypeOK, RoomForAll, NumbersKnown, ByPlace, FormsInOrder,
              LostOnlyAfterItsWriteFailed, Numbers
<1>. QED BY <1>1, <1>2, <1>3, <1>4

\* The inductive invariant holds, for any size of the buffer and any number of snapshots.
THEOREM InfluxInvariant == InfluxSpec => []InfluxIInv
<1>1. InfluxInit => InfluxIInv
  <2>. SUFFICES ASSUME InfluxInit
                PROVE  InfluxIInv
    OBVIOUS
  <2>1. <<>> \in Seq(Item) /\ Len(<<>>) = 0
    OBVIOUS
  <2>. QED BY <2>1, InfluxAssumption DEF InfluxInit, InfluxIInv, InfluxTypeOK,
     RoomForAll, NumbersKnown, ByPlace,
                   FormsInOrder, LostOnlyAfterItsWriteFailed
<1>2. InfluxIInv /\ [InfluxNext]_influxVars => InfluxIInv'
  BY RoundKeeps, ConvertKeeps, RaiseKeeps, FailureKeeps, OtherInfluxStepsKeep DEF InfluxNext
<1>. QED BY <1>1, <1>2, PTL DEF InfluxSpec

\* A snapshot that is nowhere was pushed out of the full buffer or was in a failed
\* write, although later rounds raise on the points such a write left (telemetry/logger.py).
THEOREM LostTheorem == InfluxSpec => []LostOnlyAfterItsWriteFailed
<1>1. InfluxIInv => LostOnlyAfterItsWriteFailed
  BY DEF InfluxIInv
<1>. QED BY <1>1, InfluxInvariant, PTL
=============================================================================
