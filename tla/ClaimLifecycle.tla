--------------------------- MODULE ClaimLifecycle ---------------------------
(***************************************************************************)
(* How a unit is claimed: core/identity.py over the file kept by           *)
(* core/bootstrap.py, connectivity/claim_server.py, and the claim flow,    *)
(* the authentication failure and the end of the process in core/main.py.  *)
(* The process may die between any two steps, a write of the file may      *)
(* fail; systemd starts it again.  save_bootstrap() writes beside the file *)
(* and moves, so that the file is one state or the other.                  *)
(*                                                                         *)
(* River Song is external: it sends a token with the code its operator     *)
(* typed in, and takes the unit as claimed when it is answered 200.        *)
(***************************************************************************)
EXTENDS Naturals

CONSTANTS
  MaxTokens,               \* bound on the tokens the server issues
  MaxTrouble,              \* bound on deaths, writes that fail, replies lost and
                           \* tokens withdrawn, together
  NoToken

Tokens == 1..MaxTokens

\* Each token but the first is issued because of some trouble.
ASSUME ClaimAssumption ==
  MaxTrouble \in Nat /\ MaxTokens = MaxTrouble + 1 /\ NoToken \notin Tokens

ClaimStates == {"UNCLAIMED", "CLAIMING", "CLAIMED"}
ClaimRecords == [state : ClaimStates, token : Tokens \cup {NoToken}]

VARIABLES
  identity,                \* claim_state and unit_token in memory
  disk,                    \* the same in bootstrap.json
  codeShown,               \* the code in memory is what the code file holds
  claimAt,                 \* where the main thread is
  configCached,            \* the cache file holds a configuration
  postAt,                  \* where the claim server's handler is
  resetAt,                 \* _on_auth_failure in the stream thread, which then ends
  issued,                  \* tokens issued so far: 1..issued
  serverToken,             \* the token the server accepts
  trouble

claimVars == <<identity, disk, codeShown, claimAt, configCached, postAt, resetAt,
               issued, serverToken, trouble>>

ClaimTypeOK ==
  /\ identity \in ClaimRecords /\ disk \in ClaimRecords
  /\ codeShown \in BOOLEAN /\ configCached \in BOOLEAN
  /\ claimAt \in {"boot", "begin", "writeCode", "serve", "config", "start", "up", "down"}
  /\ postAt \in {"idle", "save", "reply"}
  /\ resetAt \in {"none", "save", "done"}
  /\ issued \in 0..MaxTokens /\ serverToken \in Tokens \cup {NoToken}
  /\ trouble \in 0..MaxTrouble

Unclaimed == [state |-> "UNCLAIMED", token |-> NoToken]

ClaimInit ==
  /\ identity = Unclaimed /\ disk = Unclaimed /\ codeShown = FALSE
  /\ configCached = FALSE /\ claimAt = "down" /\ postAt = "idle" /\ resetAt = "none"
  /\ issued = 0 /\ serverToken = NoToken /\ trouble = 0

IsClaimed(r) == r.state = "CLAIMED" /\ r.token # NoToken

Trouble == trouble < MaxTrouble /\ trouble' = trouble + 1

-----------------------------------------------------------------------------
(* The main thread: boot() and _run_claim_flow().                          *)

\* load_bootstrap().
BootLoads ==
  /\ claimAt = "boot"
  /\ identity' = disk
  /\ claimAt' = IF IsClaimed(disk) THEN "config" ELSE "begin"
  /\ UNCHANGED <<disk, codeShown, configCached, postAt, resetAt, issued, serverToken,
                 trouble>>

\* begin_claiming() refuses a unit that is CLAIMED; boot() then fails.
ClaimingBegins ==
  /\ claimAt = "begin"
  /\ IF identity.state = "CLAIMED"
     THEN claimAt' = "down" /\ UNCHANGED <<identity, disk, trouble>>
     ELSE /\ identity' = [state |-> "CLAIMING", token |-> identity.token]
          /\ \/ disk' = identity' /\ claimAt' = "writeCode" /\ UNCHANGED trouble
             \/ Trouble /\ claimAt' = "down" /\ UNCHANGED disk
  /\ codeShown' = FALSE
  /\ UNCHANGED <<configCached, postAt, resetAt, issued, serverToken>>

\* write_claim_code(), then the claim server is started.
CodeWritten ==
  /\ claimAt = "writeCode"
  /\ \/ codeShown' = TRUE /\ claimAt' = "serve" /\ UNCHANGED trouble
     \/ Trouble /\ claimAt' = "down" /\ UNCHANGED codeShown
  /\ UNCHANGED <<identity, disk, configCached, postAt, resetAt, issued, serverToken>>

\* The flow looks at is_claimed every 30 s; stop() waits for the handler.
ClaimFlowEnds ==
  /\ claimAt = "serve" /\ IsClaimed(identity) /\ postAt = "idle"
  /\ claimAt' = "config"
  /\ UNCHANGED <<identity, disk, codeShown, configCached, postAt, resetAt, issued,
                 serverToken, trouble>>

\* register() swallows a refusal.  ensure() pulls the configuration, or falls back
\* on the cache; without either _wait_for_config() pulls again for ever, and
\* pull_config() answers a refusal like silence.  The write of the cache may fail.
ConfigFound ==
  /\ claimAt = "config" /\ claimAt' = "start"
  /\ \/ identity.token = serverToken /\ configCached' = TRUE /\ UNCHANGED trouble
     \/ identity.token = serverToken /\ Trouble /\ UNCHANGED configCached
     \/ configCached /\ UNCHANGED <<configCached, trouble>>
  /\ UNCHANGED <<identity, disk, codeShown, postAt, resetAt, issued, serverToken>>

\* boot() has started the command stream before it ends; run() sets _running,
\* also over the FALSE of an authentication failure.
RunBegins ==
  /\ claimAt = "start" /\ claimAt' = "up"
  /\ UNCHANGED <<identity, disk, codeShown, configCached, postAt, resetAt, issued,
                 serverToken, trouble>>

-----------------------------------------------------------------------------
(* do_POST() of the claim server, one request at a time.                   *)

\* The code matches while the unit is CLAIMING; complete_claim() sets token and
\* state in memory.
ClaimPosted ==
  /\ claimAt = "serve" /\ postAt = "idle" /\ codeShown
  /\ identity.state = "CLAIMING" /\ issued < MaxTokens
  /\ issued' = issued + 1
  /\ identity' = [state |-> "CLAIMED", token |-> issued + 1]
  /\ postAt' = "save"
  /\ UNCHANGED <<disk, codeShown, claimAt, configCached, resetAt, serverToken, trouble>>

\* Mutant of ClaimSaved: the server is answered first.
ClaimSavedLate ==
  /\ postAt = "save" /\ postAt' = "reply"
  /\ serverToken' = identity.token /\ codeShown' = FALSE
  /\ UNCHANGED <<identity, disk, claimAt, configCached, resetAt, issued, trouble>>

\* A write that fails raises out of the handler, which answers nothing; the
\* unit stays CLAIMED in memory.
ClaimSaved ==
  /\ postAt = "save"
  /\ \/ disk' = identity /\ postAt' = "reply" /\ codeShown' = FALSE
        /\ UNCHANGED trouble
     \/ Trouble /\ postAt' = "idle" /\ UNCHANGED <<disk, codeShown>>
  /\ UNCHANGED <<identity, claimAt, configCached, resetAt, issued, serverToken>>

ClaimReplied ==
  /\ postAt = "reply" /\ postAt' = "idle"
  /\ \/ serverToken' = identity.token /\ UNCHANGED trouble
     \/ Trouble /\ UNCHANGED serverToken
  /\ UNCHANGED <<identity, disk, codeShown, claimAt, configCached, resetAt, issued>>

-----------------------------------------------------------------------------
(* _on_auth_failure() and the end of the process.                          *)

\* The server answers the command stream, which runs from "start" on, with 401:
\* reset_claim() in memory.
AuthRejected ==
  /\ claimAt \in {"start", "up"} /\ resetAt = "none" /\ identity.token # serverToken
  /\ identity' = Unclaimed /\ resetAt' = "save"
  /\ UNCHANGED <<disk, codeShown, claimAt, configCached, postAt, issued, serverToken,
                 trouble>>

\* _running becomes FALSE, which ends the process if run() has begun.
Stops ==
  IF claimAt = "up" THEN claimAt' = "down" /\ resetAt' = "none"
                    ELSE resetAt' = "done" /\ UNCHANGED claimAt

\* Mutant of ResetSaved: the reset stays in memory.
ResetUnsaved ==
  /\ resetAt = "save" /\ Stops /\ codeShown' = FALSE
  /\ UNCHANGED <<identity, disk, configCached, postAt, issued, serverToken, trouble>>

\* Saved or not, the stream thread ends.
ResetSaved ==
  /\ resetAt = "save" /\ Stops /\ codeShown' = FALSE
  /\ \/ disk' = identity /\ UNCHANGED trouble
     \/ Trouble /\ UNCHANGED disk
  /\ UNCHANGED <<identity, configCached, postAt, issued, serverToken>>

UnitDies ==
  /\ claimAt # "down" /\ Trouble
  /\ claimAt' = "down" /\ postAt' = "idle" /\ resetAt' = "none"
  /\ UNCHANGED <<identity, disk, codeShown, configCached, issued, serverToken>>

\* systemd, at power-on and whenever the process has ended (Restart=always).
UnitRestarts ==
  /\ claimAt = "down" /\ claimAt' = "boot"
  /\ UNCHANGED <<identity, disk, codeShown, configCached, postAt, resetAt, issued,
                 serverToken, trouble>>

\* The server withdraws the unit's token.
ServerWithdraws ==
  /\ serverToken # NoToken /\ serverToken' = NoToken /\ Trouble
  /\ UNCHANGED <<identity, disk, codeShown, claimAt, configCached, postAt, resetAt,
                 issued>>

UnitStep ==
  \/ BootLoads \/ ClaimingBegins \/ CodeWritten \/ ClaimFlowEnds
  \/ ConfigFound \/ RunBegins \/ ClaimSaved \/ ClaimReplied
  \/ AuthRejected \/ ResetSaved \/ UnitRestarts

ClaimNext == UnitStep \/ ClaimPosted \/ UnitDies \/ ServerWithdraws

ClaimSpec == ClaimInit /\ [][ClaimNext]_claimVars

-----------------------------------------------------------------------------
InService ==
  claimAt = "up" /\ serverToken # NoToken /\ identity.token = serverToken

\* The token the server accepts is the one on the disk: a unit the server counts
\* as claimed is still claimed after it dies at any step.
TokenSurvives ==
  serverToken # NoToken => disk = [state |-> "CLAIMED", token |-> serverToken]

\* Without a configuration the unit asks for one with a token the server refuses,
\* and has no stream that would be told so (main.py:505); or the refusal came
\* before run(), which took the process up again without a stream (main.py:406).
Stranded ==
  \/ claimAt = "config" /\ ~configCached /\ identity.token # serverToken
  \/ claimAt = "up" /\ resetAt = "done"

\* Whatever died, failed or was lost, memory, disk and server agree again in the
\* end, as long as the operator types in the code: a unit with a token the
\* server does not know is refused, forgets it and is claimed anew.  Only in two
\* places it hangs instead, where nothing but a restart, or not even that, helps.
ClaimRecovers == claimAt = "boot" ~> InService \/ Stranded

\* docs/RIVER_VECTOR_INTEGRATION_SPEC.md:1210: "Auth failure (401/403) | Response
\* status | Log critical, transition to `UNCLAIMED`. Requires re-claim."  A unit
\* that talks to the server with a token it refuses becomes UNCLAIMED.
Refused ==
  /\ claimAt \in {"config", "start", "up"}
  /\ IsClaimed(identity) /\ identity.token # serverToken
RefusedIsUnclaimed == Refused ~> identity.state = "UNCLAIMED"
=============================================================================
