---------------------------- MODULE ServerProcess ----------------------------
(***************************************************************************)
(* The life of the API process (main.ts): it starts if its environment and *)
(* its store allow, it is told to stop or meets an error nobody caught,    *)
(* and it ends, after a log entry that may never be written and a close    *)
(* that may never come to an end. The supervisor starts it again.          *)
(***************************************************************************)
EXTENDS Naturals

VARIABLES
    up,       \* it listens
    stopping, \* "no", "logging", "closing": from the first signal on
    dying,    \* an uncaught error is being logged
    heard,    \* process.once handlers that are used up
    exit      \* "none", or how it ended

serverVars == <<up, stopping, dying, heard, exit>>

Signals == {"SIGINT", "SIGTERM"}
Errors == {"uncaughtException", "unhandledRejection"}

ServerTypeOK ==
    /\ {up, dying} \subseteq BOOLEAN /\ stopping \in {"no", "logging", "closing"}
    /\ heard \subseteq Signals \cup Errors /\ exit \in {"none", "0", "1", "killed"}

ServerInit == up = FALSE /\ stopping = "no" /\ dying = FALSE /\ heard = {} /\ exit = "none"

Ends(code) == exit' = code /\ up' = FALSE /\ stopping' = "no" /\ dying' = FALSE /\ UNCHANGED heard

(* bootstrap(): "ready" is validateEnv and assertReady of the primary store. *)
StartServer(ready) ==
    /\ ~up /\ exit = "none"
    /\ IF ready THEN up' = TRUE /\ UNCHANGED exit ELSE exit' = "1" /\ UNCHANGED up
    /\ UNCHANGED <<stopping, dying, heard>>

Supervise ==
    /\ exit # "none" /\ exit' = "none" /\ heard' = {}
    /\ UNCHANGED <<up, stopping, dying>>

(* A second signal of another kind is ignored; one of a kind that was heard finds
   no handler any more and ends the process at once. *)
stop(signal) ==
    /\ up
    /\ IF signal \in heard THEN Ends("killed")
       ELSE /\ heard' = heard \cup {signal}
            /\ stopping' = IF stopping = "no" THEN "logging" ELSE stopping
            /\ UNCHANGED <<up, dying, exit>>

(* API_STOPPING is written, or two seconds have passed. *)
StopIsLogged == stopping = "logging" /\ stopping' = "closing" /\ UNCHANGED <<up, dying, heard, exit>>
CloseEnds == stopping = "closing" /\ Ends("0")
StopFails == stopping # "no" /\ Ends("1")

(* Mutant: the timer is set when the close begins. *)
ForcedExitOfClose == stopping = "closing" /\ Ends("1")
(* Fifteen seconds after the signal. *)
ForcedExit == stopping # "no" /\ Ends("1")

Uncaught(error) ==
    /\ up
    /\ IF error \in heard THEN Ends("1")
       ELSE heard' = heard \cup {error} /\ dying' = TRUE /\ UNCHANGED <<up, stopping, exit>>

(* exitAfterLog: logged, failed to log, or two seconds later *)
ExitAfterLog == dying /\ Ends("1")

ServerStep ==
    \/ Supervise \/ StopIsLogged \/ CloseEnds \/ StopFails \/ ForcedExit \/ ExitAfterLog
    \/ (\E s \in Signals : stop(s)) \/ (\E e \in Errors : Uncaught(e))

(* The timers fire; that a log entry is written or a close ends is not assumed. *)
ServerFairness == WF_serverVars(ForcedExit) /\ WF_serverVars(ExitAfterLog)

-----------------------------------------------------------------------------
(* A process that was told to stop, or met an error nobody caught, ends:   *)
(* neither the log entry nor a connection that stays open holds it.        *)
StopEnds == (stopping # "no" \/ dying) ~> exit # "none"
=============================================================================
