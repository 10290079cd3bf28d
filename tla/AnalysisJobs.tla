----------------------------- MODULE AnalysisJobs -----------------------------
(***************************************************************************)
(* The background analysis of finished games: http.rs game_analysis and    *)
(* run_analysis, the administrator's reanalyze (admin/api/game.rs), the    *)
(* walk over the logged turns (robot/analysis.rs) and the stored results   *)
(* (db/misc.rs).                                                           *)
(*                                                                         *)
(* A request looks at the stored result and at the table of jobs, reads    *)
(* the log and only then enters its job: two requests may start two jobs   *)
(* of one game.  The client asks again as long as the table says running.  *)
(* What is computed is left out; a log has MaxTurnsLogged turns with a     *)
(* recorded hand.                                                          *)
(***************************************************************************)
EXTENDS Nothing, Integers

CONSTANTS
    FinishedGames,
    Askers,           \* requests that may run at the same time
    Jobs,             \* analyses that may run at the same time
    MaxTurnsLogged

AnalysisRecord == [game: FinishedGames, done: 0..MaxTurnsLogged, next: {"turn", "saved", "failed"}]
Answers == {"running", "failed", "stale"}

ASSUME AnalysisAssumption ==
    /\ MaxTurnsLogged \in Nat
    /\ None \notin FinishedGames /\ None \notin AnalysisRecord /\ None \notin Answers

VARIABLES
    kept,        \* the games that have not been deleted
    stored,      \* game_analysis: the games with a result of this version
    jobTable,    \* analysis_jobs: game -> running, failed, stale, or None
    asking,      \* request -> the game it is about to analyse
    job          \* job -> the game, the turns done, the step

analysisVars == <<kept, stored, jobTable, asking, job>>

AnalysisInit ==
    /\ kept = FinishedGames
    /\ stored = {}
    /\ jobTable = [g \in FinishedGames |-> None]
    /\ asking = [r \in Askers |-> None]
    /\ job = [j \in Jobs |-> None]

-----------------------------------------------------------------------------
(* game_analysis: no result, no job under way, none failed a moment ago. *)
AskAnalysis(r, g) ==
    /\ asking[r] = None
    /\ g \in kept \ stored
    /\ jobTable[g] \in {None, "stale"}
    /\ asking' = [asking EXCEPT ![r] = g]
    /\ UNCHANGED <<kept, stored, jobTable, job>>

(* games_reanalyze: the result is dropped, whatever the table says. *)
Reanalyze(r, g) ==
    /\ asking[r] = None
    /\ g \in kept
    /\ stored' = stored \ {g}
    /\ asking' = [asking EXCEPT ![r] = g]
    /\ UNCHANGED <<kept, jobTable, job>>

(* The log was read before; that of a game already deleted has no turn. *)
StartJob(r) ==
    LET g == asking[r] IN
    /\ g # None
    /\ \/ /\ jobTable' = [jobTable EXCEPT ![g] = "running"]
          /\ \E j \in Jobs :
               /\ job[j] = None
               /\ job' = [job EXCEPT ![j] = [game |-> g, done |-> 0, next |-> "turn"]]
       \/ g \notin kept /\ UNCHANGED <<jobTable, job>>
    /\ asking' = [asking EXCEPT ![r] = None]
    /\ UNCHANGED <<kept, stored>>

-----------------------------------------------------------------------------
(* run_analysis: each turn is reported, *)
AnalyzeTurn(j) ==
    /\ job[j] # None /\ job[j].next = "turn" /\ job[j].done < MaxTurnsLogged
    /\ job' = [job EXCEPT ![j].done = @ + 1]
    /\ jobTable' = [jobTable EXCEPT ![job[j].game] = "running"]
    /\ UNCHANGED <<kept, stored, asking>>

(* the result saved; it cannot be when the game is gone. *)
SaveAnalysis(j) ==
    /\ job[j] # None /\ job[j].next = "turn" /\ job[j].done = MaxTurnsLogged
    /\ \/ /\ job[j].game \in kept
          /\ stored' = stored \cup {job[j].game}
          /\ job' = [job EXCEPT ![j].next = "saved"]
       \/ /\ UNCHANGED stored
          /\ job' = [job EXCEPT ![j].next = "failed"]
    /\ UNCHANGED <<kept, jobTable, asking>>

(* a panic of the search, which is caught *)
Panic(j) ==
    /\ job[j] # None /\ job[j].next = "turn"
    /\ job' = [job EXCEPT ![j].next = "failed"]
    /\ UNCHANGED <<kept, stored, jobTable, asking>>

(* and the table brought up to date. *)
(* faults: only a success is noted *)
FaultOutcome(g, next) == IF next = "saved" THEN None ELSE jobTable[g]
Outcome(g, next) == IF next = "saved" THEN None ELSE "failed"

CloseJob(j) ==
    /\ job[j] # None /\ job[j].next \in {"saved", "failed"}
    /\ jobTable' = [jobTable EXCEPT ![job[j].game] = Outcome(job[j].game, job[j].next)]
    /\ job' = [job EXCEPT ![j] = None]
    /\ UNCHANGED <<kept, stored, asking>>

(* ANALYSIS_RETRY_AFTER passes *)
RetryAllowed(g) ==
    /\ jobTable[g] = "failed"
    /\ jobTable' = [jobTable EXCEPT ![g] = "stale"]
    /\ UNCHANGED <<kept, stored, asking, job>>

-----------------------------------------------------------------------------
(* delete_game takes the result with it; clear_cache takes all results. *)
DropGame(g) ==
    /\ g \in kept
    /\ kept' = kept \ {g} /\ stored' = stored \ {g}
    /\ UNCHANGED <<jobTable, asking, job>>
ClearResults ==
    /\ stored # {} /\ stored' = {}
    /\ UNCHANGED <<kept, jobTable, asking, job>>

(* The table and the jobs are in memory. *)
RestartAnalysis ==
    /\ jobTable' = [g \in FinishedGames |-> None]
    /\ asking' = [r \in Askers |-> None]
    /\ job' = [j \in Jobs |-> None]
    /\ UNCHANGED <<kept, stored>>

AnalysisNext ==
    \/ \E r \in Askers : StartJob(r) \/ \E g \in FinishedGames : AskAnalysis(r, g) \/ Reanalyze(r, g)
    \/ \E j \in Jobs : AnalyzeTurn(j) \/ SaveAnalysis(j) \/ Panic(j) \/ CloseJob(j)
    \/ \E g \in FinishedGames : RetryAllowed(g) \/ DropGame(g)
    \/ ClearResults \/ RestartAnalysis

AnalysisSpec == AnalysisInit /\ [][AnalysisNext]_analysisVars

-----------------------------------------------------------------------------
(* A client that is told "running" does not ask in vain: some job of the   *)
(* game is under way and will replace that answer, whichever of several    *)
(* jobs ends, fails or panics first and although the game may be deleted;  *)
(* and no result outlives its game (http.rs run_analysis).                 *)
RunningIsTrue ==
    /\ \A g \in FinishedGames :
          jobTable[g] = "running" => \E j \in Jobs : job[j] # None /\ job[j].game = g
    /\ stored \subseteq kept
=============================================================================
