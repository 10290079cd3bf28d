-------------------------- MODULE BackgroundProofs --------------------------
(* What the server keeps beside the games: the analyses, its own update,    *)
(* the settings in force, the daily puzzle, the words of the dictionary.    *)
(* The five modules share no state; each has an inductive invariant.        *)
EXTENDS AnalysisJobs, SystemUpdate, SettingsCache, DailyPuzzle, WordLists, FiniteSetTheorems, TLAPS

-----------------------------------------------------------------------------
(* "Running" is true for any number of games, requests and jobs, and for    *)
(* games of any length.                                                     *)

AnalysisTypeOK ==
    /\ kept \subseteq FinishedGames
    /\ stored \subseteq FinishedGames
    /\ jobTable \in [FinishedGames -> Answers \cup {None}]
    /\ asking \in [Askers -> FinishedGames \cup {None}]
    /\ job \in [Jobs -> AnalysisRecord \cup {None}]

AnalysisInv == AnalysisTypeOK /\ RunningIsTrue

LEMMA AnalysisStarts == AnalysisInit => AnalysisInv
<1> SUFFICES ASSUME AnalysisInit
             PROVE  AnalysisInv
  OBVIOUS
<1>1. AnalysisTypeOK
  BY DEF AnalysisInit, AnalysisTypeOK
<1>2. \A g \in FinishedGames : jobTable[g] # "running"
  BY AnalysisAssumption DEF AnalysisInit, Answers
<1>3. stored \subseteq kept
  BY DEF AnalysisInit
<1> QED
  BY <1>1, <1>2, <1>3 DEF AnalysisInv, RunningIsTrue

(* A job that goes on, or begins, keeps every job's game at work.           *)
LEMMA AnalysisStep == AnalysisInv /\ [AnalysisNext]_analysisVars => AnalysisInv'
<1> SUFFICES ASSUME AnalysisInv, [AnalysisNext]_analysisVars
             PROVE  AnalysisInv'
  OBVIOUS
<1> USE AnalysisAssumption DEF AnalysisInv, AnalysisTypeOK, RunningIsTrue
<1>1. ASSUME NEW r \in Askers, StartJob(r)
      PROVE  AnalysisInv'
  <2>1. asking[r] \in FinishedGames /\ asking' \in [Askers -> FinishedGames \cup {None}]
    BY <1>1 DEF StartJob
  <2>2. CASE UNCHANGED <<jobTable, job>>
    BY <1>1, <2>1, <2>2 DEF StartJob
  <2>3. ASSUME NEW j \in Jobs, job[j] = None, jobTable' = [jobTable EXCEPT ![asking[r]] = "running"],
               job' = [job EXCEPT ![j] = [game |-> asking[r], done |-> 0, next |-> "turn"]]
        PROVE  AnalysisInv'
    <3>1. [game |-> asking[r], done |-> 0, next |-> "turn"] \in AnalysisRecord
      BY <2>1 DEF AnalysisRecord
    <3>2. job' \in [Jobs -> AnalysisRecord \cup {None}] /\ jobTable' \in [FinishedGames -> Answers \cup {None}]
      BY <2>3, <3>1 DEF Answers
    <3>3. job'[j] # None /\ job'[j].game = asking[r] /\ \A i \in Jobs \ {j} : job'[i] = job[i]
      BY <2>3, <3>1
    <3>4. \A g \in FinishedGames \ {asking[r]} : jobTable'[g] = jobTable[g]
      BY <2>3
    <3> QED
      BY <1>1, <2>1, <2>3, <3>2, <3>3, <3>4 DEF StartJob
  <2> QED
    BY <1>1, <2>2, <2>3 DEF StartJob
<1>2. ASSUME NEW r \in Askers, NEW g \in FinishedGames, AskAnalysis(r, g) \/ Reanalyze(r, g)
      PROVE  AnalysisInv'
  BY <1>2 DEF AskAnalysis, Reanalyze
<1>3. ASSUME NEW j \in Jobs, AnalyzeTurn(j) \/ SaveAnalysis(j) \/ Panic(j)
      PROVE  AnalysisInv'
  <2>1. job[j] \in AnalysisRecord
    BY <1>3 DEF AnalyzeTurn, SaveAnalysis, Panic
  <2>2. job' \in [Jobs -> AnalysisRecord \cup {None}] /\ job'[j] \in AnalysisRecord
    BY <1>3, <2>1 DEF AnalyzeTurn, SaveAnalysis, Panic, AnalysisRecord
  <2>3. job'[j].game = job[j].game /\ \A i \in Jobs \ {j} : job'[i] = job[i]
    BY <1>3, <2>1 DEF AnalyzeTurn, SaveAnalysis, Panic, AnalysisRecord
  <2>4. \A i \in Jobs : job[i] # None => job'[i] # None /\ job'[i].game = job[i].game
    BY <2>2, <2>3
  <2>5. /\ jobTable' \in [FinishedGames -> Answers \cup {None}]
        /\ \A g \in FinishedGames \ {job[j].game} : jobTable'[g] = jobTable[g]
    BY <1>3, <2>1 DEF AnalyzeTurn, SaveAnalysis, Panic, AnalysisRecord, Answers
  <2>6. stored' \subseteq kept' /\ kept' = kept /\ asking' = asking
    BY <1>3 DEF AnalyzeTurn, SaveAnalysis, Panic
  <2> QED
    BY <2>1, <2>2, <2>3, <2>4, <2>5, <2>6 DEF AnalysisRecord
<1>4. ASSUME NEW j \in Jobs, CloseJob(j)
      PROVE  AnalysisInv'
  <2>1. job[j] \in AnalysisRecord
    BY <1>4 DEF CloseJob
  <2>2. /\ jobTable' \in [FinishedGames -> Answers \cup {None}]
        /\ jobTable'[job[j].game] # "running"
        /\ \A g \in FinishedGames \ {job[j].game} : jobTable'[g] = jobTable[g]
    BY <1>4, <2>1 DEF CloseJob, Outcome, AnalysisRecord, Answers
  <2>3. job' \in [Jobs -> AnalysisRecord \cup {None}] /\ \A i \in Jobs \ {j} : job'[i] = job[i]
    BY <1>4 DEF CloseJob
  <2> QED
    BY <1>4, <2>1, <2>2, <2>3 DEF CloseJob
<1>5. ASSUME NEW g \in FinishedGames, RetryAllowed(g) \/ DropGame(g)
      PROVE  AnalysisInv'
  BY <1>5 DEF RetryAllowed, DropGame, Answers
<1>6. CASE ClearResults \/ RestartAnalysis
  BY <1>6 DEF ClearResults, RestartAnalysis, Answers
<1>7. CASE UNCHANGED analysisVars
  BY <1>7 DEF analysisVars
<1> QED
  BY <1>1, <1>2, <1>3, <1>4, <1>5, <1>6, <1>7 DEF AnalysisNext

(* A client that is told "running" never asks in vain, whichever of several *)
(* jobs of a game ends, fails or panics first, and no result outlives its   *)
(* game (http.rs run_analysis).                                             *)
THEOREM RunningIsAlwaysTrue == AnalysisSpec => []RunningIsTrue
<1>1. AnalysisInv => RunningIsTrue
  BY DEF AnalysisInv
<1> QED
  BY AnalysisStarts, AnalysisStep, <1>1, PTL DEF AnalysisSpec

-----------------------------------------------------------------------------
(* An update leaves the tree, the program and the record together, for any  *)
(* history of any number of branches and for any number of administrators.  *)

UpdateTypeOK ==
    /\ github \in [Branches -> Commits] /\ tracking \in [Branches -> Commits]
    /\ local \in [Branches -> Commits \cup {None}]
    /\ current \in Branches /\ HeadCommit \in Commits
    /\ updating \in [Admins -> UpdateRecord \cup {None}]
    /\ cutOff \in BOOLEAN /\ unbuilt \in BOOLEAN

(* The tree, and what is built of it, at each step of an update.            *)
Follows(u) ==
    /\ recorded = [branch |-> u.oldBranch, commit |-> u.oldHead]
    /\ u.at = "switch" => current = u.oldBranch /\ HeadCommit = u.oldHead
    /\ ~unbuilt => built = SourceOf[IF u.at = "record" THEN HeadCommit ELSE u.oldHead]

AtWork == {a \in Admins : updating[a] # None}
(* UPDATE_LOCK *)
OneUpdate == \A a, b \in AtWork : a = b

(* Unless an update was cut off, every update under way is in step with the *)
(* tree; when none is, the record is of the tree, and what was built is.    *)
InStep == \A a \in AtWork : Follows(updating[a])
Between == AtWork = {} => /\ recorded = [branch |-> current, commit |-> HeadCommit]
                          /\ ~unbuilt => built = SourceOf[HeadCommit]
FromItsCommit == ~unbuilt => running.from = SourceOf[running.commit]

UpdateInv == /\ UpdateTypeOK /\ OneUpdate
             /\ ~cutOff => InStep /\ Between /\ FromItsCommit

LEMMA UpdateStarts == UpdateInit => UpdateInv
<1> SUFFICES ASSUME UpdateInit
             PROVE  UpdateInv
  OBVIOUS
<1>1. local[current] = FirstCommit
  BY UpdateAssumption DEF UpdateInit
<1>2. AtWork = {}
  BY DEF UpdateInit, AtWork
<1>3. UpdateTypeOK
  BY <1>1, UpdateAssumption DEF UpdateInit, UpdateTypeOK, HeadCommit
<1> QED
  BY <1>1, <1>2, <1>3 DEF UpdateInit, UpdateInv, OneUpdate, InStep, Between, FromItsCommit, HeadCommit

(* What an administrator who is not at work does not touch.                 *)
LEMMA WorkAlone ==
  ASSUME UpdateTypeOK, OneUpdate, NEW a \in Admins, NEW u \in UpdateRecord \cup {None},
         \A b \in AtWork : b = a, updating' = [updating EXCEPT ![a] = u]
  PROVE  /\ updating' \in [Admins -> UpdateRecord \cup {None}]
         /\ AtWork' = IF u = None THEN {} ELSE {a}
         /\ updating'[a] = u /\ OneUpdate'
BY DEF UpdateTypeOK, OneUpdate, AtWork

LEMMA UpdateAdvances ==
  ASSUME UpdateTypeOK, OneUpdate, NEW a \in Admins, NEW s, NEW t \in {"switch", "build", "restore", "record"},
         At(a, s), Advances(a, t)
  PROVE  /\ updating[a] \in UpdateRecord /\ AtWork = {a}
         /\ updating' \in [Admins -> UpdateRecord \cup {None}] /\ AtWork' = {a} /\ OneUpdate'
         /\ updating'[a] = [updating[a] EXCEPT !.at = t]
<1>1. updating[a] \in UpdateRecord /\ a \in AtWork
  BY DEF UpdateTypeOK, At, AtWork
<1>2. [updating[a] EXCEPT !.at = t] \in UpdateRecord
  BY <1>1 DEF UpdateRecord
<1>3. updating' = [updating EXCEPT ![a] = [updating[a] EXCEPT !.at = t]]
  BY <1>1 DEF Advances, UpdateTypeOK
<1>4. \A b \in AtWork : b = a
  BY <1>1 DEF OneUpdate
<1> QED
  BY <1>1, <1>2, <1>3, <1>4, WorkAlone, UpdateAssumption

LEMMA UpdateBegins ==
  ASSUME UpdateInv, NEW a \in Admins, NEW b \in Branches, NEW install \in BOOLEAN, NEW restart \in BOOLEAN,
         BeginUpdate(a, b, install, restart)
  PROVE  UpdateInv'
<1> DEFINE u == [at |-> "switch", branch |-> b, oldHead |-> HeadCommit, oldBranch |-> current,
                 install |-> install, restart |-> restart]
<1>1. u \in UpdateRecord /\ u # None
  BY UpdateAssumption DEF UpdateInv, UpdateTypeOK, UpdateRecord
<1>2. AtWork = {}
  BY DEF BeginUpdate, Unlocked, AtWork
<1>3. updating' = [updating EXCEPT ![a] = u] /\ tracking' = github
  BY DEF BeginUpdate
<1>4. UNCHANGED <<github, local, current, built, running, recorded, cutOff, unbuilt>>
  BY DEF BeginUpdate, tree
<1>5. /\ updating' \in [Admins -> UpdateRecord \cup {None}] /\ AtWork' = {a} /\ updating'[a] = u /\ OneUpdate'
  BY <1>1, <1>2, <1>3, WorkAlone DEF UpdateInv
<1>6. UpdateTypeOK'
  BY <1>3, <1>4, <1>5 DEF UpdateInv, UpdateTypeOK, HeadCommit
<1>7. ASSUME ~cutOff'
      PROVE  InStep' /\ Between' /\ FromItsCommit'
  <2>1. Between /\ FromItsCommit
    BY <1>4, <1>7 DEF UpdateInv
  <2> QED
    BY <1>2, <1>4, <1>5, <2>1 DEF Between, InStep, Follows, FromItsCommit, HeadCommit
<1> QED
  BY <1>5, <1>6, <1>7 DEF UpdateInv

LEMMA UpdateSwitches ==
  ASSUME UpdateInv, NEW a \in Admins, Switch(a)
  PROVE  UpdateInv'
<1> DEFINE b == updating[a].branch
<1>1. PICK t \in {"build", "restore"} : Advances(a, t)
  BY DEF Switch
<1>2. At(a, "switch") /\ UpdateTypeOK /\ OneUpdate
  BY DEF Switch, UpdateInv
<1>3. /\ updating[a] \in UpdateRecord /\ AtWork = {a}
      /\ updating' \in [Admins -> UpdateRecord \cup {None}] /\ AtWork' = {a} /\ OneUpdate'
      /\ updating'[a] = [updating[a] EXCEPT !.at = t]
  BY <1>1, <1>2, UpdateAdvances
<1>4. UNCHANGED <<github, tracking, built, running, recorded, cutOff, unbuilt>>
  BY DEF Switch
<1>5. b \in Branches /\ Checkout(b) \in [Branches -> Commits \cup {None}] /\ Checkout(b)[b] \in Commits
  BY <1>2, <1>3 DEF UpdateTypeOK, UpdateRecord, Checkout
<1>6. local' \in [Branches -> Commits \cup {None}] /\ current' \in Branches /\ local'[current'] \in Commits
  <2>1. CASE current' = b /\ local' = [Checkout(b) EXCEPT ![b] = FastForward(@, tracking[b])]
    <3>1. FastForward(Checkout(b)[b], tracking[b]) \in Commits
      BY <1>2, <1>5 DEF FastForward, UpdateTypeOK
    <3> QED
      BY <1>5, <2>1, <3>1
  <2>2. CASE current' = b /\ local' = Checkout(b)
    BY <1>5, <2>2
  <2>3. CASE UNCHANGED tree
    BY <1>2, <2>3 DEF tree, UpdateTypeOK, HeadCommit
  <2> QED
    BY <2>1, <2>2, <2>3 DEF Switch
<1>7. UpdateTypeOK'
  BY <1>2, <1>3, <1>4, <1>6 DEF UpdateTypeOK, HeadCommit
<1>8. ASSUME ~cutOff'
      PROVE  InStep' /\ Between' /\ FromItsCommit'
  <2>1. Follows(updating[a]) /\ FromItsCommit
    BY <1>3, <1>4, <1>8 DEF UpdateInv, InStep
  <2>2. /\ updating'[a].oldBranch = updating[a].oldBranch /\ updating'[a].oldHead = updating[a].oldHead
        /\ updating'[a].at \in {"build", "restore"} /\ updating[a].at = "switch"
    BY <1>2, <1>3 DEF UpdateRecord, At
  <2> QED
    BY <1>3, <1>4, <2>1, <2>2 DEF Between, InStep, Follows, FromItsCommit
<1> QED
  BY <1>3, <1>7, <1>8 DEF UpdateInv

LEMMA UpdateBuilds ==
  ASSUME UpdateInv, NEW a \in Admins, Build(a)
  PROVE  UpdateInv'
<1> DEFINE changed == SourceOf[updating[a].oldHead] # SourceOf[HeadCommit]
<1>1. PICK t \in {"record", "restore"} : Advances(a, t)
  BY DEF Build
<1>2. At(a, "build") /\ UpdateTypeOK /\ OneUpdate
  BY DEF Build, UpdateInv
<1>3. /\ updating[a] \in UpdateRecord /\ AtWork = {a}
      /\ updating' \in [Admins -> UpdateRecord \cup {None}] /\ AtWork' = {a} /\ OneUpdate'
      /\ updating'[a] = [updating[a] EXCEPT !.at = t]
  BY <1>1, <1>2, UpdateAdvances
<1>4. UNCHANGED <<github, tracking, local, current, running, recorded, cutOff>>
  BY DEF Build, tree
<1>5. unbuilt' \in BOOLEAN
  BY <1>2 DEF Build, UpdateTypeOK
<1>6. UpdateTypeOK'
  BY <1>2, <1>3, <1>4, <1>5 DEF UpdateTypeOK, HeadCommit
<1>7. updating'[a].oldBranch = updating[a].oldBranch /\ updating'[a].oldHead = updating[a].oldHead
  BY <1>3 DEF UpdateRecord
<1>8. /\ unbuilt => unbuilt'
      /\ ~unbuilt' => \/ built' = SourceOf[HeadCommit] /\ updating'[a].at = "record"
                      \/ UNCHANGED built /\ updating'[a].at = "restore"
                      \/ UNCHANGED built /\ SourceOf[updating[a].oldHead] = SourceOf[HeadCommit]
  <2>1. \A s \in {"record", "restore"} : Advances(a, s) => updating'[a].at = s
    BY <1>2, <1>3 DEF Advances, UpdateTypeOK, UpdateRecord
  <2>2. CASE changed /\ updating[a].install
    BY <2>1, <2>2 DEF Build
  <2>3. CASE ~(changed /\ updating[a].install)
    BY <2>1, <2>3 DEF Build
  <2> QED
    BY <2>2, <2>3
<1>9. ASSUME ~cutOff'
      PROVE  InStep' /\ Between' /\ FromItsCommit'
  <2>1. Follows(updating[a]) /\ FromItsCommit
    BY <1>3, <1>4, <1>9 DEF UpdateInv, InStep
  <2>2. updating[a].at = "build" /\ updating'[a].at \in {"record", "restore"} /\ HeadCommit' = HeadCommit
    BY <1>2, <1>3, <1>4 DEF At, UpdateRecord, HeadCommit
  <2>3. recorded' = [branch |-> updating'[a].oldBranch, commit |-> updating'[a].oldHead]
    BY <1>4, <1>7, <2>1 DEF Follows
  <2>4. ~unbuilt => built = SourceOf[updating[a].oldHead]
    BY <2>1, <2>2 DEF Follows
  <2>5. Follows(updating[a])'
    BY <1>7, <1>8, <2>2, <2>3, <2>4 DEF Follows
  <2> QED
    BY <1>3, <1>4, <1>8, <2>1, <2>5 DEF Between, InStep, FromItsCommit
<1> QED
  BY <1>3, <1>6, <1>9 DEF UpdateInv

LEMMA UpdateEnds ==
  ASSUME UpdateInv, NEW a \in Admins, Restore(a) \/ Record(a)
  PROVE  UpdateInv'
<1>1. updating[a] \in UpdateRecord /\ AtWork = {a} /\ UpdateTypeOK /\ OneUpdate
  BY DEF Restore, Record, At, UpdateInv, UpdateTypeOK, OneUpdate, AtWork
<1>2. updating' = [updating EXCEPT ![a] = None]
  BY DEF Restore, Record
<1>3. updating' \in [Admins -> UpdateRecord \cup {None}] /\ AtWork' = {} /\ OneUpdate'
  BY <1>1, <1>2, WorkAlone
<1>4. UNCHANGED <<github, tracking, built, running, unbuilt>>
  BY DEF Restore, Record
<1>5. CASE Restore(a)
  <2>1. updating[a].at = "restore" /\ UNCHANGED recorded
    BY <1>5 DEF Restore, At
  <2>2. CASE GoBack(updating[a]) /\ UNCHANGED cutOff
    <3>1. updating[a].oldBranch \in Branches /\ updating[a].oldHead \in Commits
      BY <1>1 DEF UpdateRecord
    <3>2. /\ local' \in [Branches -> Commits \cup {None}] /\ current' = updating[a].oldBranch
          /\ local'[current'] = updating[a].oldHead
      BY <1>1, <2>2, <3>1 DEF GoBack, UpdateTypeOK
    <3>3. UpdateTypeOK'
      BY <1>1, <1>3, <1>4, <2>2, <3>1, <3>2 DEF UpdateTypeOK, HeadCommit
    <3>4. ASSUME ~cutOff'
          PROVE  InStep' /\ Between' /\ FromItsCommit'
      <4>1. Follows(updating[a]) /\ FromItsCommit
        BY <1>1, <2>2, <3>4 DEF UpdateInv, InStep
      <4> QED
        BY <1>3, <1>4, <2>1, <3>2, <4>1 DEF InStep, Between, Follows, FromItsCommit, HeadCommit
    <3> QED
      BY <1>3, <3>3, <3>4 DEF UpdateInv
  <2>3. CASE UNCHANGED tree /\ cutOff' = TRUE
    <3>1. UpdateTypeOK'
      BY <1>1, <1>3, <1>4, <2>3 DEF UpdateTypeOK, HeadCommit, tree
    <3> QED
      BY <1>3, <2>3, <3>1 DEF UpdateInv
  <2> QED
    BY <1>5, <2>2, <2>3 DEF Restore
<1>6. CASE Record(a)
  <2>1. /\ updating[a].at = "record" /\ recorded' = [branch |-> current, commit |-> HeadCommit]
        /\ UNCHANGED <<local, current, cutOff>>
    BY <1>6 DEF Record, At, tree
  <2>2. UpdateTypeOK'
    BY <1>1, <1>3, <1>4, <2>1 DEF UpdateTypeOK, HeadCommit
  <2>3. ASSUME ~cutOff'
        PROVE  InStep' /\ Between' /\ FromItsCommit'
    <3>1. Follows(updating[a]) /\ FromItsCommit
      BY <1>1, <2>1, <2>3 DEF UpdateInv, InStep
    <3> QED
      BY <1>3, <1>4, <2>1, <3>1 DEF InStep, Between, Follows, FromItsCommit, HeadCommit
  <2> QED
    BY <1>3, <2>2, <2>3 DEF UpdateInv
<1> QED
  BY <1>5, <1>6

LEMMA UpdateCutOff ==
  ASSUME UpdateInv, Exec
  PROVE  UpdateInv'
<1>1. UNCHANGED <<github, tracking, local, current, built, recorded, unbuilt>>
  BY DEF Exec, tree
<1>2. CASE UNCHANGED <<running, cutOff, updating>>
  BY <1>1, <1>2 DEF UpdateInv, UpdateTypeOK, OneUpdate, AtWork, InStep, Follows, Between, FromItsCommit, HeadCommit
<1>3. CASE /\ running' = [from |-> built, commit |-> HeadCommit] /\ cutOff' = (cutOff \/ ~Unlocked)
           /\ updating' = [a \in Admins |-> None]
  <2>1. AtWork' = {} /\ OneUpdate'
    BY <1>3 DEF AtWork, OneUpdate
  <2>2. cutOff' \in BOOLEAN
    BY <1>3 DEF UpdateInv, UpdateTypeOK
  <2>3. UpdateTypeOK'
    BY <1>1, <1>3, <2>2 DEF UpdateInv, UpdateTypeOK, HeadCommit
  <2>4. ASSUME ~cutOff'
        PROVE  InStep' /\ Between' /\ FromItsCommit'
    <3>1. AtWork = {} /\ ~cutOff
      BY <1>3, <2>4 DEF Unlocked, AtWork
    <3>2. Between /\ FromItsCommit
      BY <3>1 DEF UpdateInv
    <3> QED
      BY <1>1, <1>3, <2>1, <3>1, <3>2 DEF InStep, Between, FromItsCommit, HeadCommit
  <2> QED
    BY <2>1, <2>3, <2>4 DEF UpdateInv
<1> QED
  BY <1>2, <1>3 DEF Exec

LEMMA UpdateStep == UpdateInv /\ [UpdateNext]_updateVars => UpdateInv'
<1> SUFFICES ASSUME UpdateInv, [UpdateNext]_updateVars
             PROVE  UpdateInv'
  OBVIOUS
<1>1. CASE /\ github' \in [Branches -> Commits] /\ tracking' \in [Branches -> Commits]
           /\ UNCHANGED <<local, current, built, running, updating, recorded, cutOff, unbuilt>>
  BY <1>1 DEF UpdateInv, UpdateTypeOK, OneUpdate, AtWork, InStep, Follows, Between, FromItsCommit, HeadCommit
<1>2. ASSUME NEW b \in Branches, NEW c \in Commits, PushTo(b, c)
      PROVE  UpdateInv'
  BY <1>1, <1>2 DEF PushTo, tree, UpdateInv, UpdateTypeOK
<1>3. CASE CheckRemote \/ ScheduleRestart \/ UNCHANGED updateVars
  BY <1>1, <1>3 DEF CheckRemote, ScheduleRestart, updateVars, tree, UpdateInv, UpdateTypeOK
<1>4. CASE Exec
  BY <1>4, UpdateCutOff
<1>5. ASSUME NEW a \in Admins, NEW b \in Branches, NEW install \in BOOLEAN, NEW restart \in BOOLEAN,
             BeginUpdate(a, b, install, restart)
      PROVE  UpdateInv'
  BY <1>5, UpdateBegins
<1>6. ASSUME NEW a \in Admins, Switch(a) \/ Build(a) \/ Restore(a) \/ Record(a)
      PROVE  UpdateInv'
  BY <1>6, UpdateSwitches, UpdateBuilds, UpdateEnds
<1> QED
  BY <1>2, <1>3, <1>4, <1>5, <1>6 DEF UpdateNext

(* Whatever several administrators ask for, whoever pushes in between and   *)
(* however a build fails: when no update is under way, the tree, what was   *)
(* built of it and the record in the audit log are those of one commit      *)
(* (admin/update.rs apply, restore; admin/system.rs).                       *)
THEOREM UpdatesAreWhole == UpdateSpec => []UpdateIsWhole
<1>1. UpdateInv => UpdateIsWhole
  <2> SUFFICES ASSUME UpdateInv, Unlocked, ~cutOff
               PROVE  UpdateIsWhole
    BY DEF UpdateIsWhole
  <2>1. AtWork = {}
    BY DEF Unlocked, AtWork
  <2> QED
    BY <2>1 DEF UpdateInv, Between, FromItsCommit, UpdateIsWhole
<1> QED
  BY UpdateStarts, UpdateStep, <1>1, PTL DEF UpdateSpec

-----------------------------------------------------------------------------
(* The settings in force are those stored, for any number of readers, of    *)
(* changes at the same time and of values - as long as no change is stored  *)
(* while a value read before it is on its way to the cache (the run         *)
(* SettingsCache_stale shows what happens then).                            *)

SettingsTypeOK ==
    /\ rows \in RowRecord
    /\ copy \in [loaded : BOOLEAN, values : RowRecord]
    /\ limits \in Values
    /\ reading \in [Readers -> RowRecord \cup {None}]
    /\ changing = [c \in Changers |-> changing[c]]

(* A stale copy is about to be invalidated, and nobody carries a value from *)
(* it; what is carried is what is stored.                                   *)
CopyFollows ==
    copy.loaded => copy.values = rows \/ (~Carried /\ \E c \in Changers : changing[c].next = "invalidate")
CarriedFresh ==
    /\ \A r \in Readers : reading[r] \in {rows, None}
    /\ \A c \in Changers :
          /\ changing[c].next \in {"fillGet", "fillView"} => changing[c].read = rows
          /\ changing[c].next = "set" => changing[c].read = rows.limits

(* Stale limits will be set by a change that is under way. *)
WillSet(c) == \/ changing[c].next = "invalidate" /\ changing[c].read = "limits"
              \/ changing[c].next \in {"get", "fillGet", "set"}
LimitsFollow == limits = rows.limits \/ \E c \in Changers : WillSet(c)

SettingsInv == SettingsTypeOK /\ CopyFollows /\ CarriedFresh /\ LimitsFollow

LEMMA SettingsStart == SettingsInit => SettingsInv
<1> SUFFICES ASSUME SettingsInit
             PROVE  SettingsInv
  OBVIOUS
<1>1. rows \in RowRecord
  BY SettingsAssumption DEF SettingsInit, RowRecord
<1>2. SettingsTypeOK
  BY <1>1 DEF SettingsInit, SettingsTypeOK, RowRecord
<1>3. CopyFollows /\ LimitsFollow
  BY DEF SettingsInit, CopyFollows, LimitsFollow
<1>4. CarriedFresh
  BY DEF SettingsInit, CarriedFresh, Done
<1> QED
  BY <1>2, <1>3, <1>4 DEF SettingsInv

LEMMA OneGoes ==
  ASSUME SettingsTypeOK, NEW c \in Changers, NEW v, changing' = [changing EXCEPT ![c] = v]
  PROVE  /\ changing' = [d \in Changers |-> changing'[d]]
         /\ changing'[c] = v /\ \A d \in Changers \ {c} : changing'[d] = changing[d]
BY DEF SettingsTypeOK

(* A change is only stored when nobody carries a value. *)
LEMMA StoreStep ==
  ASSUME ~Overtake, SettingsInv, NEW c \in Changers, NEW key \in {"limits", "maintenance"}, NEW value \in Values,
         Store(c, key, value)
  PROVE  SettingsInv'
<1>1. /\ changing[c] = Done /\ ~Carried /\ rows' = [rows EXCEPT ![key] = value]
      /\ changing' = [changing EXCEPT ![c] = [next |-> "invalidate", read |-> key]]
      /\ UNCHANGED <<copy, limits, reading>>
  BY DEF Store, Announced, Goes
<1>2. /\ changing' = [d \in Changers |-> changing'[d]]
      /\ changing'[c] = [next |-> "invalidate", read |-> key]
      /\ \A d \in Changers \ {c} : changing'[d] = changing[d]
  BY <1>1, OneGoes DEF SettingsInv
<1>3. rows' \in RowRecord /\ (key = "maintenance" => rows'.limits = rows.limits)
  BY <1>1 DEF SettingsInv, SettingsTypeOK, RowRecord
<1>4. SettingsTypeOK'
  BY <1>1, <1>2, <1>3 DEF SettingsInv, SettingsTypeOK
<1>5. /\ \A r \in Readers : reading[r] = None
      /\ \A d \in Changers : changing[d].next \notin {"get", "fillGet", "fillView", "set"}
  BY <1>1 DEF Carried
<1>6. /\ \A r \in Readers : reading'[r] = None
      /\ \A d \in Changers : changing'[d].next \notin {"get", "fillGet", "fillView", "set"}
  BY <1>1, <1>2, <1>5
<1>7. CopyFollows' /\ CarriedFresh'
  BY <1>2, <1>6 DEF CopyFollows, CarriedFresh, Carried
<1>8. LimitsFollow'
  <2>1. CASE key = "limits"
    BY <1>2, <2>1 DEF LimitsFollow, WillSet
  <2>2. CASE key = "maintenance"
    <3>1. \A d \in Changers : WillSet(d) => d # c /\ WillSet(d)'
      BY <1>1, <1>2 DEF WillSet, Done
    <3> QED
      BY <1>1, <1>3, <2>2, <3>1 DEF SettingsInv, LimitsFollow
  <2> QED
    BY <2>1, <2>2
<1> QED
  BY <1>4, <1>7, <1>8 DEF SettingsInv

LEMMA ReaderStep ==
  ASSUME SettingsInv, NEW r \in Readers, ReadRows(r) \/ FillCopy(r)
  PROVE  SettingsInv'
<1>1. CASE ReadRows(r)
  <2>1. ~copy.loaded /\ reading' = [reading EXCEPT ![r] = rows] /\ UNCHANGED <<rows, copy, limits, changing>>
    BY <1>1 DEF ReadRows
  <2> QED
    BY <2>1 DEF SettingsInv, SettingsTypeOK, CopyFollows, CarriedFresh, LimitsFollow, WillSet
<1>2. CASE FillCopy(r)
  <2>1. reading[r] = rows
    BY <1>2 DEF FillCopy, SettingsInv, CarriedFresh
  <2>2. /\ copy' = [loaded |-> TRUE, values |-> rows] /\ reading' = [reading EXCEPT ![r] = None]
        /\ UNCHANGED <<rows, limits, changing>>
    BY <1>2, <2>1 DEF FillCopy, Stored
  <2> QED
    BY <2>2 DEF SettingsInv, SettingsTypeOK, CopyFollows, CarriedFresh, LimitsFollow, WillSet
<1> QED
  BY <1>1, <1>2

LEMMA ChangerStep ==
  ASSUME SettingsInv, NEW c \in Changers,
         Invalidate(c) \/ GetCached(c) \/ LoadOwn(c) \/ FillOwn(c) \/ SetLimits(c)
  PROVE  SettingsInv'
<1> DEFINE Becomes(step, value) == changing' = [changing EXCEPT ![c] = [next |-> step, read |-> value]]
<1>1. ASSUME NEW step, NEW value, Becomes(step, value)
      PROVE  /\ changing' = [d \in Changers |-> changing'[d]]
             /\ changing'[c].next = step /\ changing'[c].read = value
             /\ \A d \in Changers \ {c} : changing'[d] = changing[d]
  BY <1>1, OneGoes DEF SettingsInv
<1>2. CASE Invalidate(c)
  <2>1. PICK step \in {"get", "view"} : Becomes(step, None) /\ (changing[c].read = "limits" => step = "get")
    BY <1>2 DEF Invalidate, Goes
  <2>2. copy' = [copy EXCEPT !.loaded = FALSE] /\ UNCHANGED <<rows, limits, reading>> /\ changing[c].next = "invalidate"
    BY <1>2 DEF Invalidate
  <2>3. SettingsTypeOK' /\ CopyFollows' /\ CarriedFresh'
    BY <1>1, <2>1, <2>2 DEF SettingsInv, SettingsTypeOK, CopyFollows, CarriedFresh
  <2>4. LimitsFollow'
    BY <1>1, <2>1, <2>2 DEF SettingsInv, LimitsFollow, WillSet
  <2> QED
    BY <2>3, <2>4 DEF SettingsInv
<1>3. CASE GetCached(c)
  <2>1. copy.loaded /\ UNCHANGED <<rows, copy, limits, reading>>
    BY <1>3 DEF GetCached
  <2>2. CASE changing[c].next = "get"
    <3>1. Becomes("set", copy.values.limits) /\ Carried /\ copy.values = rows
      BY <1>3, <2>1, <2>2 DEF GetCached, Goes, Carried, SettingsInv, CopyFollows
    <3>2. SettingsTypeOK' /\ CopyFollows' /\ CarriedFresh'
      BY <1>1, <2>1, <3>1 DEF SettingsInv, SettingsTypeOK, CopyFollows, CarriedFresh
    <3>3. LimitsFollow'
      BY <1>1, <3>1 DEF LimitsFollow, WillSet
    <3> QED
      BY <3>2, <3>3 DEF SettingsInv
  <2>3. CASE changing[c].next = "view"
    <3>1. Becomes("done", None)
      BY <1>3, <2>3 DEF GetCached, Done
    <3>2. Carried' => Carried
      BY <1>1, <2>1, <3>1 DEF Carried
    <3>3. SettingsTypeOK' /\ CarriedFresh'
      BY <1>1, <2>1, <3>1 DEF SettingsInv, SettingsTypeOK, CarriedFresh
    <3>4. CopyFollows' /\ LimitsFollow'
      BY <1>1, <2>1, <2>3, <3>1, <3>2 DEF SettingsInv, CopyFollows, LimitsFollow, WillSet
    <3> QED
      BY <3>3, <3>4 DEF SettingsInv
  <2> QED
    BY <1>3, <2>2, <2>3 DEF GetCached
<1>4. CASE LoadOwn(c)
  <2>1. ~copy.loaded /\ UNCHANGED <<rows, copy, limits, reading>> /\ changing[c].next \in {"get", "view"}
    BY <1>4 DEF LoadOwn
  <2>2. PICK step \in {"fillGet", "fillView"} : Becomes(step, rows) /\ (changing[c].next = "get" => step = "fillGet")
    BY <1>4 DEF LoadOwn, Goes
  <2>3. SettingsTypeOK' /\ CopyFollows' /\ CarriedFresh'
    BY <1>1, <2>1, <2>2 DEF SettingsInv, SettingsTypeOK, CopyFollows, CarriedFresh
  <2>4. LimitsFollow'
    BY <1>1, <2>1, <2>2 DEF SettingsInv, LimitsFollow, WillSet
  <2> QED
    BY <2>3, <2>4 DEF SettingsInv
<1>5. CASE FillOwn(c)
  <2>1. changing[c].read = rows /\ changing[c].next \in {"fillGet", "fillView"}
    BY <1>5 DEF FillOwn, SettingsInv, CarriedFresh
  <2>2. copy' = [loaded |-> TRUE, values |-> rows] /\ UNCHANGED <<rows, limits, reading>>
    BY <1>5, <2>1 DEF FillOwn, Stored
  <2>3. PICK step \in {"get", "view"} : Becomes(step, None) /\ (changing[c].next = "fillGet" => step = "get")
    BY <1>5 DEF FillOwn, Goes
  <2>4. SettingsTypeOK' /\ CopyFollows' /\ CarriedFresh'
    BY <1>1, <2>2, <2>3 DEF SettingsInv, SettingsTypeOK, CopyFollows, CarriedFresh
  <2>5. LimitsFollow'
    BY <1>1, <2>1, <2>2, <2>3 DEF SettingsInv, LimitsFollow, WillSet
  <2> QED
    BY <2>4, <2>5 DEF SettingsInv
<1>6. CASE SetLimits(c)
  <2>1. limits' = rows.limits /\ UNCHANGED <<rows, copy, reading>> /\ changing[c].next = "set" /\ Becomes("done", None)
    BY <1>6 DEF SetLimits, Done, SettingsInv, CarriedFresh
  <2>2. Carried /\ rows.limits \in Values
    BY <2>1 DEF Carried, SettingsInv, SettingsTypeOK, RowRecord
  <2>3. SettingsTypeOK' /\ CopyFollows' /\ CarriedFresh'
    BY <1>1, <2>1, <2>2 DEF SettingsInv, SettingsTypeOK, CopyFollows, CarriedFresh
  <2> QED
    BY <2>1, <2>3 DEF SettingsInv, LimitsFollow
<1> QED
  BY <1>2, <1>3, <1>4, <1>5, <1>6

LEMMA SettingsStep ==
  ASSUME ~Overtake
  PROVE  SettingsInv /\ [SettingsNext]_settingsVars => SettingsInv'
<1> SUFFICES ASSUME SettingsInv, [SettingsNext]_settingsVars
             PROVE  SettingsInv'
  OBVIOUS
<1>1. CASE RestartSettings
  <2>1. /\ copy' = [loaded |-> TRUE, values |-> rows] /\ limits' = rows.limits /\ rows' = rows
        /\ reading' = [r \in Readers |-> None]
        /\ changing' = [c \in Changers |-> [next |-> "done", read |-> None]]
    BY <1>1 DEF RestartSettings, Stored, Done
  <2>2. SettingsTypeOK'
    BY <2>1 DEF SettingsInv, SettingsTypeOK, RowRecord
  <2> QED
    BY <2>1, <2>2 DEF SettingsInv, CopyFollows, CarriedFresh, LimitsFollow
<1>2. CASE UNCHANGED settingsVars
  BY <1>2 DEF settingsVars, SettingsInv, SettingsTypeOK, CopyFollows, Carried, CarriedFresh, LimitsFollow, WillSet
<1> QED
  BY <1>1, <1>2, StoreStep, ReaderStep, ChangerStep DEF SettingsNext

(* Once the changes have been carried out, the limits in force and what the *)
(* cache would answer are the rows stored, whichever of several changes is  *)
(* the last to invalidate the cache and to set the limits (settings.rs).    *)
THEOREM SettingsAreInForce ==
  ASSUME ~Overtake
  PROVE  SettingsSpec => []SettingsInForce
<1>1. SettingsInv => SettingsInForce
  <2> SUFFICES ASSUME SettingsInv, AtRest
               PROVE  SettingsInForce
    BY DEF SettingsInForce
  <2>1. \A c \in Changers : changing[c].next = "done"
    BY DEF AtRest, Done
  <2> QED
    BY <2>1 DEF SettingsInv, CopyFollows, LimitsFollow, WillSet, SettingsInForce
<1>2. SettingsInv /\ [SettingsNext]_settingsVars => SettingsInv'
  BY SettingsStep
<1> QED
  BY SettingsStart, <1>1, <1>2, PTL DEF SettingsSpec

-----------------------------------------------------------------------------
(* The daily puzzle, for any number of users, connections, days and         *)
(* positions.                                                               *)

(* What daily_scores and the history hold. *)
EntryRecord == [best : Nat, attempts : Nat, revealed : BOOLEAN, row : BOOLEAN]
EventRecord == [kind : {"submit", "reveal", "drop", "forgive"}, who : Players \cup {None}, date : Dates, score : Nat]

DailyTypeOK ==
  /\ today \in Dates
  /\ puzzles \in [Dates -> PuzzleRecord \cup {None}]
  /\ entries \in [Dates -> [Players -> EntryRecord]]
  /\ request \in [Requests -> RequestRecord \cup {None}]
  /\ play \in [Connections -> PlayRecord \cup {None}]
  /\ events \in Seq(EventRecord)

(* A puzzle that is played, or about to be, is stored. *)
PuzzleThere ==
  /\ \A c \in Connections : play[c] # None => puzzles[play[c].date] # None
  /\ \A k \in Requests : request[k] # None =>
       /\ request[k].at = "open" => puzzles[request[k].date] # None
       /\ request[k].at \in {"save", "open"} => request[k].made # None

(* The score that counts is the greatest of S. *)
LEMMA GreatestIsMax ==
  ASSUME NEW S \in SUBSET Nat, NEW x \in S, \A y \in S : y <= x
  PROVE  Max(S) = x
<1>1. Max(S) \in S /\ \A y \in S : Max(S) >= y
  BY DEF Max
<1>2. Max(S) \in Nat /\ x \in Nat /\ Max(S) >= x /\ Max(S) <= x
  BY <1>1
<1> QED
  BY <1>2

LEMMA MaxOfTwo ==
  ASSUME NEW a \in Nat, NEW b \in Nat
  PROVE  Max({a, b}) = IF a > b THEN a ELSE b
BY GreatestIsMax

-----------------------------------------------------------------------------
(* Types.                                                                   *)

LEMMA OneEntry ==
  ASSUME DailyTypeOK, NEW d \in Dates, NEW u \in Players, NEW e \in EntryRecord,
         entries' = [entries EXCEPT ![d][u] = e]
  PROVE  /\ entries' \in [Dates -> [Players -> EntryRecord]] /\ entries'[d][u] = e
         /\ \A c \in Dates, v \in Players : c # d \/ v # u => entries'[c][v] = entries[c][v]
BY DEF DailyTypeOK

LEMMA EventType ==
  ASSUME DailyTypeOK, NEW kind \in {"submit", "reveal", "drop", "forgive"}, NEW u \in Players \cup {None},
         NEW d \in Dates, NEW score \in Nat, Happens(kind, u, d, score)
  PROVE  /\ [kind |-> kind, who |-> u, date |-> d, score |-> score] \in EventRecord
         /\ events' \in Seq(EventRecord)
BY DEF DailyTypeOK, Happens, EventRecord

LEMMA DailyStarts == DailyInit => DailyTypeOK /\ PuzzleThere
BY DailyAssumption DEF DailyInit, DailyTypeOK, PuzzleThere, Dates, NoEntry, EntryRecord

LEMMA RequestSteps ==
  ASSUME DailyTypeOK, PuzzleThere, NEW k \in Requests,
         \/ Look(k) \/ SavePuzzle(k) \/ OpenDaily(k) \/ \E c \in Connections : StartDaily(k, c)
  PROVE  DailyTypeOK' /\ PuzzleThere'
<1> USE DailyAssumption
<1>1. ASSUME NEW c \in Connections, StartDaily(k, c)
      PROVE  DailyTypeOK' /\ PuzzleThere'
  <2>1. [conn |-> c, date |-> today, at |-> "look", made |-> None] \in RequestRecord
    BY DEF DailyTypeOK, RequestRecord
  <2> QED
    BY <1>1, <2>1 DEF StartDaily, DailyTypeOK, PuzzleThere
<1>2. CASE Look(k)
  <2>1. request[k] \in RequestRecord /\ UNCHANGED <<today, puzzles, entries, play, events>>
    BY <1>2 DEF Look, DailyTypeOK
  <2>2. CASE puzzles[request[k].date] # None /\ request' = [request EXCEPT ![k].at = "open", ![k].made = puzzles[request[k].date]]
    <3>1. puzzles[request[k].date] \in PuzzleRecord
      BY <2>1, <2>2 DEF DailyTypeOK, RequestRecord
    <3>2. request' \in [Requests -> RequestRecord \cup {None}] /\ request'[k].made # None /\ request'[k].date = request[k].date
      BY <2>1, <2>2, <3>1 DEF DailyTypeOK, RequestRecord
    <3>3. \A j \in Requests \ {k} : request'[j] = request[j]
      BY <2>2 DEF DailyTypeOK
    <3> QED
      BY <2>1, <2>2, <3>2, <3>3 DEF DailyTypeOK, PuzzleThere
  <2>3. ASSUME NEW q \in Positions, NEW b \in FoundIn[q],
               request' = [request EXCEPT ![k].at = "save", ![k].made = [position |-> q, best |-> b, bestOn |-> q]]
        PROVE  DailyTypeOK' /\ PuzzleThere'
    <3>1. [position |-> q, best |-> b, bestOn |-> q] \in PuzzleRecord
      BY DEF PuzzleRecord
    <3>2. request' \in [Requests -> RequestRecord \cup {None}] /\ request'[k].at = "save" /\ request'[k].made # None
      BY <2>1, <2>3, <3>1 DEF DailyTypeOK, RequestRecord
    <3>3. \A j \in Requests \ {k} : request'[j] = request[j]
      BY <2>3 DEF DailyTypeOK
    <3> QED
      BY <2>1, <3>2, <3>3 DEF DailyTypeOK, PuzzleThere
  <2>4. CASE request' = [request EXCEPT ![k] = None]
    BY <2>1, <2>4 DEF DailyTypeOK, PuzzleThere
  <2> QED
    BY <1>2, <2>2, <2>3, <2>4 DEF Look
<1>3. CASE SavePuzzle(k)
  <2>1. request[k] \in RequestRecord /\ request[k].made \in PuzzleRecord /\ UNCHANGED <<today, entries, play, events>>
    BY <1>3 DEF SavePuzzle, DailyTypeOK, PuzzleThere, RequestRecord
  <2>2. /\ puzzles' \in [Dates -> PuzzleRecord \cup {None}]
        /\ \A d \in Dates : puzzles[d] # None => puzzles'[d] # None
    BY <1>3, <2>1 DEF SavePuzzle, DailyTypeOK
  <2>3. request' \in [Requests -> RequestRecord \cup {None}] /\ request'[k].at = "look"
    BY <1>3, <2>1 DEF SavePuzzle, DailyTypeOK, RequestRecord
  <2>4. \A j \in Requests \ {k} : request'[j] = request[j]
    BY <1>3 DEF SavePuzzle, DailyTypeOK
  <2>5. /\ \A j \in Requests : request[j] # None => request[j].date \in Dates
        /\ \A c \in Connections : play[c] # None => play[c].date \in Dates
    BY DEF DailyTypeOK, RequestRecord, PlayRecord
  <2> QED
    BY <2>1, <2>2, <2>3, <2>4, <2>5 DEF DailyTypeOK, PuzzleThere
<1>4. CASE OpenDaily(k)
  <2>1. /\ request[k] \in RequestRecord /\ request[k].made \in PuzzleRecord /\ puzzles[request[k].date] # None
        /\ request' = [request EXCEPT ![k] = None] /\ UNCHANGED <<today, puzzles, entries, events>>
    BY <1>4 DEF OpenDaily, DailyTypeOK, PuzzleThere, RequestRecord
  <2>2. CASE UNCHANGED play
    BY <2>1, <2>2 DEF DailyTypeOK, PuzzleThere
  <2>3. CASE play' = [play EXCEPT ![request[k].conn] =
                       [date |-> request[k].date, position |-> request[k].made.position, over |-> FALSE]]
    <3>1. [date |-> request[k].date, position |-> request[k].made.position, over |-> FALSE] \in PlayRecord
      BY <2>1 DEF RequestRecord, PuzzleRecord, PlayRecord
    <3> QED
      BY <2>1, <2>3, <3>1 DEF DailyTypeOK, PuzzleThere
  <2> QED
    BY <1>4, <2>2, <2>3 DEF OpenDaily
<1> QED
  BY <1>1, <1>2, <1>3, <1>4

LEMMA RecordedType ==
  ASSUME NEW e \in EntryRecord, NEW score \in Nat
  PROVE  /\ Recorded(e, score) \in EntryRecord /\ Recorded(e, score).revealed = e.revealed
         /\ ~e.revealed => /\ Recorded(e, score).attempts = e.attempts + 1
                           /\ Recorded(e, score).best = IF score > e.best THEN score ELSE e.best
<1>1. Max({score, e.best}) = IF score > e.best THEN score ELSE e.best
  BY MaxOfTwo DEF EntryRecord
<1>2. Max({score, e.best}) \in Nat
  BY <1>1 DEF EntryRecord
<1>3. CASE ~e.revealed
  <2>1. Recorded(e, score) = [e EXCEPT !.best = Max({score, e.best}), !.attempts = @ + 1, !.row = TRUE]
    BY <1>3 DEF Recorded
  <2>2. e.attempts + 1 \in Nat /\ e.revealed \in BOOLEAN
    BY DEF EntryRecord
  <2>3. Recorded(e, score) =
          [best |-> Max({score, e.best}), attempts |-> e.attempts + 1, revealed |-> e.revealed, row |-> TRUE]
    BY <2>1 DEF EntryRecord
  <2> QED
    BY <1>1, <1>2, <2>2, <2>3 DEF EntryRecord
<1> QED
  BY <1>3 DEF Recorded

LEMMA SubmitType ==
  ASSUME DailyTypeOK, PuzzleThere, NEW c \in Connections, NEW score, Submit(c, score)
  PROVE  /\ DailyTypeOK' /\ PuzzleThere' /\ score \in Nat /\ play[c] \in PlayRecord
         /\ puzzles[play[c].date] \in PuzzleRecord
         /\ Raised(puzzles[play[c].date], score, play[c].position) \in PuzzleRecord
         /\ PlayerOf[c] # None => Recorded(entries[play[c].date][PlayerOf[c]], score) \in EntryRecord
<1> USE DailyAssumption
<1>1. play[c] \in PlayRecord /\ score \in Nat /\ PlayerOf[c] \in Players \cup {None} /\ play[c].date \in Dates
  BY DEF Submit, DailyTypeOK, PlayRecord
<1>2. puzzles[play[c].date] \in PuzzleRecord
  BY <1>1 DEF Submit, DailyTypeOK, PuzzleThere
<1>3. Raised(puzzles[play[c].date], score, play[c].position) \in PuzzleRecord
  BY <1>1, <1>2 DEF Raised, PuzzleRecord, PlayRecord
<1>4. puzzles' \in [Dates -> PuzzleRecord \cup {None}] /\ \A d \in Dates : puzzles[d] # None => puzzles'[d] # None
  BY <1>1, <1>3 DEF Submit, DailyTypeOK
<1>5. PlayerOf[c] # None => Recorded(entries[play[c].date][PlayerOf[c]], score) \in EntryRecord
  BY <1>1, RecordedType DEF DailyTypeOK
<1>6. entries' \in [Dates -> [Players -> EntryRecord]]
  BY <1>1, <1>5, OneEntry DEF Submit, DailyTypeOK
<1>7. events' \in Seq(EventRecord)
  BY <1>1, EventType DEF Submit
<1>8. /\ play' \in [Connections -> PlayRecord \cup {None}]
      /\ \A b \in Connections : play'[b] # None => play[b] # None /\ play'[b].date = play[b].date
  BY <1>1 DEF Submit, DailyTypeOK, PlayRecord
<1>9. /\ \A j \in Requests : request[j] # None => request[j].date \in Dates
      /\ \A b \in Connections : play[b] # None => play[b].date \in Dates
  BY DEF DailyTypeOK, RequestRecord, PlayRecord
<1> QED
  BY <1>1, <1>2, <1>3, <1>4, <1>5, <1>6, <1>7, <1>8, <1>9 DEF Submit, DailyTypeOK, PuzzleThere

(* Showing the solution and forgiving it change no points. *)
Revealed(e) == [e EXCEPT !.revealed = TRUE, !.row = TRUE]
Forgiven(e) == [e EXCEPT !.revealed = FALSE]

LEMMA PointsStay ==
  ASSUME NEW e \in EntryRecord
  PROVE  /\ Revealed(e) \in EntryRecord /\ Revealed(e).revealed = TRUE
         /\ Revealed(e).best = e.best /\ Revealed(e).attempts = e.attempts
         /\ Forgiven(e) \in EntryRecord /\ Forgiven(e).revealed = FALSE
         /\ Forgiven(e).best = e.best /\ Forgiven(e).attempts = e.attempts
BY DEF EntryRecord, Revealed, Forgiven

LEMMA RevealEffect ==
  ASSUME DailyTypeOK, NEW c \in Connections, RevealDaily(c)
  PROVE  /\ play[c].date \in Dates /\ PlayerOf[c] \in Players
         /\ entries' = [entries EXCEPT ![play[c].date][PlayerOf[c]] = Revealed(entries[play[c].date][PlayerOf[c]])]
         /\ Happens("reveal", PlayerOf[c], play[c].date, 0) /\ UNCHANGED <<today, puzzles, request, play>>
<1>1. play[c].date \in Dates /\ PlayerOf[c] \in Players
  BY DailyAssumption DEF RevealDaily, DailyTypeOK, PlayRecord
<1> QED
  BY <1>1 DEF RevealDaily, Revealed

LEMMA ForgiveEffect ==
  ASSUME DailyTypeOK, NEW d \in Dates, NEW u \in Players, ResetRevealed(d, u)
  PROVE  /\ entries' = [entries EXCEPT ![d][u] = Forgiven(entries[d][u])]
         /\ Happens("forgive", u, d, 0) /\ UNCHANGED <<today, puzzles, request, play>>
<1>1. entries[d][u] \in EntryRecord
  BY DEF DailyTypeOK
<1> QED
  BY <1>1 DEF ResetRevealed, Forgiven, DailyTypeOK, EntryRecord

(* What the other steps do to the entries. *)
LEMMA OtherTypes ==
  ASSUME DailyTypeOK, PuzzleThere, NEW c \in Connections, RetryDaily(c) \/ RevealDaily(c) \/ LeaveDaily(c)
  PROVE  DailyTypeOK' /\ PuzzleThere'
<1> USE DailyAssumption
<1>1. play[c] \in PlayRecord /\ play[c].date \in Dates /\ play[c].position \in Positions /\ puzzles[play[c].date] \in PuzzleRecord
  BY DEF RetryDaily, RevealDaily, LeaveDaily, DailyTypeOK, PuzzleThere, PlayRecord
<1>2. CASE RetryDaily(c)
  <2>1. /\ play' = [play EXCEPT ![c].over = FALSE, ![c].position = puzzles[play[c].date].position]
        /\ UNCHANGED <<today, puzzles, entries, request, events>>
    BY <1>2 DEF RetryDaily
  <2>2. /\ play'[c] \in PlayRecord /\ play'[c].date = play[c].date /\ play' \in [Connections -> PlayRecord \cup {None}]
        /\ \A b \in Connections \ {c} : play'[b] = play[b]
    BY <1>1, <2>1 DEF DailyTypeOK, PlayRecord, PuzzleRecord
  <2> QED
    BY <1>1, <2>1, <2>2 DEF DailyTypeOK, PuzzleThere
<1>3. CASE RevealDaily(c)
  <2> DEFINE d == play[c].date
             u == PlayerOf[c]
             e == Revealed(entries[d][u])
  <2>1. /\ u \in Players /\ entries' = [entries EXCEPT ![d][u] = e]
        /\ Happens("reveal", u, d, 0) /\ UNCHANGED <<today, puzzles, request, play>>
    BY <1>3, RevealEffect
  <2>2. e \in EntryRecord
    <3>1. entries[d][u] \in EntryRecord
      BY <1>1, <2>1 DEF DailyTypeOK
    <3> QED
      BY <3>1, PointsStay
  <2> HIDE DEF e
  <2>3. entries' \in [Dates -> [Players -> EntryRecord]]
    BY <1>1, <2>1, <2>2, OneEntry
  <2>4. events' \in Seq(EventRecord)
    BY <1>1, <2>1, EventType
  <2> QED
    BY <2>1, <2>3, <2>4 DEF DailyTypeOK, PuzzleThere
<1>4. CASE LeaveDaily(c)
  BY <1>4 DEF LeaveDaily, DailyTypeOK, PuzzleThere
<1> QED
  BY <1>2, <1>3, <1>4

LEMMA AdminTypes ==
  ASSUME DailyTypeOK, PuzzleThere, NEW d \in Dates,
         \/ \E q \in Positions, reset \in BOOLEAN : \E b \in FoundIn[q] : Regenerate(d, q, b, reset)
         \/ \E u \in Players : DeleteScore(d, u) \/ ResetRevealed(d, u)
  PROVE  DailyTypeOK' /\ PuzzleThere'
<1> USE DailyAssumption
<1>1. ASSUME NEW q \in Positions, NEW reset \in BOOLEAN, NEW b \in FoundIn[q], Regenerate(d, q, b, reset)
      PROVE  DailyTypeOK' /\ PuzzleThere'
  <2>1. [position |-> q, best |-> b, bestOn |-> q] \in PuzzleRecord
    BY DEF PuzzleRecord
  <2>2. /\ puzzles' = [puzzles EXCEPT ![d] = [position |-> q, best |-> b, bestOn |-> q]]
        /\ UNCHANGED <<today, request, play>>
    BY <1>1 DEF Regenerate
  <2>3. puzzles' \in [Dates -> PuzzleRecord \cup {None}] /\ \A x \in Dates : puzzles[x] # None => puzzles'[x] # None
    BY <2>1, <2>2 DEF DailyTypeOK
  <2>4. entries' \in [Dates -> [Players -> EntryRecord]] /\ events' \in Seq(EventRecord)
    <3>1. CASE reset
      <4>1. entries' = [entries EXCEPT ![d] = [u \in Players |-> NoEntry]] /\ Happens("drop", None, d, 0)
        BY <1>1, <3>1 DEF Regenerate
      <4>2. NoEntry \in EntryRecord
        BY DEF NoEntry, EntryRecord
      <4> QED
        BY <4>1, <4>2, EventType DEF DailyTypeOK
    <3>2. CASE ~reset
      BY <1>1, <3>2 DEF Regenerate, DailyTypeOK
    <3> QED
      BY <3>1, <3>2
  <2>5. /\ \A j \in Requests : request[j] # None => request[j].date \in Dates
        /\ \A x \in Connections : play[x] # None => play[x].date \in Dates
    BY DEF DailyTypeOK, RequestRecord, PlayRecord
  <2> QED
    BY <2>2, <2>3, <2>4, <2>5 DEF DailyTypeOK, PuzzleThere
<1>2. ASSUME NEW u \in Players, DeleteScore(d, u) \/ ResetRevealed(d, u)
      PROVE  DailyTypeOK' /\ PuzzleThere'
  <2>0. entries[d][u] \in EntryRecord
    BY DEF DailyTypeOK
  <2>1. NoEntry \in EntryRecord /\ [entries[d][u] EXCEPT !.revealed = FALSE] \in EntryRecord
    BY <2>0 DEF NoEntry, EntryRecord
  <2>2. entries' \in [Dates -> [Players -> EntryRecord]]
    BY <1>2, <2>1, OneEntry DEF DeleteScore, ResetRevealed
  <2>3. events' \in Seq(EventRecord) /\ UNCHANGED <<today, puzzles, request, play>>
    BY <1>2, EventType DEF DeleteScore, ResetRevealed
  <2> QED
    BY <2>2, <2>3 DEF DailyTypeOK, PuzzleThere
<1> QED
  BY <1>1, <1>2

LEMMA DailyTypes == DailyTypeOK /\ PuzzleThere /\ [DailyNext]_dailyVars => DailyTypeOK' /\ PuzzleThere'
<1> SUFFICES ASSUME DailyTypeOK, PuzzleThere, [DailyNext]_dailyVars
             PROVE  DailyTypeOK' /\ PuzzleThere'
  OBVIOUS
<1>1. CASE NextDay
  BY <1>1, DailyAssumption DEF NextDay, DailyTypeOK, PuzzleThere, Dates
<1>2. CASE UNCHANGED dailyVars
  BY <1>2 DEF dailyVars, DailyTypeOK, PuzzleThere
<1> QED
  BY <1>1, <1>2, RequestSteps, SubmitType, OtherTypes, AdminTypes DEF DailyNext

-----------------------------------------------------------------------------
(* One puzzle a day, as long as no administrator replaces one in play.      *)

(* A request that will open a room has read the stored position; whoever    *)
(* has not tried has no points.                                             *)
PuzzleFits ==
  /\ \A k \in Requests : request[k] # None =>
       /\ request[k].at = "open" => request[k].made.position = puzzles[request[k].date].position
       /\ request[k].at = "save" => request[k].made.bestOn = request[k].made.position
  /\ \A d \in Dates, u \in Players : entries[d][u].attempts = 0 \/ puzzles[d] = None => entries[d][u].best = 0

DailyInv == DailyTypeOK /\ PuzzleThere /\ PuzzleFits /\ OnePuzzleADay

LEMMA DailyInvStarts == DailyInit => DailyInv
<1> SUFFICES ASSUME DailyInit
             PROVE  DailyInv
  OBVIOUS
<1>1. PuzzleFits /\ OnePuzzleADay
  BY DEF DailyInit, PuzzleFits, OnePuzzleADay, NoEntry
<1> QED
  BY <1>1, DailyStarts DEF DailyInv

LEMMA RequestsFit ==
  ASSUME DailyInv, NEW k \in Requests,
         \/ Look(k) \/ SavePuzzle(k) \/ OpenDaily(k) \/ \E c \in Connections : StartDaily(k, c)
  PROVE  PuzzleFits' /\ OnePuzzleADay'
<1> USE DailyAssumption
<1>0. /\ \A j \in Requests : request[j] # None => request[j].date \in Dates
      /\ \A x \in Connections : play[x] # None => play[x].date \in Dates
  BY DEF DailyInv, DailyTypeOK, RequestRecord, PlayRecord
<1>1. ASSUME NEW c \in Connections, StartDaily(k, c)
      PROVE  PuzzleFits' /\ OnePuzzleADay'
  BY <1>1 DEF StartDaily, DailyInv, DailyTypeOK, PuzzleFits, OnePuzzleADay
<1>2. CASE Look(k)
  <2>1. request[k] \in RequestRecord /\ UNCHANGED <<puzzles, entries, play>>
    BY <1>2 DEF Look, DailyInv, DailyTypeOK
  <2>2. \A j \in Requests \ {k} : request'[j] = request[j]
    BY <1>2 DEF Look, DailyInv, DailyTypeOK
  <2>3. request'[k] # None => /\ request'[k].at = "open" => request'[k].made.position = puzzles[request'[k].date].position
                              /\ request'[k].at = "save" => request'[k].made.bestOn = request'[k].made.position
    BY <1>2, <2>1 DEF Look, DailyInv, DailyTypeOK, RequestRecord
  <2> QED
    BY <2>1, <2>2, <2>3 DEF DailyInv, PuzzleFits, OnePuzzleADay
<1>3. CASE SavePuzzle(k)
  <2>1. request[k] \in RequestRecord /\ request[k].made \in PuzzleRecord /\ UNCHANGED <<entries, play>>
    BY <1>3 DEF SavePuzzle, DailyInv, DailyTypeOK, PuzzleThere, RequestRecord
  <2>2. /\ \A d \in Dates \ {request[k].date} : puzzles'[d] = puzzles[d]
        /\ \A d \in Dates : puzzles[d] # None => puzzles'[d] = puzzles[d]
        /\ puzzles[request[k].date] = None => puzzles'[request[k].date] = request[k].made
    BY <1>3, <2>1 DEF SavePuzzle, DailyInv, DailyTypeOK, RequestRecord
  <2>3. request'[k].at = "look" /\ \A j \in Requests \ {k} : request'[j] = request[j]
    BY <1>3, <2>1 DEF SavePuzzle, DailyInv, DailyTypeOK, RequestRecord
  <2>4. request[k].made.bestOn = request[k].made.position /\ request[k].made.best \in Nat
    BY <1>3, <2>1 DEF SavePuzzle, DailyInv, PuzzleFits, PuzzleRecord
  <2>5. PuzzleFits'
    BY <1>0, <2>1, <2>2, <2>3 DEF DailyInv, PuzzleThere, PuzzleFits
  <2>6. ASSUME NEW d \in Dates, puzzles'[d] # None
        PROVE  /\ puzzles'[d].bestOn = puzzles'[d].position
               /\ \A u \in Players : entries[d][u].best <= puzzles'[d].best
    <3>1. CASE puzzles[d] = None
      <4>1. puzzles'[d] = request[k].made /\ \A u \in Players : entries[d][u].best = 0
        BY <2>2, <2>6, <3>1 DEF DailyInv, PuzzleFits
      <4> QED
        BY <2>4, <4>1
    <3>2. CASE puzzles[d] # None
      BY <2>2, <3>2 DEF DailyInv, OnePuzzleADay
    <3> QED
      BY <3>1, <3>2
  <2> QED
    BY <1>0, <2>1, <2>2, <2>5, <2>6 DEF DailyInv, OnePuzzleADay
<1>4. CASE OpenDaily(k)
  <2>1. /\ request[k] \in RequestRecord /\ request[k].made.position = puzzles[request[k].date].position
        /\ puzzles[request[k].date] # None
        /\ request' = [request EXCEPT ![k] = None] /\ UNCHANGED <<puzzles, entries>>
    BY <1>4 DEF OpenDaily, DailyInv, DailyTypeOK, PuzzleThere, PuzzleFits
  <2>2. \A c \in Connections : \/ play'[c] = play[c]
                               \/ play'[c] = [date |-> request[k].date, position |-> request[k].made.position, over |-> FALSE]
    BY <1>4 DEF OpenDaily, DailyInv, DailyTypeOK
  <2>3. PuzzleFits'
    BY <2>1 DEF DailyInv, DailyTypeOK, PuzzleFits
  <2> QED
    BY <2>1, <2>2, <2>3 DEF DailyInv, OnePuzzleADay
<1> QED
  BY <1>1, <1>2, <1>3, <1>4

LEMMA SubmitFits ==
  ASSUME DailyInv, NEW c \in Connections, NEW score, Submit(c, score)
  PROVE  PuzzleFits' /\ OnePuzzleADay'
<1> DEFINE d == play[c].date
           u == PlayerOf[c]
           p == Raised(puzzles[d], score, play[c].position)
<1>1. /\ score \in Nat /\ play[c] \in PlayRecord /\ d \in Dates /\ puzzles[d] \in PuzzleRecord /\ p \in PuzzleRecord
      /\ puzzles[d] # None /\ p # None
      /\ u \in Players \cup {None} /\ (u # None => Recorded(entries[d][u], score) \in EntryRecord)
  <2>1. DailyTypeOK /\ PuzzleThere
    BY DEF DailyInv
  <2>2. /\ score \in Nat /\ play[c] \in PlayRecord /\ puzzles[d] \in PuzzleRecord /\ p \in PuzzleRecord
        /\ (u # None => Recorded(entries[d][u], score) \in EntryRecord)
    BY <2>1, SubmitType
  <2>3. play[c].date \in Dates
    BY <2>2 DEF PlayRecord
  <2> QED
    BY <2>2, <2>3, DailyAssumption
<1>2. /\ p.position = puzzles[d].position /\ p.bestOn = p.position
      /\ p.best >= score /\ p.best >= puzzles[d].best
  <2>1. play[c].position = puzzles[d].position /\ puzzles[d].bestOn = puzzles[d].position
    BY <1>1, DailyAssumption DEF DailyInv, OnePuzzleADay
  <2> QED
    BY <1>1, <2>1 DEF Raised, PuzzleRecord
<1>3. puzzles'[d] = p /\ \A x \in Dates \ {d} : puzzles'[x] = puzzles[x]
  BY <1>1 DEF Submit, DailyInv, DailyTypeOK
<1>4. ASSUME NEW x \in Dates, NEW v \in Players
      PROVE  \/ entries'[x][v] = entries[x][v]
             \/ x = d /\ entries'[x][v].attempts # 0 /\ entries'[x][v].best \in {score, entries[x][v].best}
  <2>1. CASE u = None
    BY <2>1 DEF Submit
  <2>2. CASE u # None
    <3> DEFINE e == Recorded(entries[d][u], score)
    <3>1. entries' = [entries EXCEPT ![d][u] = e]
      BY <2>2 DEF Submit
    <3>2. entries'[d][u] = e /\ \A a \in Dates, b \in Players : a # d \/ b # u => entries'[a][b] = entries[a][b]
      <4>1. DailyTypeOK /\ u \in Players /\ e \in EntryRecord
        BY <1>1, <2>2 DEF DailyInv
      <4> HIDE DEF d, u, e
      <4> QED
        BY <1>1, <3>1, <4>1 DEF DailyTypeOK
    <3>3. entries[d][u] \in EntryRecord
      BY <1>1, <2>2 DEF DailyInv, DailyTypeOK
    <3>4. e = entries[d][u] \/ (e.attempts # 0 /\ e.best \in {score, entries[d][u].best})
      <4>1. CASE entries[d][u].revealed
        BY <4>1 DEF Recorded
      <4>2. CASE ~entries[d][u].revealed
        <5>1. e.attempts = entries[d][u].attempts + 1 /\ e.best = IF score > entries[d][u].best THEN score ELSE entries[d][u].best
          BY <1>1, <3>3, <4>2, RecordedType
        <5>2. entries[d][u].attempts + 1 # 0
          BY <3>3 DEF EntryRecord
        <5> HIDE DEF e
        <5>3. e.attempts # 0
          BY <5>1, <5>2
        <5>4. e.best \in {score, entries[d][u].best}
          BY <5>1
        <5> QED
          BY <5>3, <5>4
      <4> QED
        BY <4>1, <4>2
    <3> QED
      BY <1>1, <2>2, <3>2, <3>4
  <2> QED
    BY <2>1, <2>2
<1>5. PuzzleFits'
  <2>1. puzzles[d] # None /\ p # None /\ UNCHANGED request
    BY <1>1 DEF Submit
  <2>2. \A j \in Requests : request[j] # None => request[j].date \in Dates
    BY DEF DailyInv, DailyTypeOK, RequestRecord
  <2>3. \A j \in Requests : request[j] # None /\ request[j].at = "open" =>
           request[j].made.position = puzzles'[request[j].date].position
    BY <1>2, <1>3, <2>2 DEF DailyInv, PuzzleFits
  <2>4. ASSUME NEW x \in Dates, NEW v \in Players, entries'[x][v].attempts = 0 \/ puzzles'[x] = None
        PROVE  entries'[x][v].best = 0
    <3>1. entries'[x][v] = entries[x][v] /\ (puzzles'[x] = None => puzzles[x] = None)
      BY <1>3, <1>4, <2>1, <2>4
    <3> QED
      BY <2>4, <3>1 DEF DailyInv, PuzzleFits
  <2> QED
    BY <2>1, <2>3, <2>4 DEF DailyInv, PuzzleFits
<1>6. ASSUME NEW x \in Dates, puzzles'[x] # None
      PROVE  /\ puzzles'[x].bestOn = puzzles'[x].position
             /\ \A v \in Players : entries'[x][v].best <= puzzles'[x].best
  <2>1. CASE x = d
    <3>1. \A v \in Players : entries[d][v].best <= puzzles[d].best /\ entries[d][v].best \in Nat
      <4>1. \A v \in Players : entries[d][v] \in EntryRecord
        BY <1>1 DEF DailyInv, DailyTypeOK
      <4> QED
        BY <1>1, <4>1 DEF DailyInv, OnePuzzleADay, EntryRecord
    <3>2. \A v \in Players : entries'[d][v].best \in {score, entries[d][v].best}
      BY <1>1, <1>4
    <3> QED
      <4>1. p.best \in Nat /\ puzzles[d].best \in Nat /\ score \in Nat
        BY <1>1 DEF PuzzleRecord
      <4>2. /\ p.best >= score /\ p.best >= puzzles[d].best /\ p.bestOn = p.position
            /\ puzzles'[x] = p /\ \A v \in Players : entries'[x][v] = entries'[d][v]
        BY <1>2, <1>3, <2>1
      <4> HIDE DEF p
      <4>3. \A v \in Players : entries'[d][v].best <= p.best
        BY <3>1, <3>2, <4>1, <4>2
      <4> QED
        BY <4>2, <4>3
  <2>2. CASE x # d
    <3>1. puzzles'[x] = puzzles[x] /\ \A v \in Players : entries'[x][v] = entries[x][v]
      BY <1>3, <1>4, <2>2
    <3> QED
      BY <1>6, <3>1 DEF DailyInv, OnePuzzleADay
  <2> QED
    BY <2>1, <2>2
<1>7. ASSUME NEW b \in Connections, play'[b] # None
      PROVE  puzzles'[play'[b].date] # None /\ play'[b].position = puzzles'[play'[b].date].position
  <2>1. play[b] # None /\ play'[b].date = play[b].date /\ play'[b].position = play[b].position /\ play[b].date \in Dates
    BY <1>1, <1>7 DEF Submit, DailyInv, DailyTypeOK, PlayRecord
  <2> QED
    BY <1>1, <1>2, <1>3, <2>1 DEF DailyInv, OnePuzzleADay
<1> QED
  BY <1>5, <1>6, <1>7 DEF OnePuzzleADay

(* A step of which the rankings only take an entry's best away. *)
LEMMA StillFits ==
  ASSUME DailyInv, UNCHANGED <<puzzles, request>>,
         \A d \in Dates, u \in Players :
           \/ entries'[d][u].best = entries[d][u].best /\ entries'[d][u].attempts = entries[d][u].attempts
           \/ entries'[d][u].best = 0,
         \A c \in Connections : play'[c] \in {play[c], None}
  PROVE  PuzzleFits' /\ OnePuzzleADay'
<1>1. PuzzleFits'
  BY DEF DailyInv, PuzzleFits
<1>2. \A d \in Dates : puzzles[d] # None =>
         /\ puzzles'[d].bestOn = puzzles'[d].position
         /\ \A u \in Players : entries'[d][u].best <= puzzles'[d].best
  <2>1. \A d \in Dates : puzzles[d] # None => puzzles[d].best \in Nat
    BY DEF DailyInv, DailyTypeOK, PuzzleRecord
  <2> QED
    BY <2>1 DEF DailyInv, OnePuzzleADay
<1>3. \A c \in Connections : play'[c] # None =>
         puzzles'[play'[c].date] # None /\ play'[c].position = puzzles'[play'[c].date].position
  BY DEF DailyInv, OnePuzzleADay
<1> QED
  BY <1>1, <1>2, <1>3 DEF OnePuzzleADay

LEMMA EntryStillFits ==
  ASSUME DailyInv, UNCHANGED <<puzzles, request, play>>, NEW d \in Dates, NEW u \in Players, NEW e,
         entries' = [entries EXCEPT ![d][u] = e],
         (e.best = entries[d][u].best /\ e.attempts = entries[d][u].attempts) \/ e.best = 0
  PROVE  PuzzleFits' /\ OnePuzzleADay'
<1>1. \A x \in Dates, v \in Players :
         \/ entries'[x][v].best = entries[x][v].best /\ entries'[x][v].attempts = entries[x][v].attempts
         \/ entries'[x][v].best = 0
  BY DEF DailyInv, DailyTypeOK
<1> QED
  BY <1>1, StillFits

LEMMA OthersFit ==
  ASSUME DailyInv, NEW c \in Connections, RetryDaily(c) \/ RevealDaily(c) \/ LeaveDaily(c)
  PROVE  PuzzleFits' /\ OnePuzzleADay'
<1>0. DailyTypeOK /\ \A x \in Dates, v \in Players : entries[x][v] \in EntryRecord
  BY DEF DailyInv, DailyTypeOK
<1>1. ASSUME RetryDaily(c)
      PROVE  PuzzleFits' /\ OnePuzzleADay'
  <2>1. play[c] \in PlayRecord /\ puzzles[play[c].date] # None /\ UNCHANGED <<puzzles, request, entries>>
    BY <1>1 DEF RetryDaily, DailyInv, DailyTypeOK, OnePuzzleADay
  <2>2. /\ play'[c].date = play[c].date /\ play'[c].position = puzzles[play[c].date].position
        /\ \A a \in Connections \ {c} : play'[a] = play[a]
    BY <1>1, <2>1 DEF RetryDaily, DailyInv, DailyTypeOK, PlayRecord
  <2> QED
    BY <2>1, <2>2 DEF DailyInv, PuzzleFits, OnePuzzleADay
<1>2. ASSUME RevealDaily(c)
      PROVE  PuzzleFits' /\ OnePuzzleADay'
  <2> DEFINE e == Revealed(entries[play[c].date][PlayerOf[c]])
  <2>1. /\ play[c].date \in Dates /\ PlayerOf[c] \in Players
        /\ entries' = [entries EXCEPT ![play[c].date][PlayerOf[c]] = e] /\ UNCHANGED <<today, puzzles, request, play>>
    BY <1>0, <1>2, RevealEffect
  <2>2. /\ e.best = entries[play[c].date][PlayerOf[c]].best
        /\ e.attempts = entries[play[c].date][PlayerOf[c]].attempts
    BY <1>0, <2>1, PointsStay
  <2> HIDE DEF e
  <2> QED
    BY <2>1, <2>2, EntryStillFits
<1>3. ASSUME LeaveDaily(c)
      PROVE  PuzzleFits' /\ OnePuzzleADay'
  <2>1. UNCHANGED <<puzzles, request, entries>> /\ play' = [play EXCEPT ![c] = None]
    BY <1>3 DEF LeaveDaily
  <2> QED
    BY <2>1, StillFits DEF DailyInv, DailyTypeOK
<1> QED
  BY <1>1, <1>2, <1>3

LEMMA ScoresFit ==
  ASSUME DailyInv, NEW d \in Dates, NEW u \in Players, DeleteScore(d, u) \/ ResetRevealed(d, u)
  PROVE  PuzzleFits' /\ OnePuzzleADay'
<1>0. DailyTypeOK /\ \A x \in Dates, v \in Players : entries[x][v] \in EntryRecord
  BY DEF DailyInv, DailyTypeOK
<1>1. CASE DeleteScore(d, u)
  BY <1>1, EntryStillFits DEF DeleteScore, NoEntry
<1>2. CASE ResetRevealed(d, u)
  <2> DEFINE e == Forgiven(entries[d][u])
  <2>1. entries' = [entries EXCEPT ![d][u] = e] /\ UNCHANGED <<puzzles, request, play>>
    BY <1>0, <1>2, ForgiveEffect
  <2>2. e.best = entries[d][u].best /\ e.attempts = entries[d][u].attempts
    BY <1>0, PointsStay
  <2> HIDE DEF e
  <2> QED
    BY <2>1, <2>2, EntryStillFits
<1> QED
  BY <1>1, <1>2

(* An administrator's new puzzle meets nobody who has read the old one. *)
LEMMA RegenerateFits ==
  ASSUME ~SwapInPlay, DailyInv, NEW d \in Dates, NEW q \in Positions, NEW b \in FoundIn[q], NEW reset \in BOOLEAN,
         Regenerate(d, q, b, reset)
  PROVE  PuzzleFits' /\ OnePuzzleADay'
<1> DEFINE p == [position |-> q, best |-> b, bestOn |-> q]
<1>1. ~InPlay(d) /\ puzzles' = [puzzles EXCEPT ![d] = p] /\ UNCHANGED <<request, play>>
  BY DEF Regenerate
<1>2. p \in PuzzleRecord /\ p # None /\ b \in Nat
  BY DailyAssumption DEF PuzzleRecord
<1>3. puzzles'[d] = p /\ \A x \in Dates \ {d} : puzzles'[x] = puzzles[x]
  BY <1>1 DEF DailyInv, DailyTypeOK
<1>4. /\ \A v \in Players : entries'[d][v].best = 0
      /\ \A x \in Dates \ {d}, v \in Players : entries'[x][v] = entries[x][v]
  <2>1. CASE reset
    BY <2>1 DEF Regenerate, DailyInv, DailyTypeOK, NoEntry
  <2>2. CASE ~reset
    BY <2>2 DEF Regenerate, DailyInv, PuzzleFits
  <2> QED
    BY <2>1, <2>2
<1>5. PuzzleFits'
  <2>1. \A k \in Requests : request[k] # None => request[k].date \in Dates \ {d}
    BY <1>1 DEF InPlay, DailyInv, DailyTypeOK, RequestRecord
  <2>2. \A x \in Dates : puzzles'[x] = None => puzzles[x] = None
    BY <1>2, <1>3
  <2>3. \A k \in Requests : request'[k] # None =>
           /\ request'[k].at = "open" => request'[k].made.position = puzzles'[request'[k].date].position
           /\ request'[k].at = "save" => request'[k].made.bestOn = request'[k].made.position
    BY <1>1, <1>3, <2>1 DEF DailyInv, PuzzleFits
  <2>4. \A x \in Dates, u \in Players : entries'[x][u].attempts = 0 \/ puzzles'[x] = None => entries'[x][u].best = 0
    BY <1>4, <2>2 DEF DailyInv, PuzzleFits
  <2> QED
    BY <2>3, <2>4 DEF PuzzleFits
<1>6. \A c \in Connections : play[c] # None => play[c].date \in Dates \ {d}
  BY <1>1 DEF InPlay, DailyInv, DailyTypeOK, PlayRecord
<1>7. \A x \in Dates : puzzles'[x] # None =>
         puzzles'[x].bestOn = puzzles'[x].position /\ \A u \in Players : entries'[x][u].best <= puzzles'[x].best
  BY <1>2, <1>3, <1>4 DEF DailyInv, OnePuzzleADay
<1> QED
  BY <1>1, <1>3, <1>5, <1>6, <1>7 DEF DailyInv, OnePuzzleADay

LEMMA DailyStep ==
  ASSUME ~SwapInPlay
  PROVE  DailyInv /\ [DailyNext]_dailyVars => DailyInv'
<1> SUFFICES ASSUME DailyInv, [DailyNext]_dailyVars
             PROVE  PuzzleFits' /\ OnePuzzleADay'
  BY DailyTypes DEF DailyInv
<1>1. CASE NextDay \/ UNCHANGED dailyVars
  BY <1>1 DEF NextDay, dailyVars, DailyInv, PuzzleFits, OnePuzzleADay
<1>2. CASE \E k \in Requests : Look(k) \/ SavePuzzle(k) \/ OpenDaily(k) \/ \E c \in Connections : StartDaily(k, c)
  BY <1>2, RequestsFit
<1>3. CASE \E c \in Connections : \E s \in UNION {ScoresIn[q] : q \in Positions} : Submit(c, s)
  BY <1>3, SubmitFits
<1>4. CASE \E d \in Dates : \E q \in Positions, reset \in BOOLEAN : \E b \in FoundIn[q] : Regenerate(d, q, b, reset)
  BY <1>4, RegenerateFits
<1> QED
  BY <1>1, <1>2, <1>3, <1>4, OthersFit, ScoresFit DEF DailyNext

(* However requests for a day without a puzzle overlap, and whenever it is  *)
(* made anew: all who play a day play the stored position, and no score is  *)
(* above the best there is (daily.rs), unless an administrator replaces a   *)
(* puzzle being played.                                                     *)
THEOREM OnePuzzleEveryDay ==
  ASSUME ~SwapInPlay
  PROVE  DailySpec => []OnePuzzleADay
<1>1. DailyInv => OnePuzzleADay
  BY DEF DailyInv
<1>2. DailyInv /\ [DailyNext]_dailyVars => DailyInv'
  BY DailyStep
<1> QED
  BY DailyInvStarts, <1>1, <1>2, PTL DEF DailySpec

-----------------------------------------------------------------------------
(* The ranking is that of the tries that count.                             *)

(* What was decided about u on d before event i; if there is anything, there *)
(* is a last one.                                                            *)
Before(i, u, d) == {j \in 1 .. i - 1 : About(j, u, d)}
HasLast(i, u, d) == Before(i, u, d) # {} => \E m \in Before(i, u, d) : \A j \in Before(i, u, d) : j <= m

(* An entry after the first n - 1 events. *)
Best(s, S) == s \in {0} \cup S /\ \A x \in S : x <= s
Points(u, d) == {events[i].score : i \in Counting(u, d)}
Ranked(e, u, d, n) ==
  /\ \A i \in 1 .. n : HasLast(i, u, d)
  /\ e.revealed = Shown(n, u, d)
  /\ IsFiniteSet(Counting(u, d)) /\ e.attempts = Cardinality(Counting(u, d))
  /\ Best(e.best, Points(u, d))

RankInv == \A d \in Dates, u \in Players : Ranked(entries[d][u], u, d, Len(events) + 1)

LEMMA LastIsMax ==
  ASSUME NEW i \in Nat, NEW u, NEW d, HasLast(i, u, d), Before(i, u, d) # {}
  PROVE  /\ Max(Before(i, u, d)) \in Before(i, u, d)
         /\ \A m \in Before(i, u, d) : (\A j \in Before(i, u, d) : j <= m) => Max(Before(i, u, d)) = m
<1>1. PICK m \in Before(i, u, d) : \A j \in Before(i, u, d) : j <= m
  BY DEF HasLast
<1>2. Before(i, u, d) \in SUBSET Nat
  BY DEF Before
<1> QED
  BY <1>1, <1>2, GreatestIsMax

(* What one more event changes. *)
LEMMA EventShows ==
  ASSUME events \in Seq(EventRecord), NEW ev \in EventRecord, events' = Append(events, ev),
         NEW n, n = Len(events) + 1, NEW u \in Players, NEW d \in Dates,
         \A i \in 1 .. n : HasLast(i, u, d)
  PROVE  /\ n \in Nat /\ Len(events') = n /\ events'[n] = ev /\ \A i \in 1 .. n - 1 : events'[i] = events[i]
         /\ \A i \in 1 .. n - 1 : About(i, u, d)' = About(i, u, d)
         /\ \A i \in 1 .. n : Shown(i, u, d)' = Shown(i, u, d)
         /\ Shown(n + 1, u, d)' = IF About(n, u, d)' THEN ev.kind = "reveal" ELSE Shown(n, u, d)
         /\ \A i \in 1 .. n + 1 : HasLast(i, u, d)'
<1>1. n \in Nat /\ Len(events') = n /\ events'[n] = ev /\ \A i \in 1 .. n - 1 : events'[i] = events[i]
  OBVIOUS
<1>2. \A i \in 1 .. n - 1 : About(i, u, d)' = About(i, u, d)
  BY <1>1 DEF About
<1>3. \A i \in 1 .. n : Before(i, u, d)' = Before(i, u, d)
  BY <1>1, <1>2 DEF Before
<1>4. ASSUME NEW i \in 1 .. n
      PROVE  Shown(i, u, d)' = Shown(i, u, d)
  <2>1. Before(i, u, d)' = Before(i, u, d)
    BY <1>3
  <2>2. CASE Before(i, u, d) = {}
    BY <2>1, <2>2 DEF Shown, Before
  <2>3. CASE Before(i, u, d) # {}
    <3>1. Max(Before(i, u, d)) \in Before(i, u, d)
      BY <1>1, <2>3, LastIsMax
    <3>2. Max(Before(i, u, d)) \in 1 .. n - 1
      BY <1>1, <3>1 DEF Before
    <3>3. events'[Max(Before(i, u, d))] = events[Max(Before(i, u, d))]
      BY <1>1, <3>2
    <3> QED
      BY <2>1, <3>3 DEF Shown, Before
  <2> QED
    BY <2>2, <2>3
<1>5. Before(n + 1, u, d)' = IF About(n, u, d)' THEN Before(n, u, d) \cup {n} ELSE Before(n, u, d)
  BY <1>1, <1>2 DEF Before
<1>6. \A j \in Before(n, u, d) : j <= n
  BY <1>1 DEF Before
<1>7. ASSUME NEW i \in 1 .. n + 1
      PROVE  HasLast(i, u, d)'
  <2>1. CASE i \in 1 .. n
    BY <1>3, <2>1 DEF HasLast
  <2>2. CASE i = n + 1 /\ About(n, u, d)'
    <3>1. n \in Before(n + 1, u, d)' /\ \A j \in Before(n + 1, u, d)' : j <= n
      BY <1>1, <1>5, <1>6, <2>2
    <3> QED
      BY <2>2, <3>1 DEF HasLast
  <2>3. CASE i = n + 1 /\ ~About(n, u, d)'
    <3>1. HasLast(n, u, d) /\ Before(n + 1, u, d)' = Before(n, u, d)
      BY <1>1, <1>5, <2>3
    <3> QED
      BY <2>3, <3>1 DEF HasLast
  <2> QED
    BY <1>1, <2>1, <2>2, <2>3
<1>8. Shown(n + 1, u, d)' = IF About(n, u, d)' THEN ev.kind = "reveal" ELSE Shown(n, u, d)
  <2>1. CASE About(n, u, d)'
    <3>1. n \in Before(n + 1, u, d)' /\ \A j \in Before(n + 1, u, d)' : j <= n
      BY <1>1, <1>5, <1>6, <2>1
    <3>2. Before(n + 1, u, d)' \in SUBSET Nat
      BY <1>1, <1>5 DEF Before
    <3>3. Max(Before(n + 1, u, d)') = n
      BY <3>1, <3>2, GreatestIsMax
    <3> QED
      BY <1>1, <2>1, <3>1, <3>3 DEF Shown, Before
  <2>2. CASE ~About(n, u, d)'
    <3>1. Before(n + 1, u, d)' = Before(n, u, d)
      BY <1>5, <2>2
    <3>2. CASE Before(n, u, d) = {}
      BY <2>2, <3>1, <3>2 DEF Shown, Before
    <3>3. CASE Before(n, u, d) # {}
      <4>0. Max(Before(n, u, d)) \in Before(n, u, d)
        BY <1>1, <3>3, LastIsMax
      <4>1. Max(Before(n, u, d)) \in 1 .. n - 1
        BY <1>1, <4>0 DEF Before
      <4>2. events'[Max(Before(n, u, d))] = events[Max(Before(n, u, d))]
        BY <1>1, <4>1
      <4> QED
        BY <2>2, <3>1, <3>3, <4>2 DEF Shown, Before
    <3> QED
      BY <3>2, <3>3
  <2> QED
    BY <2>1, <2>2
<1> QED
  BY <1>1, <1>2, <1>4, <1>7, <1>8

LEMMA EventCounts ==
  ASSUME events \in Seq(EventRecord), NEW ev \in EventRecord, events' = Append(events, ev),
         NEW n, n = Len(events) + 1, NEW u \in Players, NEW d \in Dates,
         \A i \in 1 .. n : HasLast(i, u, d)
  PROVE  /\ About(n, u, d)' = (ev.date = d /\ ev.who \in {u, None} /\ ev.kind # "submit")
         /\ Counting(u, d)' = IF About(n, u, d)' /\ ev.kind = "drop" THEN {}
                              ELSE IF ev.kind = "submit" /\ ev.who = u /\ ev.date = d /\ ~Shown(n, u, d)
                                   THEN Counting(u, d) \cup {n} ELSE Counting(u, d)
         /\ Counting(u, d) \subseteq 1 .. n - 1
<1>1. /\ n \in Nat /\ Len(events') = n /\ events'[n] = ev /\ \A i \in 1 .. n - 1 : events'[i] = events[i]
      /\ \A i \in 1 .. n - 1 : About(i, u, d)' = About(i, u, d)
      /\ \A i \in 1 .. n : Shown(i, u, d)' = Shown(i, u, d)
  BY EventShows
<1>2. About(n, u, d)' = (ev.date = d /\ ev.who \in {u, None} /\ ev.kind # "submit")
  BY <1>1 DEF About
<1>3. DOMAIN events = 1 .. n - 1 /\ DOMAIN events' = 1 .. n
  BY <1>1
<1> DEFINE Later(i, m) == \A j \in i + 1 .. m : About(j, u, d) => events[j].kind # "drop"
           LaterOn(i, m) == \A j \in i + 1 .. m : About(j, u, d)' => events'[j].kind # "drop"
<1>4. \A i : i \in Counting(u, d) <=>
         /\ i \in 1 .. n - 1 /\ events[i].kind = "submit" /\ events[i].who = u /\ events[i].date = d
         /\ ~Shown(i, u, d) /\ Later(i, n - 1)
  BY <1>1, <1>3 DEF Counting
<1>5. \A i : i \in Counting(u, d)' <=>
         /\ i \in 1 .. n /\ events'[i].kind = "submit" /\ events'[i].who = u /\ events'[i].date = d
         /\ ~Shown(i, u, d)' /\ LaterOn(i, n)
  BY <1>1, <1>3 DEF Counting
<1>6. \A i \in 1 .. n - 1 : LaterOn(i, n) <=> Later(i, n - 1) /\ (About(n, u, d)' => ev.kind # "drop")
  <2>1. ASSUME NEW i \in 1 .. n - 1
        PROVE  /\ i + 1 .. n = (i + 1 .. n - 1) \cup {n}
               /\ i + 1 .. n - 1 \subseteq 1 .. n - 1
    BY <1>1
  <2> QED
    BY <1>1, <2>1
<1>7. LaterOn(n, n)
  BY <1>1
<1> HIDE DEF Later, LaterOn
<1>8. \A i \in 1 .. n - 1 : i \in Counting(u, d)' <=> i \in Counting(u, d) /\ (About(n, u, d)' => ev.kind # "drop")
  BY <1>1, <1>4, <1>5, <1>6
<1>9. n \in Counting(u, d)' <=> ev.kind = "submit" /\ ev.who = u /\ ev.date = d /\ ~Shown(n, u, d)
  BY <1>1, <1>5, <1>7
<1>10. Counting(u, d) \subseteq 1 .. n - 1 /\ Counting(u, d)' \subseteq (1 .. n - 1) \cup {n}
  BY <1>1, <1>4, <1>5
<1>11. Counting(u, d)' = IF About(n, u, d)' /\ ev.kind = "drop" THEN {}
                         ELSE IF ev.kind = "submit" /\ ev.who = u /\ ev.date = d /\ ~Shown(n, u, d)
                              THEN Counting(u, d) \cup {n} ELSE Counting(u, d)
  <2>1. CASE About(n, u, d)' /\ ev.kind = "drop"
    BY <1>8, <1>9, <1>10, <2>1
  <2>2. CASE /\ ~(About(n, u, d)' /\ ev.kind = "drop")
             /\ ev.kind = "submit" /\ ev.who = u /\ ev.date = d /\ ~Shown(n, u, d)
    <3>1. n \in Counting(u, d)' /\ \A i \in 1 .. n - 1 : i \in Counting(u, d)' <=> i \in Counting(u, d)
      BY <1>8, <1>9, <2>2
    <3>2. Counting(u, d)' = Counting(u, d) \cup {n}
      BY <1>10, <3>1
    <3> QED
      BY <2>2, <3>2
  <2>3. CASE /\ ~(About(n, u, d)' /\ ev.kind = "drop")
             /\ ~(ev.kind = "submit" /\ ev.who = u /\ ev.date = d /\ ~Shown(n, u, d))
    <3>1. n \notin Counting(u, d)' /\ \A i \in 1 .. n - 1 : i \in Counting(u, d)' <=> i \in Counting(u, d)
      BY <1>8, <1>9, <2>3
    <3>2. Counting(u, d)' = Counting(u, d)
      BY <1>10, <3>1
    <3> QED
      BY <2>3, <3>2
  <2> QED
    BY <2>1, <2>2, <2>3
<1> QED
  BY <1>2, <1>10, <1>11

(* An entry that is not the one an event is about keeps its ranking. *)
LEMMA EventMissesEntry ==
  ASSUME events \in Seq(EventRecord), NEW ev \in EventRecord, events' = Append(events, ev),
         NEW n, n = Len(events) + 1, NEW u \in Players, NEW d \in Dates, NEW e, Ranked(e, u, d, n),
         ev.date # d \/ ev.who \notin {u, None} \/ (ev.kind = "submit" /\ (ev.who # u \/ Shown(n, u, d)))
  PROVE  Ranked(e, u, d, n + 1)'
<1>1. \A i \in 1 .. n : HasLast(i, u, d)
  BY DEF Ranked
<1>2. /\ ~About(n, u, d)' /\ Counting(u, d)' = Counting(u, d) /\ Counting(u, d) \subseteq 1 .. n - 1
  <2>1. /\ About(n, u, d)' = (ev.date = d /\ ev.who \in {u, None} /\ ev.kind # "submit")
        /\ Counting(u, d)' = IF About(n, u, d)' /\ ev.kind = "drop" THEN {}
                             ELSE IF ev.kind = "submit" /\ ev.who = u /\ ev.date = d /\ ~Shown(n, u, d)
                                  THEN Counting(u, d) \cup {n} ELSE Counting(u, d)
        /\ Counting(u, d) \subseteq 1 .. n - 1
    BY <1>1, EventCounts
  <2>2. ~About(n, u, d)' /\ ~(ev.kind = "submit" /\ ev.who = u /\ ev.date = d /\ ~Shown(n, u, d))
    BY <2>1
  <2> QED
    BY <2>1, <2>2
<1>3. /\ \A i \in 1 .. n - 1 : events'[i] = events[i]
      /\ Shown(n + 1, u, d)' = Shown(n, u, d)
      /\ \A i \in 1 .. n + 1 : HasLast(i, u, d)'
  BY <1>1, <1>2, EventShows
<1>4. Points(u, d)' = Points(u, d)
  BY <1>2, <1>3 DEF Points
<1> QED
  BY <1>2, <1>3, <1>4 DEF Ranked, Best

LEMMA TryCounts ==
  ASSUME events \in Seq(EventRecord), NEW ev \in EventRecord, events' = Append(events, ev),
         NEW n, n = Len(events) + 1, NEW u \in Players, NEW d \in Dates, NEW e \in EntryRecord, Ranked(e, u, d, n),
         ev.kind = "submit", ev.who = u, ev.date = d
  PROVE  Ranked(Recorded(e, ev.score), u, d, n + 1)'
<1>1. CASE Shown(n, u, d)
  <2>1. Recorded(e, ev.score) = e
    BY <1>1 DEF Recorded, Ranked
  <2> QED
    BY <1>1, <2>1, EventMissesEntry
<1>2. CASE ~Shown(n, u, d)
  <2>1. \A i \in 1 .. n : HasLast(i, u, d)
    BY DEF Ranked
  <2>2. /\ ~About(n, u, d)' /\ Counting(u, d)' = Counting(u, d) \cup {n} /\ Counting(u, d) \subseteq 1 .. n - 1
    BY <1>2, <2>1, EventCounts
  <2>3. /\ n \in Nat /\ events'[n] = ev /\ \A i \in 1 .. n - 1 : events'[i] = events[i]
        /\ Shown(n + 1, u, d)' = Shown(n, u, d)
        /\ \A i \in 1 .. n + 1 : HasLast(i, u, d)'
    BY <2>1, <2>2, EventShows
  <2>4. Points(u, d)' = Points(u, d) \cup {ev.score} /\ Points(u, d) \subseteq Nat /\ ev.score \in Nat
    <3>1. \A i \in 1 .. n - 1 : events[i].score \in Nat
      <4>1. \A i \in 1 .. n - 1 : events[i] \in EventRecord
        BY <2>3
      <4> QED
        BY <4>1 DEF EventRecord
    <3> QED
      BY <2>2, <2>3, <3>1 DEF Points, EventRecord
  <2>5. ~e.revealed /\ e.attempts = Cardinality(Counting(u, d)) /\ IsFiniteSet(Counting(u, d)) /\ Best(e.best, Points(u, d))
    BY <1>2 DEF Ranked
  <2>6. IsFiniteSet(Counting(u, d)') /\ Cardinality(Counting(u, d)') = e.attempts + 1
    <3>1. n \notin Counting(u, d)
      BY <2>2, <2>3
    <3>2. /\ IsFiniteSet(Counting(u, d) \cup {n})
          /\ Cardinality(Counting(u, d) \cup {n}) = Cardinality(Counting(u, d)) + 1
      BY <2>5, <3>1, FS_AddElement
    <3> QED
      BY <2>2, <2>5, <3>2
  <2>7. /\ Recorded(e, ev.score).revealed = e.revealed /\ Recorded(e, ev.score).attempts = e.attempts + 1
        /\ Recorded(e, ev.score).best = IF ev.score > e.best THEN ev.score ELSE e.best
    BY <2>4, <2>5, RecordedType
  <2>8. Best(Recorded(e, ev.score).best, Points(u, d)')
    <3>1. e.best \in Nat
      BY DEF EntryRecord
    <3> QED
      BY <2>4, <2>5, <2>7, <3>1 DEF Best
  <2>9. Recorded(e, ev.score).revealed = Shown(n + 1, u, d)'
    BY <2>3, <2>7 DEF Ranked
  <2> QED
    BY <2>3, <2>6, <2>7, <2>8, <2>9 DEF Ranked, Best
<1> QED
  BY <1>1, <1>2

(* A deletion starts an entry anew; what is shown or forgiven leaves its    *)
(* points.                                                                  *)
LEMMA DecisionCounts ==
  ASSUME events \in Seq(EventRecord), NEW ev \in EventRecord, events' = Append(events, ev),
         NEW n, n = Len(events) + 1, NEW u \in Players, NEW d \in Dates, NEW e \in EntryRecord, Ranked(e, u, d, n),
         ev.who \in {u, None}, ev.date = d
  PROVE  /\ ev.kind = "drop" => Ranked(NoEntry, u, d, n + 1)'
         /\ ev.kind = "reveal" => Ranked(Revealed(e), u, d, n + 1)'
         /\ ev.kind = "forgive" => Ranked(Forgiven(e), u, d, n + 1)'
<1>1. \A i \in 1 .. n : HasLast(i, u, d)
  BY DEF Ranked
<1> SUFFICES ASSUME ev.kind # "submit"
             PROVE  /\ ev.kind = "drop" => Ranked(NoEntry, u, d, n + 1)'
                    /\ ev.kind = "reveal" => Ranked(Revealed(e), u, d, n + 1)'
                    /\ ev.kind = "forgive" => Ranked(Forgiven(e), u, d, n + 1)'
  OBVIOUS
<1>2. /\ About(n, u, d)' /\ Counting(u, d) \subseteq 1 .. n - 1
      /\ Counting(u, d)' = IF ev.kind = "drop" THEN {} ELSE Counting(u, d)
  BY <1>1, EventCounts
<1>3. /\ \A i \in 1 .. n - 1 : events'[i] = events[i]
      /\ Shown(n + 1, u, d)' = (ev.kind = "reveal")
      /\ \A i \in 1 .. n + 1 : HasLast(i, u, d)'
  BY <1>1, <1>2, EventShows
<1>4. Points(u, d)' = IF ev.kind = "drop" THEN {} ELSE Points(u, d)
  BY <1>2, <1>3 DEF Points
<1>5. CASE ev.kind = "drop"
  BY <1>2, <1>3, <1>4, <1>5, FS_EmptySet DEF Ranked, Best, NoEntry
<1>6. CASE ev.kind # "drop"
  <2>1. /\ Revealed(e).revealed = TRUE /\ Revealed(e).best = e.best /\ Revealed(e).attempts = e.attempts
        /\ Forgiven(e).revealed = FALSE /\ Forgiven(e).best = e.best /\ Forgiven(e).attempts = e.attempts
    BY PointsStay
  <2> QED
    BY <1>2, <1>3, <1>4, <1>6, <2>1 DEF Ranked, Best
<1> QED
  BY <1>5, <1>6

LEMMA OneEntryRanked ==
  ASSUME DailyTypeOK, RankInv, NEW ev \in EventRecord, events' = Append(events, ev),
         NEW u \in Players, NEW d \in Dates, ev.who = u, ev.date = d, NEW n, n = Len(events) + 1,
         NEW e \in EntryRecord, entries' = [entries EXCEPT ![d][u] = e], Ranked(e, u, d, n + 1)'
  PROVE  RankInv'
<1>1. events \in Seq(EventRecord) /\ n \in Nat /\ Len(events') = n
  BY DEF DailyTypeOK
<1>2. entries'[d][u] = e /\ \A c \in Dates, v \in Players : c # d \/ v # u => entries'[c][v] = entries[c][v]
  BY DEF DailyTypeOK
<1>3. ASSUME NEW c \in Dates, NEW v \in Players, NEW x, x = entries'[c][v]
      PROVE  Ranked(x, v, c, n + 1)'
  <2>1. CASE c = d /\ v = u
    <3>1. x = e
      BY <1>2, <1>3, <2>1
    <3> QED
      BY <2>1, <3>1
  <2>2. CASE c # d \/ v # u
    <3>1. ev.date # c \/ ev.who \notin {v, None}
      BY <2>2, DailyAssumption
    <3>2. x = entries[c][v]
      BY <1>2, <1>3, <2>2
    <3>3. Ranked(x, v, c, n)
      BY <3>2 DEF RankInv
    <3>4. ev.date # c \/ ev.who \notin {v, None} \/ (ev.kind = "submit" /\ (ev.who # v \/ Shown(n, v, c)))
      BY <3>1
    <3> QED
      BY <1>1, <3>3, <3>4, EventMissesEntry
  <2> QED
    BY <2>1, <2>2
<1> QED
  BY <1>1, <1>3 DEF RankInv

(* A guest's try is nobody's. *)
LEMMA GuestUnranked ==
  ASSUME DailyTypeOK, RankInv, NEW ev \in EventRecord, events' = Append(events, ev),
         ev.kind = "submit", ev.who = None, UNCHANGED entries
  PROVE  RankInv'
<1>1. PICK n : n = Len(events) + 1
  OBVIOUS
<1>2. events \in Seq(EventRecord) /\ n \in Nat /\ Len(events') = n
  BY <1>1 DEF DailyTypeOK
<1>3. ASSUME NEW c \in Dates, NEW v \in Players, NEW x, x = entries'[c][v]
      PROVE  Ranked(x, v, c, n + 1)'
  <2>1. Ranked(x, v, c, n) /\ ev.who # v
    BY <1>1, <1>3, DailyAssumption DEF RankInv
  <2> QED
    BY <1>1, <1>2, <2>1, EventMissesEntry
<1> QED
  BY <1>2, <1>3 DEF RankInv

(* The reset of a date starts all its entries anew. *)
LEMMA ResetRanked ==
  ASSUME DailyTypeOK, RankInv, NEW ev \in EventRecord, events' = Append(events, ev), NEW d \in Dates,
         ev.kind = "drop", ev.who = None, ev.date = d, entries' = [entries EXCEPT ![d] = [u \in Players |-> NoEntry]]
  PROVE  RankInv'
<1>1. PICK n : n = Len(events) + 1
  OBVIOUS
<1>2. events \in Seq(EventRecord) /\ n \in Nat /\ Len(events') = n
  BY <1>1 DEF DailyTypeOK
<1>3. ASSUME NEW c \in Dates, NEW v \in Players, NEW x, x = entries'[c][v]
      PROVE  Ranked(x, v, c, n + 1)'
  <2>1. Ranked(entries[c][v], v, c, n) /\ entries[c][v] \in EntryRecord
    BY <1>1 DEF RankInv, DailyTypeOK
  <2>2. CASE c = d
    <3>1. x = NoEntry
      BY <1>3, <2>2 DEF DailyTypeOK
    <3>2. ev.who \in {v, None} /\ ev.date = c
      BY <2>2
    <3>3. PICK e \in EntryRecord : Ranked(e, v, c, n)
      BY <2>1
    <3> QED
      BY <1>1, <1>2, <3>1, <3>2, <3>3, DecisionCounts
  <2>3. CASE c # d
    <3>1. x = entries[c][v]
      BY <1>3, <2>3 DEF DailyTypeOK
    <3>2. Ranked(x, v, c, n)
      BY <2>1, <3>1
    <3>3. ev.date # c \/ ev.who \notin {v, None} \/ (ev.kind = "submit" /\ (ev.who # v \/ Shown(n, v, c)))
      BY <2>3
    <3> QED
      BY <1>1, <1>2, <3>2, <3>3, EventMissesEntry
  <2> QED
    BY <2>2, <2>3
<1> QED
  BY <1>2, <1>3 DEF RankInv

LEMMA HappensAppends ==
  ASSUME NEW kind, NEW u, NEW d, NEW score, Happens(kind, u, d, score)
  PROVE  events' = Append(events, [kind |-> kind, who |-> u, date |-> d, score |-> score])
BY DEF Happens

LEMMA SubmitRanked ==
  ASSUME DailyTypeOK, PuzzleThere, RankInv, NEW c \in Connections, NEW score, Submit(c, score)
  PROVE  RankInv'
<1>1. PICK u, d : u = PlayerOf[c] /\ d = play[c].date
  OBVIOUS
<1>2. score \in Nat /\ d \in Dates /\ u \in Players \cup {None}
  BY <1>1, SubmitType, DailyAssumption DEF PlayRecord
<1> DEFINE ev == [kind |-> "submit", who |-> u, date |-> d, score |-> score]
<1>3. events' = Append(events, ev)
  BY <1>1, HappensAppends DEF Submit
<1>4. ev \in EventRecord /\ ev.kind = "submit" /\ ev.who = u /\ ev.date = d /\ ev.score = score
  BY <1>2 DEF EventRecord
<1>5. /\ u = None => UNCHANGED entries
      /\ u # None => entries' = [entries EXCEPT ![d][u] = Recorded(entries[d][u], score)]
  BY <1>1 DEF Submit
<1> HIDE DEF ev
<1>6. CASE u = None
  BY <1>3, <1>4, <1>5, <1>6, GuestUnranked
<1>7. CASE u # None
  <2>1. PICK n : n = Len(events) + 1
    OBVIOUS
  <2>2. PICK old \in EntryRecord : old = entries[d][u]
    BY <1>2, <1>7 DEF DailyTypeOK
  <2>3. Ranked(old, u, d, n)
    BY <1>2, <1>7, <2>1, <2>2 DEF RankInv
  <2>4. Ranked(Recorded(old, score), u, d, n + 1)'
    BY <1>2, <1>3, <1>4, <1>7, <2>1, <2>3, TryCounts DEF DailyTypeOK
  <2>5. PICK e \in EntryRecord : e = Recorded(old, score)
    BY <1>2, RecordedType
  <2> QED
    BY <1>2, <1>3, <1>4, <1>5, <1>7, <2>1, <2>2, <2>4, <2>5, OneEntryRanked
<1> QED
  BY <1>6, <1>7

(* What is decided about one entry. *)
LEMMA DecisionRanked ==
  ASSUME DailyTypeOK, RankInv, NEW kind \in {"reveal", "drop", "forgive"}, NEW u \in Players, NEW d \in Dates,
         Happens(kind, u, d, 0), NEW e,
         e = IF kind = "drop" THEN NoEntry ELSE IF kind = "reveal" THEN Revealed(entries[d][u]) ELSE Forgiven(entries[d][u]),
         entries' = [entries EXCEPT ![d][u] = e]
  PROVE  RankInv'
<1> DEFINE ev == [kind |-> kind, who |-> u, date |-> d, score |-> 0]
<1>1. /\ events' = Append(events, ev)
      /\ ev \in EventRecord /\ ev.kind = kind /\ ev.who = u /\ ev.date = d
  BY HappensAppends DEF EventRecord
<1> HIDE DEF ev
<1>2. PICK n : n = Len(events) + 1
  OBVIOUS
<1>3. PICK old \in EntryRecord : old = entries[d][u]
  BY DEF DailyTypeOK
<1>4. Ranked(old, u, d, n)
  BY <1>2, <1>3 DEF RankInv
<1>5. e = IF kind = "drop" THEN NoEntry ELSE IF kind = "reveal" THEN Revealed(old) ELSE Forgiven(old)
  BY <1>3
<1>6. /\ ev.kind = "drop" => Ranked(NoEntry, u, d, n + 1)'
      /\ ev.kind = "reveal" => Ranked(Revealed(old), u, d, n + 1)'
      /\ ev.kind = "forgive" => Ranked(Forgiven(old), u, d, n + 1)'
  BY <1>1, <1>2, <1>4, DecisionCounts DEF DailyTypeOK
<1>7. Ranked(e, u, d, n + 1)'
  BY <1>1, <1>5, <1>6
<1>8. e \in EntryRecord
  <2>1. NoEntry \in EntryRecord
    BY DEF NoEntry, EntryRecord
  <2> QED
    BY <1>5, <2>1, PointsStay
<1> QED
  BY <1>1, <1>2, <1>7, <1>8, OneEntryRanked

LEMMA RankStarts == DailyInit => RankInv
<1> SUFFICES ASSUME DailyInit, NEW d \in Dates, NEW u \in Players
             PROVE  Ranked(NoEntry, u, d, 1)
  BY DEF DailyInit, RankInv
<1>1. Counting(u, d) = {} /\ Points(u, d) = {}
  BY DEF DailyInit, Counting, Points
<1>2. Before(1, u, d) = {}
  BY DEF Before
<1>3. ~Shown(1, u, d) /\ \A i \in 1 .. 1 : HasLast(i, u, d)
  BY <1>2 DEF Shown, HasLast, Before
<1>4. Best(0, Points(u, d))
  BY <1>1 DEF Best
<1>5. IsFiniteSet(Counting(u, d)) /\ Cardinality(Counting(u, d)) = 0
  BY <1>1, FS_EmptySet
<1>6. /\ NoEntry.revealed = Shown(1, u, d) /\ NoEntry.attempts = Cardinality(Counting(u, d))
      /\ Best(NoEntry.best, Points(u, d))
  BY <1>3, <1>4, <1>5 DEF NoEntry, Shown
<1> QED
  BY <1>3, <1>5, <1>6 DEF Ranked

LEMMA RankStep == DailyTypeOK /\ PuzzleThere /\ RankInv /\ [DailyNext]_dailyVars => RankInv'
<1> SUFFICES ASSUME DailyTypeOK, PuzzleThere, RankInv, [DailyNext]_dailyVars
             PROVE  RankInv'
  OBVIOUS
<1>1. CASE UNCHANGED <<entries, events>>
  <2>1. PICK n : n = Len(events) + 1
    OBVIOUS
  <2>2. ASSUME NEW c \in Dates, NEW v \in Players, NEW e, Ranked(e, v, c, n)
        PROVE  Ranked(e, v, c, n)'
    <3>1. \A i : Before(i, v, c)' = Before(i, v, c) /\ Shown(i, v, c)' = Shown(i, v, c)
      BY <1>1 DEF Before, Shown, About
    <3>2. Counting(v, c)' = Counting(v, c) /\ Points(v, c)' = Points(v, c)
      BY <1>1 DEF Counting, Points, Shown, About
    <3> QED
      BY <2>2, <3>1, <3>2 DEF Ranked, HasLast
  <2> QED
    BY <1>1, <2>1, <2>2 DEF RankInv
<1>2. ASSUME NEW k \in Requests, Look(k) \/ SavePuzzle(k) \/ OpenDaily(k) \/ \E c \in Connections : StartDaily(k, c)
      PROVE  RankInv'
  <2>1. UNCHANGED <<entries, events>>
    BY <1>2 DEF Look, SavePuzzle, OpenDaily, StartDaily
  <2> QED
    BY <1>1, <2>1
<1>3. ASSUME NEW c \in Connections, RetryDaily(c) \/ LeaveDaily(c)
      PROVE  RankInv'
  BY <1>1, <1>3 DEF RetryDaily, LeaveDaily
<1>4. ASSUME NEW c \in Connections, RevealDaily(c)
      PROVE  RankInv'
  BY <1>4, RevealEffect, DecisionRanked
<1>5. ASSUME NEW c \in Connections, NEW score, Submit(c, score)
      PROVE  RankInv'
  BY <1>5, SubmitRanked
<1>6. CASE NextDay \/ UNCHANGED dailyVars
  BY <1>1, <1>6 DEF NextDay, dailyVars
<1>7. ASSUME NEW d \in Dates, NEW q \in Positions, NEW reset \in BOOLEAN, NEW b \in FoundIn[q], Regenerate(d, q, b, reset)
      PROVE  RankInv'
  <2>1. CASE reset
    <3> DEFINE ev == [kind |-> "drop", who |-> None, date |-> d, score |-> 0]
    <3>1. events' = Append(events, ev) /\ entries' = [entries EXCEPT ![d] = [u \in Players |-> NoEntry]]
      BY <1>7, <2>1, HappensAppends DEF Regenerate
    <3>2. ev \in EventRecord /\ ev.kind = "drop" /\ ev.who = None /\ ev.date = d
      BY DEF EventRecord
    <3> HIDE DEF ev
    <3> QED
      BY <3>1, <3>2, ResetRanked
  <2>2. CASE ~reset
    BY <1>1, <1>7, <2>2 DEF Regenerate
  <2> QED
    BY <2>1, <2>2
<1>8. ASSUME NEW d \in Dates, NEW u \in Players, DeleteScore(d, u)
      PROVE  RankInv'
  BY <1>8, DecisionRanked DEF DeleteScore
<1>9. ASSUME NEW d \in Dates, NEW u \in Players, ResetRevealed(d, u)
      PROVE  RankInv'
  BY <1>9, ForgiveEffect, DecisionRanked
<1> QED
  BY <1>2, <1>3, <1>4, <1>5, <1>6, <1>7, <1>8, <1>9 DEF DailyNext

(* A row of the ranking is the count and the best of the tries of this user *)
(* on this day that came before the solution was shown to him and after the *)
(* last deletion of his row, on however many connections he plays and       *)
(* whatever an administrator takes back (db/daily.rs).                      *)
THEOREM RankingIsOfOwnTries == DailySpec => []RankedByOwnTries
<1> DEFINE Inv == DailyTypeOK /\ PuzzleThere /\ RankInv
<1>1. DailyInit => Inv
  BY DailyStarts, RankStarts
<1>2. Inv /\ [DailyNext]_dailyVars => Inv'
  BY DailyTypes, RankStep
<1>3. Inv => RankedByOwnTries
  <2> SUFFICES ASSUME Inv, NEW d \in Dates, NEW u \in Players
               PROVE  /\ entries[d][u].attempts = Cardinality(Counting(u, d))
                      /\ entries[d][u].best = Max({0} \cup {events[i].score : i \in Counting(u, d)})
    BY DEF RankedByOwnTries
  <2>1. Ranked(entries[d][u], u, d, Len(events) + 1)
    BY DEF RankInv
  <2>2. Points(u, d) \subseteq Nat /\ entries[d][u].best \in Nat
    <3>1. entries[d][u] \in EntryRecord /\ \A i \in DOMAIN events : events[i] \in EventRecord
      BY DEF DailyTypeOK
    <3> QED
      BY <3>1 DEF Points, Counting, EventRecord, EntryRecord
  <2>3. entries[d][u].best = Max({0} \cup Points(u, d))
    BY <2>1, <2>2, GreatestIsMax DEF Ranked, Best
  <2> QED
    BY <2>1, <2>3 DEF Ranked, Points
<1> QED
  BY <1>1, <1>2, <1>3, PTL DEF DailySpec

-----------------------------------------------------------------------------
(* The lists in memory and the answers cached, for any number of words,     *)
(* reviewers and requests at the same time - as long as no two handlers are *)
(* about the same word at once (with Overlap a vote counted before another  *)
(* may be carried over after it).                                           *)

(* What HuDictionary holds, and what a question brings back. *)
ListRecord == [listed: SUBSET Words, voted: SUBSET Words, allow: SUBSET Words, reject: SUBSET Words, added: SUBSET Words]
StoreRecord ==
  [next: {"store"}, about: SUBSET Words, answers: UNION {[ws -> BOOLEAN] : ws \in SUBSET Words},
   short: BOOLEAN, current: BOOLEAN]

WordsTypeOK ==
  /\ votes \in [Reviewers -> [Words -> {"good", "bad", None}]] /\ blocked \subseteq Reviewers
  /\ threshold \in Nat \ {0}
  /\ overrides \in [Words -> {"allow", "reject", None}] /\ additions \subseteq Words /\ listFile \subseteq Words
  /\ lists \in ListRecord
  /\ cache \in [Words -> BOOLEAN \cup {None}]
  /\ shortList \in [words: (SUBSET Words) \cup {None}, current: BOOLEAN]
  /\ work = [h \in Handlers |-> work[h]]

(* the steps of a handler *)
Counts == {"count", "mark", "voted", "setVoted"}
Refreshes == {"voted", "setVoted", "lists", "setLists"}
Writes == {"write", "reload"}

TaskFits(k) ==
  \/ k = Idle
  \/ k.next \in {"count", "mark"} /\ \E w \in Words : k.about = {w}
  \/ k.next \in Refreshes \cup {"reload"} /\ k.about = Words
  \/ k.next = "write" /\ k.about = Words /\ k.before \subseteq Words /\ k.after \subseteq Words
  \/ k \in StoreRecord /\ k.about # {} /\ (k.short => k.about = Words)

(* what a handler has read is still so *)
TaskIsRight(k) ==
  /\ k.next = "mark" => \A w \in k.about : k.out <=> VotedOut(w)
  /\ k.next = "setVoted" => k.read = {w \in Words : VotedOut(w)}
  /\ k.next = "setLists" => k.read = AdminLists
  /\ k.next = "store" => k.answers \in [k.about -> BOOLEAN] /\ \A w \in k.about : k.answers[w] = Accepts(lists, w)

Apart == \A h, k \in Handlers : h # k => work[h].about \cap work[k].about = {}
WorkIsRight == Apart /\ \A h \in Handlers : TaskFits(work[h]) /\ TaskIsRight(work[h])

(* A list is what the database or the file says, unless a handler is about  *)
(* to bring it up to date.                                                  *)
ListsAreRight ==
  /\ \A w \in Words : \/ \E h \in Handlers : w \in work[h].about /\ work[h].next \in Counts
                      \/ w \in lists.voted <=> VotedOut(w)
  /\ (\E h \in Handlers : work[h].next \in Writes) \/ lists.listed = listFile
  /\ \/ \E h \in Handlers : work[h].next \in Refreshes
     \/ lists.allow = AdminLists.allow /\ lists.reject = AdminLists.reject /\ lists.added = AdminLists.added

(* An answer is that of the lists, whether they are right or not. *)
AnswersAreRight ==
  /\ \A w \in Words : cache[w] = None \/ cache[w] = Accepts(lists, w)
  /\ shortList.current => shortList.words = {w \in Words : Accepts(lists, w)}

WordsInv == WordsTypeOK /\ WorkIsRight /\ ListsAreRight /\ AnswersAreRight

-----------------------------------------------------------------------------
(* What the answers and the votes depend on.                                *)

LEMMA AcceptsIsAnswer == \A l, w : Accepts(l, w) \in BOOLEAN
BY DEF Accepts

LEMMA AcceptsSame ==
  ASSUME NEW l, NEW k, NEW w,
         w \in l.listed \cup l.voted <=> w \in k.listed \cup k.voted,
         w \in l.allow <=> w \in k.allow, w \in l.reject <=> w \in k.reject, w \in l.added <=> w \in k.added
  PROVE  Accepts(l, w) = Accepts(k, w)
BY DEF Accepts

LEMMA VotesSame ==
  ASSUME NEW w, blocked' = blocked, threshold' = threshold, \A u \in Reviewers : votes'[u][w] = votes[u][w]
  PROVE  VotedOut(w)' <=> VotedOut(w)
<1>1. \A v : {u \in Reviewers \ blocked' : votes'[u][w] = v} = {u \in Reviewers \ blocked : votes[u][w] = v}
  OBVIOUS
<1>2. VotesFor(w, "bad")' = VotesFor(w, "bad") /\ VotesFor(w, "good")' = VotesFor(w, "good")
  BY <1>1 DEF VotesFor
<1> QED
  BY <1>2 DEF VotedOut

LEMMA AdminSame ==
  ASSUME overrides' = overrides, additions' = additions
  PROVE  AdminLists' = AdminLists
BY DEF AdminLists

(* A word without votes is not voted out. *)
LEMMA CountDecides ==
  ASSUME WordsTypeOK, NEW w \in Words
  PROVE  VotedOut(w) <=> VotesFor(w, "bad") - VotesFor(w, "good") >= threshold
<1>1. ASSUME \A u \in Reviewers \ blocked : votes[u][w] = None
      PROVE  VotesFor(w, "bad") = 0 /\ VotesFor(w, "good") = 0
  <2>1. \A v \in {"good", "bad"} : {u \in Reviewers \ blocked : votes[u][w] = v} = {}
    BY <1>1, WordsAssumption
  <2> QED
    BY <2>1, FS_EmptySet DEF VotesFor
<1>2. ASSUME \A u \in Reviewers \ blocked : votes[u][w] = None
      PROVE  ~(VotesFor(w, "bad") - VotesFor(w, "good") >= threshold)
  BY <1>1, <1>2 DEF WordsTypeOK
<1> QED
  BY <1>2 DEF VotedOut

-----------------------------------------------------------------------------
(* A step of a handler, that touches the words X and is alone with them.    *)

Alone(h, X) == \A k \in Handlers \ {h} : work[k].about \cap X = {}

(* other handlers' answers become out of date at most *)
GoesOn(h, task) ==
  /\ work' = [k \in Handlers |-> work'[k]] /\ work'[h] = task
  /\ \A k \in Handlers \ {h} :
       work'[k] = work[k] \/ (work[k].next = "store" /\ work'[k] = [work[k] EXCEPT !.current = FALSE])

OnlyThere(X) ==
  \A w \in Words \ X :
    /\ VotedOut(w)' <=> VotedOut(w)
    /\ Accepts(lists', w) = Accepts(lists, w)
    /\ w \in lists'.voted <=> w \in lists.voted

Followed(h, task, X) ==
  /\ \A w \in X : (task.next \in Counts /\ w \in task.about) \/ (w \in lists'.voted <=> VotedOut(w)')
  /\ \/ task.next \in Writes \/ lists'.listed = listFile'
     \/ lists'.listed = lists.listed /\ listFile' = listFile /\ work[h].next \notin Writes
  /\ \/ task.next \in Refreshes
     \/ lists'.allow = AdminLists'.allow /\ lists'.reject = AdminLists'.reject /\ lists'.added = AdminLists'.added
     \/ /\ lists'.allow = lists.allow /\ lists'.reject = lists.reject /\ lists'.added = lists.added
        /\ AdminLists' = AdminLists /\ work[h].next \notin Refreshes

LEMMA OthersStayRight ==
  ASSUME NEW t, TaskFits(t), TaskIsRight(t), NEW X \in SUBSET Words, X # {}, t.about \cap X = {}, OnlyThere(X)
  PROVE  TaskIsRight(t)'
<1>1. CASE t = Idle
  BY <1>1 DEF TaskIsRight, Idle
<1>2. CASE t.next \in {"count", "mark"} /\ \E w \in Words : t.about = {w}
  BY <1>2 DEF TaskIsRight, OnlyThere
<1>3. CASE t.about = Words
  BY <1>3
<1>4. CASE t \in StoreRecord
  BY <1>4 DEF TaskIsRight, OnlyThere, StoreRecord
<1> QED
  BY <1>1, <1>2, <1>3, <1>4 DEF TaskFits

LEMMA HandlerKeeps ==
  ASSUME WordsInv, NEW h \in Handlers, NEW task, NEW X \in SUBSET Words, X # {},
         work[h].about \cup task.about \subseteq X, Alone(h, X), GoesOn(h, task),
         TaskFits(task), TaskIsRight(task)', OnlyThere(X), Followed(h, task, X), WordsTypeOK', AnswersAreRight'
  PROVE  WordsInv'
<1>1. WordsTypeOK /\ Apart /\ ListsAreRight /\ \A k \in Handlers : TaskFits(work[k]) /\ TaskIsRight(work[k])
  BY DEF WordsInv, WorkIsRight
<1>2. ASSUME NEW k \in Handlers \ {h}
      PROVE  /\ work'[k].about = work[k].about /\ work'[k].next = work[k].next
             /\ TaskFits(work'[k]) /\ TaskIsRight(work[k])'
  <2>1. PICK t : t = work[k]
    OBVIOUS
  <2>2. PICK u : u = work'[k]
    OBVIOUS
  <2>3. TaskFits(t) /\ TaskIsRight(t) /\ t.about \cap X = {}
    BY <1>1, <1>2, <2>1 DEF Alone
  <2>4. TaskIsRight(t)'
    BY <2>3, OthersStayRight
  <2>5. u = t \/ (t.next = "store" /\ u = [t EXCEPT !.current = FALSE])
    BY <1>2, <2>1, <2>2 DEF GoesOn
  <2>6. CASE u = t
    BY <2>1, <2>2, <2>3, <2>4, <2>6
  <2>7. CASE t.next = "store" /\ u = [t EXCEPT !.current = FALSE]
    <3>1. t \in StoreRecord /\ t.about # {} /\ (t.short => t.about = Words)
      BY <2>3, <2>7 DEF TaskFits, Idle, Refreshes
    <3>2. u \in StoreRecord /\ u.next = t.next /\ u.about = t.about /\ u.short = t.short /\ u.answers = t.answers
      BY <2>7, <3>1 DEF StoreRecord
    <3>3. TaskFits(u)
      BY <3>1, <3>2 DEF TaskFits
    <3>4. TaskIsRight(u)'
      BY <2>4, <2>7, <3>2 DEF TaskIsRight
    <3> QED
      BY <2>1, <2>2, <3>2, <3>3, <3>4
  <2> QED
    BY <2>5, <2>6, <2>7
<1>3. work'[h] = task /\ work' = [k \in Handlers |-> work'[k]]
  BY DEF GoesOn
<1>4. Apart'
  <2>1. \A k, j \in Handlers \ {h} : k # j => work'[k].about \cap work'[j].about = {}
    BY <1>1, <1>2 DEF Apart
  <2>2. \A k \in Handlers \ {h} : work'[k].about \cap task.about = {}
    BY <1>2 DEF Alone
  <2> QED
    BY <1>3, <2>1, <2>2 DEF Apart
<1>5. \A k \in Handlers : TaskFits(work[k])' /\ TaskIsRight(work[k])'
  <2>1. TaskFits(work[h])' /\ TaskIsRight(work[h])'
    BY <1>3
  <2> QED
    BY <1>2, <2>1
<1>6. \A w \in Words : \/ \E k \in Handlers : w \in work'[k].about /\ work'[k].next \in Counts
                       \/ w \in lists'.voted <=> VotedOut(w)'
  <2> TAKE w \in Words
  <2>1. CASE w \in X
    BY <1>3, <2>1 DEF Followed
  <2>2. CASE w \notin X
    <3>1. w \notin work[h].about
      BY <2>2
    <3>2. \/ \E k \in Handlers \ {h} : w \in work[k].about /\ work[k].next \in Counts
          \/ w \in lists.voted <=> VotedOut(w)
      BY <1>1, <3>1 DEF ListsAreRight
    <3> QED
      BY <1>2, <2>2, <3>2 DEF OnlyThere
  <2> QED
    BY <2>1, <2>2
<1>7. (\E k \in Handlers : work'[k].next \in Writes) \/ lists'.listed = listFile'
  BY <1>1, <1>2, <1>3 DEF Followed, ListsAreRight
<1>8. \/ \E k \in Handlers : work'[k].next \in Refreshes
      \/ lists'.allow = AdminLists'.allow /\ lists'.reject = AdminLists'.reject /\ lists'.added = AdminLists'.added
  BY <1>1, <1>2, <1>3 DEF Followed, ListsAreRight
<1>9. ListsAreRight'
  BY <1>6, <1>7, <1>8 DEF ListsAreRight
<1> QED
  BY <1>4, <1>5, <1>9 DEF WordsInv, WorkIsRight

(* A handler in whose step nothing changes that another one looks at. *)
LEMMA NothingElse ==
  ASSUME UNCHANGED <<votes, blocked, threshold, lists>>
  PROVE  \A X \in SUBSET Words : OnlyThere(X)
<1>1. \A w \in Words : VotedOut(w)' <=> VotedOut(w)
  BY VotesSame
<1> QED
  BY <1>1 DEF OnlyThere

(* Somebody who is alone with all words finds every list as it should be. *)
LEMMA QuietIsRight ==
  ASSUME WordsInv, \A h \in Handlers : work[h] = Idle
  PROVE  /\ \A w \in Words : w \in lists.voted <=> VotedOut(w)
         /\ lists.listed = listFile
         /\ lists.allow = AdminLists.allow /\ lists.reject = AdminLists.reject /\ lists.added = AdminLists.added
<1>1. \A h \in Handlers : work[h].about = {} /\ work[h].next \notin Counts \cup Refreshes \cup Writes
  BY DEF Idle, Counts, Refreshes, Writes
<1> QED
  BY <1>1 DEF WordsInv, ListsAreRight

LEMMA AllIdle ==
  ASSUME WordsInv, ~Overlap, NEW h \in Handlers, MayBegin(h, Words)
  PROVE  \A k \in Handlers : work[k] = Idle
<1> SUFFICES ASSUME NEW k \in Handlers
             PROVE  work[k] = Idle
  OBVIOUS
<1>1. work[k].about \cap Words = {} /\ TaskFits(work[k])
  BY DEF MayBegin, WordsInv, WorkIsRight
<1>2. PICK t : t = work[k]
  OBVIOUS
<1>3. t.about \cap Words = {} /\ TaskFits(t)
  BY <1>1, <1>2
<1>4. t = Idle
  BY <1>3, WordsAssumption DEF TaskFits, StoreRecord
<1> QED
  BY <1>2, <1>4

(* A handler that has all the words has them alone. *)
LEMMA AloneWithAll ==
  ASSUME WordsInv, NEW h \in Handlers, work[h].about = Words \/ \A k \in Handlers : work[k] = Idle
  PROVE  Alone(h, Words)
BY DEF Alone, WordsInv, WorkIsRight, Apart, Idle

LEMMA AloneWith ==
  ASSUME WordsInv, ~Overlap, NEW h \in Handlers, NEW X, MayBegin(h, X) \/ work[h].about = X
  PROVE  Alone(h, X)
BY DEF Alone, WordsInv, WorkIsRight, Apart, MayBegin

(* The cache is cleared, or filled with what it would answer. *)
LEMMA FillingKeeps ==
  ASSUME WordsInv, UNCHANGED <<votes, blocked, threshold, overrides, additions, listFile, lists, work>>,
         WordsTypeOK', AnswersAreRight'
  PROVE  WordsInv'
<1>1. \A w \in Words : VotedOut(w)' <=> VotedOut(w)
  BY VotesSame
<1>2. AdminLists' = AdminLists
  BY AdminSame
<1>3. ASSUME NEW h \in Handlers
      PROVE  TaskFits(work[h])' /\ TaskIsRight(work[h])'
  <2>1. PICK t : t = work[h]
    OBVIOUS
  <2>2. TaskFits(t) /\ TaskIsRight(t) /\ t = work'[h]
    BY <2>1 DEF WordsInv, WorkIsRight
  <2>3. TaskIsRight(t)'
    <3>1. \A w : Accepts(lists, w)' = Accepts(lists, w)
      OBVIOUS
    <3>2. \A w \in t.about : t.next = "mark" => w \in Words
      BY <2>2 DEF TaskFits, Idle, Refreshes, StoreRecord
    <3>3. {w \in Words : VotedOut(w)'} = {w \in Words : VotedOut(w)}
      BY <1>1
    <3> QED
      BY <1>1, <1>2, <2>2, <3>1, <3>2, <3>3 DEF TaskIsRight
  <2> QED
    BY <2>2, <2>3
<1>4. WorkIsRight'
  BY <1>3 DEF WordsInv, WorkIsRight, Apart
<1>5. ListsAreRight'
  BY <1>1, <1>2 DEF WordsInv, ListsAreRight
<1> QED
  BY <1>4, <1>5 DEF WordsInv

-----------------------------------------------------------------------------
(* The steps.                                                               *)

LEMMA AnswersSame ==
  ASSUME WordsInv, UNCHANGED memory
  PROVE  AnswersAreRight'
<1>1. lists' = lists /\ cache' = cache /\ shortList' = shortList
  BY DEF memory
<1> QED
  BY <1>1 DEF WordsInv, AnswersAreRight

(* an administrator's change in the database *)
LEMMA ChangeKeeps ==
  ASSUME WordsInv, ~Overlap, NEW h \in Handlers, NEW next \in {"voted", "lists"}, Change(h, next), WordsTypeOK',
         next = "lists" => UNCHANGED <<votes, blocked, threshold>>
  PROVE  WordsInv'
<1> DEFINE task == [next |-> next, about |-> Words]
<1>1. /\ MayBegin(h, Words) /\ work' = [work EXCEPT ![h] = task]
      /\ UNCHANGED <<listFile, lists, cache, shortList>>
  BY DEF Change, Begins, ThenDoes, memory
<1>2. \A k \in Handlers : work[k] = Idle
  BY <1>1, AllIdle
<1>3. Alone(h, Words)
  BY <1>2, AloneWithAll
<1>4. work = [k \in Handlers |-> work[k]] /\ work[h].about = {}
  BY <1>2 DEF WordsInv, WordsTypeOK, Idle
<1>5. GoesOn(h, task)
  BY <1>1, <1>4 DEF GoesOn
<1>6. TaskFits(task)
  BY DEF TaskFits, Refreshes
<1>7. TaskIsRight(task)'
  BY DEF TaskIsRight
<1>8. OnlyThere(Words)
  BY DEF OnlyThere
<1>9. next = "lists" => \A w \in Words : w \in lists'.voted <=> VotedOut(w)'
  BY <1>1, <1>2, QuietIsRight, VotesSame
<1>10. Followed(h, task, Words)
  BY <1>1, <1>2, <1>9, QuietIsRight DEF Followed, Counts, Refreshes
<1>11. AnswersAreRight'
  BY <1>1, AnswersSame DEF memory
<1>12. work[h].about \cup task.about \subseteq Words /\ Words \in SUBSET Words /\ Words # {}
  BY <1>4, WordsAssumption
<1> HIDE DEF task
<1> QED
  BY <1>3, <1>5, <1>6, <1>7, <1>8, <1>10, <1>11, <1>12, HandlerKeeps

LEMMA AdminKeeps ==
  ASSUME WordsInv, ~Overlap, NEW h \in Handlers,
         \/ \E t \in Thresholds : SetThreshold(h, t)
         \/ \E u \in Reviewers : SetReviewBlocked(h, u) \/ \E ws : RevertReviews(h, u, ws)
         \/ \E w \in Words : DeleteVotes(h, w)
         \/ \E w \in Overridden : RemoveOverride(h, w) \/ \E v \in {"allow", "reject"} : SetOverride(h, w, v)
         \/ \E w \in Added : AddAddition(h, w) \/ RemoveAddition(h, w)
  PROVE  WordsInv'
<1> USE WordsAssumption
<1> DEFINE Kept(next) == Change(h, next) /\ UNCHANGED <<listFile, lists, cache, shortList>> /\ work' = [k \in Handlers |-> work'[k]]
<1>1. WordsTypeOK
  BY DEF WordsInv
<1>2. \A next : Change(h, next) => Kept(next)
  BY <1>1 DEF Change, Begins, ThenDoes, memory, WordsTypeOK
<1> HIDE DEF Kept
<1>3. ASSUME NEW t \in Thresholds, SetThreshold(h, t)
      PROVE  WordsInv'
  <2>1. Kept("voted") /\ threshold' = t /\ UNCHANGED <<votes, blocked, overrides, additions>>
    BY <1>2, <1>3 DEF SetThreshold
  <2>2. WordsTypeOK'
    BY <1>1, <2>1 DEF WordsTypeOK, Kept
  <2> QED
    BY <2>1, <2>2, ChangeKeeps DEF Kept
<1>4. ASSUME NEW u \in Reviewers, SetReviewBlocked(h, u)
      PROVE  WordsInv'
  <2>1. Kept("voted") /\ blocked' \in {blocked \ {u}, blocked \cup {u}} /\ UNCHANGED <<votes, threshold, overrides, additions>>
    BY <1>2, <1>4 DEF SetReviewBlocked
  <2>2. WordsTypeOK'
    BY <1>1, <2>1 DEF WordsTypeOK, Kept
  <2> QED
    BY <2>1, <2>2, ChangeKeeps DEF Kept
<1>5. ASSUME NEW u \in Reviewers, NEW ws, RevertReviews(h, u, ws)
      PROVE  WordsInv'
  <2>1. /\ Kept("voted") /\ UNCHANGED <<blocked, threshold, overrides, additions>>
        /\ votes' = [votes EXCEPT ![u] = [w \in Words |-> IF w \in ws THEN None ELSE votes[u][w]]]
    BY <1>2, <1>5 DEF RevertReviews
  <2>2. votes' \in [Reviewers -> [Words -> {"good", "bad", None}]]
    BY <1>1, <2>1 DEF WordsTypeOK
  <2>3. WordsTypeOK'
    BY <1>1, <2>1, <2>2 DEF WordsTypeOK, Kept
  <2> QED
    BY <2>1, <2>3, ChangeKeeps DEF Kept
<1>6. ASSUME NEW w \in Words, DeleteVotes(h, w)
      PROVE  WordsInv'
  <2>1. /\ Kept("voted") /\ UNCHANGED <<blocked, threshold, overrides, additions>>
        /\ votes' = [u \in Reviewers |-> [votes[u] EXCEPT ![w] = None]]
    BY <1>2, <1>6 DEF DeleteVotes
  <2>2. votes' \in [Reviewers -> [Words -> {"good", "bad", None}]]
    BY <1>1, <2>1 DEF WordsTypeOK
  <2>3. WordsTypeOK'
    BY <1>1, <2>1, <2>2 DEF WordsTypeOK, Kept
  <2> QED
    BY <2>1, <2>3, ChangeKeeps DEF Kept
<1>7. ASSUME NEW w \in Overridden, RemoveOverride(h, w) \/ \E v \in {"allow", "reject"} : SetOverride(h, w, v)
      PROVE  WordsInv'
  <2>1. /\ Kept("lists") /\ UNCHANGED <<votes, blocked, threshold, additions>>
        /\ \E v \in {"allow", "reject", None} : overrides' = [overrides EXCEPT ![w] = v]
    BY <1>2, <1>7 DEF RemoveOverride, SetOverride
  <2>2. WordsTypeOK'
    BY <1>1, <2>1 DEF WordsTypeOK, Kept
  <2> QED
    BY <2>1, <2>2, ChangeKeeps DEF Kept
<1>8. ASSUME NEW w \in Added, AddAddition(h, w) \/ RemoveAddition(h, w)
      PROVE  WordsInv'
  <2>1. /\ Kept("lists") /\ UNCHANGED <<votes, blocked, threshold, overrides>>
        /\ additions' \in {additions \cup {w}, additions \ {w}}
    BY <1>2, <1>8 DEF AddAddition, RemoveAddition
  <2>2. WordsTypeOK'
    BY <1>1, <2>1 DEF WordsTypeOK, Kept
  <2> QED
    BY <2>1, <2>2, ChangeKeeps DEF Kept
<1> QED
  BY <1>3, <1>4, <1>5, <1>6, <1>7, <1>8

(* a vote, or one taken back: the word is counted next *)
LEMMA VotedKeeps ==
  ASSUME WordsInv, ~Overlap, NEW h \in Handlers, NEW w \in Words, MayBegin(h, {w}),
         work' = [work EXCEPT ![h] = [next |-> "count", about |-> {w}]],
         \A u \in Reviewers, x \in Words \ {w} : votes'[u][x] = votes[u][x],
         UNCHANGED <<blocked, threshold, overrides, additions, listFile, lists>>, WordsTypeOK', AnswersAreRight'
  PROVE  WordsInv'
<1> DEFINE task == [next |-> "count", about |-> {w}]
           X == {w}
<1>1. Alone(h, X)
  BY AloneWith
<1>2. work = [k \in Handlers |-> work[k]] /\ work[h] = Idle
  BY DEF WordsInv, WordsTypeOK, MayBegin
<1>3. GoesOn(h, task)
  BY <1>2 DEF GoesOn
<1>4. TaskFits(task)
  BY DEF TaskFits
<1>5. TaskIsRight(task)'
  BY DEF TaskIsRight
<1>6. \A x \in Words \ X : VotedOut(x)' <=> VotedOut(x)
  BY VotesSame
<1>7. OnlyThere(X)
  BY <1>6 DEF OnlyThere
<1>8. AdminLists' = AdminLists
  BY AdminSame
<1>9. Followed(h, task, X)
  BY <1>2, <1>8 DEF Followed, Counts, Refreshes, Writes, Idle
<1>10. work[h].about \cup task.about \subseteq X /\ X \in SUBSET Words /\ X # {}
  BY <1>2 DEF Idle
<1> HIDE DEF task, X
<1> QED
  BY <1>1, <1>3, <1>4, <1>5, <1>7, <1>9, <1>10, HandlerKeeps

LEMMA VoteKeeps ==
  ASSUME WordsInv, ~Overlap, NEW h \in Handlers, NEW u \in Reviewers, NEW w \in Words,
         Undo(h, u, w) \/ \E v \in {"good", "bad"} : Vote(h, u, w, v)
  PROVE  WordsInv'
<1>1. WordsTypeOK /\ AnswersAreRight
  BY DEF WordsInv
<1>2. ASSUME NEW v \in {"good", "bad", None}, votes' = [votes EXCEPT ![u][w] = v]
      PROVE  /\ votes' \in [Reviewers -> [Words -> {"good", "bad", None}]]
             /\ \A z \in Reviewers, x \in Words \ {w} : votes'[z][x] = votes[z][x]
  <2>1. votes \in [Reviewers -> [Words -> {"good", "bad", None}]]
    BY <1>1 DEF WordsTypeOK
  <2>2. votes' = [votes EXCEPT ![u] = [votes[u] EXCEPT ![w] = v]]
    BY <1>2
  <2> QED
    BY <2>1, <2>2
<1>3. CASE Undo(h, u, w)
  <2>1. /\ MayBegin(h, {w}) /\ work' = [work EXCEPT ![h] = [next |-> "count", about |-> {w}]]
        /\ votes' = [votes EXCEPT ![u][w] = None]
        /\ UNCHANGED <<blocked, threshold, overrides, additions, listFile, lists, cache, shortList>>
    BY <1>3 DEF Undo, Begins, ThenDoes, memory
  <2>2. WordsTypeOK'
    BY <1>1, <1>2, <2>1 DEF WordsTypeOK
  <2>3. AnswersAreRight'
    BY <2>1, AnswersSame DEF memory
  <2> QED
    BY <1>2, <2>1, <2>2, <2>3, VotedKeeps
<1>4. ASSUME NEW v \in {"good", "bad"}, Vote(h, u, w, v)
      PROVE  WordsInv'
  <2>1. Valid(w) = Accepts(lists, w) /\ Valid(w) \in BOOLEAN
    BY <1>1, AcceptsIsAnswer, WordsAssumption, Zenon DEF Valid, AnswersAreRight
  <2> DEFINE a == Valid(w)
  <2>2. /\ MayBegin(h, {w}) /\ cache' = [cache EXCEPT ![w] = a]
        /\ UNCHANGED <<blocked, threshold, overrides, additions, listFile, lists, shortList>>
    BY <1>4 DEF Vote
  <2>3. \/ /\ votes' = [votes EXCEPT ![u][w] = v]
           /\ work' = [work EXCEPT ![h] = [next |-> "count", about |-> {w}]]
        \/ UNCHANGED <<votes, work>>
    BY <1>4 DEF Vote, Begins, ThenDoes
  <2>4. a \in BOOLEAN /\ a = Accepts(lists, w)
    BY <2>1
  <2> HIDE DEF a
  <2>5. cache' \in [Words -> BOOLEAN \cup {None}]
    BY <1>1, <2>2, <2>4 DEF WordsTypeOK
  <2>6. \A x \in Words : cache'[x] = IF x = w THEN a ELSE cache[x]
    BY <1>1, <2>2 DEF WordsTypeOK
  <2>7. AnswersAreRight'
    BY <1>1, <2>2, <2>4, <2>6 DEF AnswersAreRight
  <2>8. CASE UNCHANGED <<votes, work>>
    <3>1. WordsTypeOK'
      BY <1>1, <2>2, <2>5, <2>8 DEF WordsTypeOK
    <3> QED
      BY <2>2, <2>7, <2>8, <3>1, FillingKeeps
  <2>9. CASE /\ votes' = [votes EXCEPT ![u][w] = v]
             /\ work' = [work EXCEPT ![h] = [next |-> "count", about |-> {w}]]
    <3>1. WordsTypeOK'
      BY <1>1, <1>2, <2>2, <2>5, <2>9 DEF WordsTypeOK
    <3> QED
      BY <1>2, <2>2, <2>7, <2>9, <3>1, VotedKeeps
  <2> QED
    BY <2>3, <2>8, <2>9
<1> QED
  BY <1>3, <1>4

(* The words a handler has alone, and is not about to count, are right. *)
LEMMA HeldIsRight ==
  ASSUME WordsInv, NEW h \in Handlers, NEW X \in SUBSET Words, Alone(h, X), work[h].next \notin Counts
  PROVE  \A w \in X : w \in lists.voted <=> VotedOut(w)
<1> SUFFICES ASSUME NEW w \in X
             PROVE  w \in lists.voted <=> VotedOut(w)
  OBVIOUS
<1>1. \A k \in Handlers : w \in work[k].about /\ work[k].next \in Counts => FALSE
  BY DEF Alone
<1> QED
  BY <1>1 DEF WordsInv, ListsAreRight

(* a step that changes neither the database nor a list *)
LEMMA WorkingKeeps ==
  ASSUME WordsInv, NEW h \in Handlers, NEW task, NEW X \in SUBSET Words, X # {},
         work[h].about \cup task.about \subseteq X, Alone(h, X), work' = [work EXCEPT ![h] = task],
         TaskFits(task), TaskIsRight(task)',
         (task.next \in Counts /\ task.about = X) \/ work[h].next \notin Counts,
         task.next \in Refreshes \/ work[h].next \notin Refreshes,
         task.next \in Writes \/ work[h].next \notin Writes,
         UNCHANGED <<votes, blocked, threshold, overrides, additions, listFile, lists>>,
         WordsTypeOK', AnswersAreRight'
  PROVE  WordsInv'
<1>1. work = [k \in Handlers |-> work[k]]
  BY DEF WordsInv, WordsTypeOK
<1>2. GoesOn(h, task)
  BY <1>1 DEF GoesOn
<1>3. OnlyThere(X)
  BY NothingElse
<1>4. AdminLists' = AdminLists
  BY AdminSame
<1>5. \A w \in Words : VotedOut(w)' <=> VotedOut(w)
  BY VotesSame
<1>6. work[h].next \notin Counts => \A w \in X : w \in lists.voted <=> VotedOut(w)
  BY HeldIsRight
<1>7. Followed(h, task, X)
  BY <1>4, <1>5, <1>6 DEF Followed
<1> QED
  BY <1>2, <1>3, <1>7, HandlerKeeps

(* a list changes; what others have looked up is out of date *)
LEMMA OutdatedGoesOn ==
  ASSUME WordsInv, NEW h \in Handlers, NEW task, work' = [Outdated(work) EXCEPT ![h] = task]
  PROVE  GoesOn(h, task)
<1> DEFINE Old(k) == IF work[k].next = "store" THEN [work[k] EXCEPT !.current = FALSE] ELSE work[k]
<1>1. Outdated(work) = [k \in Handlers |-> Old(k)]
  BY DEF Outdated
<1>2. \A k \in Handlers : Old(k) = work[k] \/ (work[k].next = "store" /\ Old(k) = [work[k] EXCEPT !.current = FALSE])
  OBVIOUS
<1> HIDE DEF Old
<1>3. work' = [k \in Handlers |-> work'[k]] /\ work'[h] = task /\ \A k \in Handlers \ {h} : work'[k] = Old(k)
  BY <1>1
<1> QED
  BY <1>2, <1>3 DEF GoesOn

LEMMA RelistAnswers ==
  ASSUME WordsInv, NEW l, NEW dropped, Relist(l, dropped), \A w \in Words \ dropped : Accepts(l, w) = Accepts(lists, w)
  PROVE  /\ AnswersAreRight'
         /\ cache' \in [Words -> BOOLEAN \cup {None}]
         /\ shortList' \in [words: (SUBSET Words) \cup {None}, current: BOOLEAN]
<1>1. /\ lists' = l /\ shortList' = [shortList EXCEPT !.current = FALSE]
      /\ cache' = [w \in Words |-> IF w \in dropped THEN None ELSE cache[w]]
  BY DEF Relist
<1>2. WordsTypeOK /\ AnswersAreRight
  BY DEF WordsInv
<1>3. shortList' \in [words: (SUBSET Words) \cup {None}, current: BOOLEAN] /\ ~shortList'.current
  BY <1>1, <1>2 DEF WordsTypeOK
<1>4. cache' \in [Words -> BOOLEAN \cup {None}]
  BY <1>1, <1>2 DEF WordsTypeOK
<1>5. \A w \in Words : cache'[w] = None \/ cache'[w] = Accepts(lists', w)
  BY <1>1, <1>2 DEF AnswersAreRight
<1>6. AnswersAreRight'
  BY <1>3, <1>5 DEF AnswersAreRight
<1> QED
  BY <1>3, <1>4, <1>6

(* a handler with all the words replaces lists *)
LEMMA RelistKeeps ==
  ASSUME WordsInv, NEW h \in Handlers, NEW task, NEW l \in ListRecord, Relist(l, Words), work[h].about = Words,
         work' = [Outdated(work) EXCEPT ![h] = task], task = Idle \/ task = [next |-> "lists", about |-> Words],
         UNCHANGED <<votes, blocked, threshold, overrides, additions, listFile>>, Followed(h, task, Words)
  PROVE  WordsInv'
<1>1. Words \in SUBSET Words /\ Words # {} /\ task.about \subseteq Words
  BY WordsAssumption DEF Idle
<1>2. Alone(h, Words)
  BY AloneWithAll
<1>3. GoesOn(h, task)
  BY OutdatedGoesOn
<1>4. TaskFits(task)
  BY DEF TaskFits, Refreshes
<1>5. TaskIsRight(task)'
  BY DEF TaskIsRight, Idle
<1>6. OnlyThere(Words)
  BY DEF OnlyThere
<1>7. \A w \in Words \ Words : Accepts(l, w) = Accepts(lists, w)
  OBVIOUS
<1>8. /\ AnswersAreRight' /\ cache' \in [Words -> BOOLEAN \cup {None}]
      /\ shortList' \in [words: (SUBSET Words) \cup {None}, current: BOOLEAN]
  BY <1>7, RelistAnswers
<1>9. WordsTypeOK'
  BY <1>3, <1>8 DEF WordsInv, WordsTypeOK, Relist, GoesOn
<1> QED
  BY <1>1, <1>2, <1>3, <1>4, <1>5, <1>6, <1>8, <1>9, HandlerKeeps

LEMMA CountVotesKeeps ==
  ASSUME WordsInv, NEW h \in Handlers, CountVotes(h)
  PROVE  WordsInv'
<1>1. WordsTypeOK /\ TaskFits(work[h]) /\ AnswersAreRight
  BY DEF WordsInv, WorkIsRight
<1>2. PICK w \in work[h].about, out \in BOOLEAN :
        /\ out <=> VotesFor(w, "bad") - VotesFor(w, "good") >= threshold
        /\ work' = [work EXCEPT ![h] = [next |-> "mark", about |-> {w}, out |-> out]]
  <2>1. PICK w \in work[h].about :
          work' = [work EXCEPT ![h] = [next |-> "mark", about |-> {w},
                                       out |-> VotesFor(w, "bad") - VotesFor(w, "good") >= threshold]]
    BY DEF CountVotes, ThenDoes
  <2>2. PICK out : out = (VotesFor(w, "bad") - VotesFor(w, "good") >= threshold)
    OBVIOUS
  <2>3. out \in BOOLEAN
    BY <2>2
  <2>4. out <=> VotesFor(w, "bad") - VotesFor(w, "good") >= threshold
    BY <2>2
  <2>5. work' = [work EXCEPT ![h] = [next |-> "mark", about |-> {w}, out |-> out]]
    BY <2>1, <2>2, Zenon
  <2> QED
    BY <2>3, <2>4, <2>5
<1> DEFINE task == [next |-> "mark", about |-> {w}, out |-> out]
           X == {w}
<1>3. work[h].next = "count" /\ UNCHANGED <<votes, blocked, threshold, overrides, additions, listFile, lists, cache, shortList>>
  BY DEF CountVotes, database, memory
<1>4. PICK t : t = work[h]
  OBVIOUS
<1>5. TaskFits(t) /\ t.next = "count" /\ w \in t.about
  BY <1>1, <1>2, <1>3, <1>4
<1>6. t.about = X /\ w \in Words
  BY <1>5 DEF TaskFits, Idle, Refreshes, StoreRecord
<1>7. Alone(h, X)
  BY <1>4, <1>6 DEF Alone, WordsInv, WorkIsRight, Apart
<1>8. TaskFits(task)
  BY <1>6 DEF TaskFits
<1>9. TaskIsRight(task)'
  <2>1. task.out <=> VotedOut(w)
    BY <1>1, <1>2, <1>6, CountDecides
  <2>2. VotedOut(w)' <=> VotedOut(w)
    BY <1>3, VotesSame
  <2>3. \A x \in task.about : task.out <=> VotedOut(x)'
    BY <2>1, <2>2
  <2>4. task.next = "mark"
    OBVIOUS
  <2> HIDE DEF task
  <2> QED
    BY <2>3, <2>4 DEF TaskIsRight
<1>10. task.next \in Counts /\ task.about = X
  BY DEF Counts
<1>11. work[h].next \notin Refreshes \cup Writes
  BY <1>3 DEF Refreshes, Writes
<1>12. X \in SUBSET Words /\ X # {} /\ work[h].about \cup task.about \subseteq X
  BY <1>4, <1>6
<1> HIDE DEF task, X
<1>13. work' = [work EXCEPT ![h] = task]
  BY <1>2 DEF task
<1>14. WordsTypeOK'
  BY <1>1, <1>3, <1>13 DEF WordsTypeOK
<1>15. AnswersAreRight'
  BY <1>3, AnswersSame DEF memory
<1> QED
  BY <1>3, <1>7, <1>8, <1>9, <1>10, <1>11, <1>12, <1>13, <1>14, <1>15, WorkingKeeps

LEMMA MarkVotedKeeps ==
  ASSUME WordsInv, NEW h \in Handlers, MarkVoted(h)
  PROVE  WordsInv'
<1>1. WordsTypeOK /\ TaskFits(work[h]) /\ TaskIsRight(work[h])
  BY DEF WordsInv, WorkIsRight
<1>2. PICK t : t = work[h]
  OBVIOUS
<1>3. TaskFits(t) /\ TaskIsRight(t) /\ t.next = "mark"
  BY <1>1, <1>2 DEF MarkVoted
<1>4. PICK w \in Words : t.about = {w}
  BY <1>3 DEF TaskFits, Idle, Refreshes, StoreRecord
<1> DEFINE X == {w}
           voted == IF t.out THEN lists.voted \cup {w} ELSE lists.voted \ {w}
           l == [lists EXCEPT !.voted = voted]
<1>5. (CHOOSE x \in t.about : TRUE) = w
  BY <1>4
<1>6. /\ \/ voted = lists.voted /\ UNCHANGED memory /\ work' = [work EXCEPT ![h] = Idle]
         \/ Relist(l, X) /\ work' = [Outdated(work) EXCEPT ![h] = Idle]
      /\ UNCHANGED <<votes, blocked, threshold, overrides, additions, listFile>>
  BY <1>2, <1>5 DEF MarkVoted, ThenDoes, database
<1>7. l \in ListRecord /\ l.voted = voted /\ l.listed = lists.listed /\ l.allow = lists.allow
      /\ l.reject = lists.reject /\ l.added = lists.added
  BY <1>1 DEF WordsTypeOK, ListRecord
<1>8. w \in voted <=> VotedOut(w)
  BY <1>3, <1>4 DEF TaskIsRight
<1>9. \A x \in Words \ X : x \in voted <=> x \in lists.voted
  OBVIOUS
<1> HIDE DEF voted, l
<1>10. \A x \in Words \ X : Accepts(l, x) = Accepts(lists, x)
  <2> TAKE x \in Words \ X
  <2>1. x \in l.listed \cup l.voted <=> x \in lists.listed \cup lists.voted
    BY <1>7, <1>9
  <2> QED
    BY <1>7, <2>1, AcceptsSame
<1>11. /\ AnswersAreRight' /\ lists' = l /\ cache' \in [Words -> BOOLEAN \cup {None}]
       /\ shortList' \in [words: (SUBSET Words) \cup {None}, current: BOOLEAN]
       /\ GoesOn(h, Idle)
  <2>1. CASE voted = lists.voted /\ UNCHANGED memory /\ work' = [work EXCEPT ![h] = Idle]
    <3>1. AnswersAreRight' /\ lists' = lists /\ cache' = cache /\ shortList' = shortList
      BY <2>1, AnswersSame DEF memory
    <3>2. l = lists
      BY <1>1, <2>1 DEF l, WordsTypeOK, ListRecord
    <3>3. GoesOn(h, Idle)
      BY <1>1, <2>1 DEF GoesOn, WordsTypeOK
    <3> QED
      BY <1>1, <3>1, <3>2, <3>3 DEF WordsTypeOK
  <2>2. CASE Relist(l, X) /\ work' = [Outdated(work) EXCEPT ![h] = Idle]
    <3> HIDE DEF X
    <3>1. lists' = l
      BY <2>2 DEF Relist
    <3>2. GoesOn(h, Idle)
      BY <2>2, OutdatedGoesOn
    <3>3. /\ AnswersAreRight' /\ cache' \in [Words -> BOOLEAN \cup {None}]
          /\ shortList' \in [words: (SUBSET Words) \cup {None}, current: BOOLEAN]
      <4>1. PICK m : m = l
        OBVIOUS
      <4>2. Relist(m, X) /\ \A x \in Words \ X : Accepts(m, x) = Accepts(lists, x)
        BY <1>10, <2>2, <4>1
      <4> QED
        BY <4>2, RelistAnswers
    <3> QED
      BY <3>1, <3>2, <3>3
  <2> QED
    BY <1>6, <2>1, <2>2
<1>12. WordsTypeOK'
  BY <1>1, <1>6, <1>7, <1>11 DEF WordsTypeOK, GoesOn
<1>13. \A x \in Words : VotedOut(x)' <=> VotedOut(x)
  BY <1>6, VotesSame
<1>14. OnlyThere(X)
  BY <1>7, <1>9, <1>10, <1>11, <1>13 DEF OnlyThere
<1>15. AdminLists' = AdminLists
  BY <1>6, AdminSame
<1>16. work[h].next \notin Writes \cup Refreshes
  BY <1>2, <1>3 DEF Writes, Refreshes
<1>17. Followed(h, Idle, X)
  BY <1>6, <1>7, <1>8, <1>11, <1>13, <1>15, <1>16 DEF Followed
<1>18. Alone(h, X)
  BY <1>2, <1>4 DEF Alone, WordsInv, WorkIsRight, Apart
<1>19. TaskFits(Idle) /\ TaskIsRight(Idle)' /\ Idle.about = {}
  BY DEF TaskFits, TaskIsRight, Idle
<1>20. X \in SUBSET Words /\ X # {} /\ work[h].about \cup Idle.about \subseteq X
  BY <1>2, <1>4, <1>19
<1> HIDE DEF X
<1> QED
  BY <1>11, <1>12, <1>14, <1>17, <1>18, <1>19, <1>20, HandlerKeeps

(* the two steps that read what is to be put into the lists *)
LEMMA ReadingKeeps ==
  ASSUME WordsInv, NEW h \in Handlers, ReadVoted(h) \/ ReadLists(h)
  PROVE  WordsInv'
<1>1. WordsTypeOK /\ TaskFits(work[h])
  BY DEF WordsInv, WorkIsRight
<1>2. UNCHANGED <<votes, blocked, threshold, overrides, additions, listFile, lists, cache, shortList>>
  BY DEF ReadVoted, ReadLists, database, memory
<1>3. PICK t : t = work[h]
  OBVIOUS
<1>4. t.about = Words /\ t.next \in {"voted", "lists"}
  BY <1>1, <1>3 DEF ReadVoted, ReadLists, TaskFits, Idle, Refreshes, StoreRecord
<1>5. \A w \in Words : VotedOut(w)' <=> VotedOut(w)
  BY <1>2, VotesSame
<1>6. PICK task : /\ work' = [work EXCEPT ![h] = task] /\ task.about = Words
                  /\ \/ t.next = "voted" /\ task.next = "setVoted" /\ task.read = {w \in Words : VotedOut(w)}
                     \/ t.next = "lists" /\ task.next = "setLists" /\ task.read = AdminLists
  <2>1. CASE ReadVoted(h)
    <3> DEFINE task == [next |-> "setVoted", about |-> Words, read |-> {w \in Words : VotedOut(w)}]
    <3>1. work' = [work EXCEPT ![h] = task] /\ t.next = "voted"
      BY <1>3, <2>1 DEF ReadVoted, ThenDoes
    <3>2. task.about = Words /\ task.next = "setVoted" /\ task.read = {w \in Words : VotedOut(w)}
      OBVIOUS
    <3> HIDE DEF task
    <3> QED
      BY <3>1, <3>2
  <2>2. CASE ReadLists(h)
    <3> DEFINE task == [next |-> "setLists", about |-> Words, read |-> AdminLists]
    <3>1. work' = [work EXCEPT ![h] = task] /\ t.next = "lists"
      BY <1>3, <2>2 DEF ReadLists, ThenDoes
    <3>2. task.about = Words /\ task.next = "setLists" /\ task.read = AdminLists
      OBVIOUS
    <3> HIDE DEF task
    <3> QED
      BY <3>1, <3>2
  <2> QED
    BY <2>1, <2>2
<1>7. TaskFits(task)
  BY <1>6 DEF TaskFits, Refreshes
<1>8. TaskIsRight(task)'
  <2>1. {w \in Words : VotedOut(w)'} = {w \in Words : VotedOut(w)}
    BY <1>5
  <2>2. AdminLists' = AdminLists
    BY <1>2, AdminSame
  <2> QED
    BY <1>6, <2>1, <2>2 DEF TaskIsRight
<1>9. (task.next \in Counts /\ task.about = Words) \/ work[h].next \notin Counts
  BY <1>3, <1>6 DEF Counts
<1>10. task.next \in Refreshes /\ work[h].next \notin Writes
  BY <1>3, <1>4, <1>6 DEF Refreshes, Writes
<1>11. Words \in SUBSET Words /\ Words # {} /\ work[h].about \cup task.about \subseteq Words /\ Alone(h, Words)
  BY <1>3, <1>4, <1>6, AloneWithAll, WordsAssumption
<1>12. WordsTypeOK' /\ AnswersAreRight'
  BY <1>1, <1>2, <1>6, AnswersSame DEF WordsTypeOK, memory
<1> QED
  BY <1>2, <1>6, <1>7, <1>8, <1>9, <1>10, <1>11, <1>12, WorkingKeeps

LEMMA SettingKeeps ==
  ASSUME WordsInv, NEW h \in Handlers, SetVoted(h) \/ SetLists(h) \/ ReloadRejected(h)
  PROVE  WordsInv'
<1>1. WordsTypeOK /\ TaskFits(work[h]) /\ TaskIsRight(work[h])
  BY DEF WordsInv, WorkIsRight
<1>2. UNCHANGED <<votes, blocked, threshold, overrides, additions, listFile>>
  BY DEF SetVoted, SetLists, ReloadRejected, database
<1>3. PICK t : t = work[h]
  OBVIOUS
<1>4. t.about = Words /\ t.next \in {"setVoted", "setLists", "reload"} /\ TaskIsRight(t)
  BY <1>1, <1>3 DEF SetVoted, SetLists, ReloadRejected, TaskFits, Idle, Refreshes, StoreRecord
<1>5. \A w \in Words : VotedOut(w)' <=> VotedOut(w)
  BY <1>2, VotesSame
<1>6. AdminLists' = AdminLists
  BY <1>2, AdminSame
<1>7. lists \in ListRecord
  BY <1>1 DEF WordsTypeOK
<1>8. work[h].next \notin Counts => \A w \in Words : w \in lists.voted <=> VotedOut(w)
  BY <1>3, <1>4, AloneWithAll, HeldIsRight
<1>9. CASE SetVoted(h)
  <2> DEFINE task == [next |-> "lists", about |-> Words]
             l == [lists EXCEPT !.voted = t.read]
  <2>1. Relist(l, Words) /\ work' = [Outdated(work) EXCEPT ![h] = task] /\ t.next = "setVoted"
    BY <1>3, <1>9 DEF SetVoted
  <2>2. t.read = {w \in Words : VotedOut(w)}
    BY <1>4, <2>1 DEF TaskIsRight
  <2>3. l \in ListRecord /\ l.voted = t.read /\ l.listed = lists.listed
    BY <1>7, <2>2 DEF ListRecord
  <2>4. PICK m : m = l
    OBVIOUS
  <2> HIDE DEF l
  <2>5. Followed(h, task, Words)
    BY <1>2, <1>3, <1>5, <2>1, <2>2, <2>3 DEF Followed, Relist, Writes, Refreshes
  <2>6. Relist(m, Words) /\ m \in ListRecord
    BY <2>1, <2>3, <2>4
  <2> QED
    BY <1>2, <1>3, <1>4, <2>1, <2>5, <2>6, RelistKeeps
<1>10. CASE SetLists(h)
  <2> DEFINE r == t.read
             l == [lists EXCEPT !.allow = r.allow, !.reject = r.reject, !.added = r.added]
  <2>1. Relist(l, Words) /\ work' = [Outdated(work) EXCEPT ![h] = Idle] /\ t.next = "setLists"
    BY <1>3, <1>10 DEF SetLists
  <2>2. r = AdminLists
    BY <1>4, <2>1 DEF TaskIsRight
  <2>3. r.allow \in SUBSET Words /\ r.reject \in SUBSET Words /\ r.added \in SUBSET Words
    BY <1>1, <2>2 DEF AdminLists, WordsTypeOK
  <2> HIDE DEF r
  <2>4. /\ l \in ListRecord /\ l.voted = lists.voted /\ l.listed = lists.listed
        /\ l.allow = r.allow /\ l.reject = r.reject /\ l.added = r.added
    BY <1>7, <2>3 DEF ListRecord
  <2>5. PICK m : m = l
    OBVIOUS
  <2> HIDE DEF l
  <2>6. lists' = l
    BY <2>1 DEF Relist
  <2>7. work[h].next \notin Counts \cup Writes
    BY <1>3, <2>1 DEF Counts, Writes
  <2>8. Followed(h, Idle, Words)
    BY <1>2, <1>5, <1>6, <1>8, <2>2, <2>4, <2>6, <2>7 DEF Followed
  <2>9. Relist(m, Words) /\ m \in ListRecord
    BY <2>1, <2>4, <2>5
  <2> QED
    BY <1>2, <1>3, <1>4, <2>1, <2>8, <2>9, RelistKeeps
<1>11. CASE ReloadRejected(h)
  <2> DEFINE l == [lists EXCEPT !.listed = listFile]
  <2>1. Relist(l, Words) /\ work' = [Outdated(work) EXCEPT ![h] = Idle] /\ t.next = "reload"
    BY <1>3, <1>11 DEF ReloadRejected
  <2>2. /\ l \in ListRecord /\ l.voted = lists.voted /\ l.listed = listFile
        /\ l.allow = lists.allow /\ l.reject = lists.reject /\ l.added = lists.added
    BY <1>1, <1>7 DEF ListRecord, WordsTypeOK
  <2>3. PICK m : m = l
    OBVIOUS
  <2> HIDE DEF l
  <2>4. lists' = l
    BY <2>1 DEF Relist
  <2>5. work[h].next \notin Counts \cup Refreshes
    BY <1>3, <2>1 DEF Counts, Refreshes
  <2>6. Followed(h, Idle, Words)
    BY <1>2, <1>5, <1>6, <1>8, <2>2, <2>4, <2>5 DEF Followed
  <2>7. Relist(m, Words) /\ m \in ListRecord
    BY <2>1, <2>2, <2>3
  <2> QED
    BY <1>2, <1>3, <1>4, <2>1, <2>6, <2>7, RelistKeeps
<1> QED
  BY <1>9, <1>10, <1>11

(* the file: what is to be written is known, and nothing has changed yet *)
LEMMA BeginWriteKeeps ==
  ASSUME WordsInv, ~Overlap, NEW h \in Handlers, NEW after \in SUBSET Words, MayBegin(h, Words),
         work' = [work EXCEPT ![h] = [next |-> "write", about |-> Words, before |-> listFile, after |-> after]],
         UNCHANGED <<votes, blocked, threshold, overrides, additions, listFile, lists>>,
         WordsTypeOK', AnswersAreRight'
  PROVE  WordsInv'
<1>1. work[h] = Idle /\ listFile \subseteq Words
  BY DEF MayBegin, WordsInv, WordsTypeOK
<1>2. PICK task : task = [next |-> "write", about |-> Words, before |-> listFile, after |-> after]
  OBVIOUS
<1>3. TaskFits(task) /\ TaskIsRight(task)' /\ task.about = Words /\ task.next \in Writes
  BY <1>1, <1>2 DEF TaskFits, TaskIsRight, Writes
<1>4. Alone(h, Words)
  BY AloneWith
<1>5. work[h].next \notin Counts \cup Refreshes /\ work[h].about = {}
  BY <1>1 DEF Idle, Counts, Refreshes
<1>6. Words \in SUBSET Words /\ Words # {} /\ work[h].about \cup task.about \subseteq Words
  BY <1>3, <1>5, WordsAssumption
<1> QED
  BY <1>2, <1>3, <1>4, <1>5, <1>6, WorkingKeeps

LEMMA FileKeeps ==
  ASSUME WordsInv, ~Overlap, NEW h \in Handlers,
         ExportVotes(h) \/ \E ws \in SUBSET Listed : AddRejected(h, ws) \/ RemoveRejected(h, ws)
  PROVE  WordsInv'
<1>1. WordsTypeOK /\ AnswersAreRight /\ listFile \subseteq Words /\ lists \in ListRecord
  BY DEF WordsInv, WordsTypeOK
<1>2. ASSUME NEW after \in SUBSET Words, MayBegin(h, Words), UNCHANGED <<database, listFile, memory>>,
             work' = [work EXCEPT ![h] = [next |-> "write", about |-> Words, before |-> listFile, after |-> after]]
      PROVE  WordsInv'
  <2>1. UNCHANGED <<votes, blocked, threshold, overrides, additions, listFile, lists, cache, shortList>>
    BY <1>2 DEF database, memory
  <2>2. WordsTypeOK'
    BY <1>1, <1>2, <2>1 DEF WordsTypeOK
  <2>3. AnswersAreRight'
    BY <2>1, AnswersSame DEF memory
  <2> QED
    BY <1>2, <2>1, <2>2, <2>3, BeginWriteKeeps
<1>3. CASE ExportVotes(h)
  <2> DEFINE new == lists.voted \ (lists.allow \cup lists.listed)
  <2>1. listFile \cup new \in SUBSET Words
    BY <1>1 DEF ListRecord
  <2>2. /\ MayBegin(h, Words) /\ UNCHANGED <<database, listFile, memory>>
        /\ work' = [work EXCEPT ![h] = [next |-> "write", about |-> Words, before |-> listFile, after |-> listFile \cup new]]
    BY <1>3 DEF ExportVotes, ThenDoes
  <2> HIDE DEF new
  <2>3. PICK after : after = listFile \cup new
    OBVIOUS
  <2> QED
    BY <1>2, <2>1, <2>2, <2>3
<1>4. ASSUME NEW ws \in SUBSET Listed, RemoveRejected(h, ws)
      PROVE  WordsInv'
  <2>1. /\ MayBegin(h, Words) /\ UNCHANGED <<database, listFile, memory>>
        /\ work' = [work EXCEPT ![h] = [next |-> "write", about |-> Words, before |-> listFile, after |-> listFile \ ws]]
    BY <1>4 DEF RemoveRejected, ThenDoes
  <2>2. PICK after : after = listFile \ ws
    OBVIOUS
  <2>3. after \in SUBSET Words
    BY <1>1, <2>2
  <2> QED
    BY <1>2, <2>1, <2>2, <2>3
<1>5. ASSUME NEW ws \in SUBSET Listed, AddRejected(h, ws)
      PROVE  WordsInv'
  <2> DEFINE new == {w \in ws \ lists.listed : Valid(w)}
  <2>1. /\ MayBegin(h, Words) /\ UNCHANGED <<votes, blocked, threshold, overrides, additions, listFile, lists, shortList>>
        /\ work' = [work EXCEPT ![h] = [next |-> "write", about |-> Words, before |-> listFile, after |-> listFile \cup new]]
        /\ cache' = [w \in Words |-> IF w \in ws \ lists.listed THEN Valid(w) ELSE cache[w]]
    BY <1>5 DEF AddRejected, ThenDoes, database
  <2>2. listFile \cup new \in SUBSET Words
    BY <1>1, WordsAssumption
  <2> HIDE DEF new
  <2>3. PICK after : after = listFile \cup new
    OBVIOUS
  <2>4. \A w \in Words : Valid(w) = Accepts(lists, w) /\ Accepts(lists, w) \in BOOLEAN
    BY <1>1, AcceptsIsAnswer, Zenon DEF Valid, AnswersAreRight
  <2>5. \A w \in Words : cache'[w] = IF w \in ws \ lists.listed THEN Accepts(lists, w) ELSE cache[w]
    BY <2>1, <2>4
  <2>6. cache' \in [Words -> BOOLEAN \cup {None}]
    BY <1>1, <2>1, <2>4 DEF WordsTypeOK
  <2>7. AnswersAreRight'
    BY <1>1, <2>1, <2>5 DEF AnswersAreRight
  <2>8. WordsTypeOK'
    BY <1>1, <2>1, <2>6 DEF WordsTypeOK
  <2> QED
    BY <2>1, <2>2, <2>3, <2>7, <2>8, BeginWriteKeeps
<1> QED
  BY <1>3, <1>4, <1>5

LEMMA WriteListKeeps ==
  ASSUME WordsInv, NEW h \in Handlers, WriteList(h)
  PROVE  WordsInv'
<1>1. WordsTypeOK /\ TaskFits(work[h])
  BY DEF WordsInv, WorkIsRight
<1>2. PICK t : t = work[h]
  OBVIOUS
<1>3. t.about = Words /\ t.next = "write" /\ t.before \subseteq Words /\ t.after \subseteq Words
  BY <1>1, <1>2 DEF WriteList, TaskFits, Idle, Refreshes, StoreRecord
<1> DEFINE task == [next |-> "reload", about |-> Words]
<1>4. /\ listFile' \in {t.after, t.before} /\ work' = [work EXCEPT ![h] = task]
      /\ UNCHANGED <<votes, blocked, threshold, overrides, additions, lists, cache, shortList>>
  BY <1>2 DEF WriteList, Begins, ThenDoes, database, memory
<1>5. GoesOn(h, task)
  BY <1>1, <1>4 DEF GoesOn, WordsTypeOK
<1>6. TaskFits(task) /\ TaskIsRight(task)'
  BY DEF TaskFits, TaskIsRight
<1>7. OnlyThere(Words)
  BY DEF OnlyThere
<1>8. Alone(h, Words)
  BY <1>2, <1>3, AloneWithAll
<1>9. work[h].next \notin Counts \cup Refreshes
  BY <1>2, <1>3 DEF Counts, Refreshes
<1>10. \A w \in Words : w \in lists.voted <=> VotedOut(w)
  BY <1>8, <1>9, HeldIsRight
<1>11. \A w \in Words : VotedOut(w)' <=> VotedOut(w)
  BY <1>4, VotesSame
<1>12. AdminLists' = AdminLists
  BY <1>4, AdminSame
<1>13. Followed(h, task, Words)
  BY <1>4, <1>9, <1>10, <1>11, <1>12 DEF Followed, Writes
<1>14. WordsTypeOK' /\ AnswersAreRight'
  BY <1>1, <1>3, <1>4, AnswersSame DEF WordsTypeOK, memory
<1>15. Words \in SUBSET Words /\ Words # {} /\ work[h].about \cup task.about \subseteq Words
  BY <1>2, <1>3, WordsAssumption
<1> HIDE DEF task
<1> QED
  BY <1>5, <1>6, <1>7, <1>8, <1>13, <1>14, <1>15, HandlerKeeps

LEMMA AskKeeps ==
  ASSUME WordsInv, ~Overlap, NEW h \in Handlers, NEW ws \in SUBSET Words, ws # {}, NEW short \in BOOLEAN,
         short => ws = Words, Ask(h, ws, short)
  PROVE  WordsInv'
<1>1. WordsTypeOK /\ AnswersAreRight /\ work[h] = Idle
  BY DEF WordsInv, Ask, MayBegin
<1>2. \A w \in Words : Valid(w) = Accepts(lists, w) /\ Accepts(lists, w) \in BOOLEAN
  BY <1>1, AcceptsIsAnswer, Zenon DEF Valid, AnswersAreRight
<1>3. UNCHANGED <<votes, blocked, threshold, overrides, additions, listFile, lists, cache, shortList>>
  BY DEF Ask, database, memory
<1>4. PICK answers : answers = [w \in ws |-> Valid(w)]
  OBVIOUS
<1>5. answers \in [ws -> BOOLEAN] /\ \A w \in ws : answers[w] = Accepts(lists, w)
  BY <1>2, <1>4
<1> DEFINE task == [next |-> "store", about |-> ws, answers |-> answers, short |-> short, current |-> TRUE]
<1>6. work' = [work EXCEPT ![h] = task]
  BY <1>4 DEF Ask, ThenDoes
<1>7. task \in StoreRecord /\ task.about = ws /\ task.short = short /\ task.next = "store" /\ task.answers = answers
  BY <1>5 DEF StoreRecord
<1> HIDE DEF task
<1>8. TaskFits(task)
  BY <1>7 DEF TaskFits
<1>9. TaskIsRight(task)'
  BY <1>3, <1>5, <1>7 DEF TaskIsRight
<1>10. Alone(h, ws)
  BY AloneWith DEF Ask
<1>11. work[h].next \notin Counts \cup Refreshes \cup Writes /\ work[h].about = {}
  BY <1>1 DEF Idle, Counts, Refreshes, Writes
<1>12. WordsTypeOK' /\ AnswersAreRight'
  BY <1>1, <1>3, <1>6, AnswersSame DEF WordsTypeOK, memory
<1>13. work[h].about \cup task.about \subseteq ws
  BY <1>7, <1>11
<1> QED
  BY <1>3, <1>6, <1>8, <1>9, <1>10, <1>11, <1>12, <1>13, WorkingKeeps

LEMMA StoreKeeps ==
  ASSUME WordsInv, NEW h \in Handlers, StoreAnswers(h)
  PROVE  WordsInv'
<1>1. WordsTypeOK /\ AnswersAreRight /\ TaskFits(work[h]) /\ TaskIsRight(work[h])
  BY DEF WordsInv, WorkIsRight
<1>2. PICK t : t = work[h]
  OBVIOUS
<1>3. TaskFits(t) /\ TaskIsRight(t) /\ t.next = "store"
  BY <1>1, <1>2 DEF StoreAnswers
<1>4. t \in StoreRecord /\ t.about # {} /\ t.about \in SUBSET Words /\ (t.short => t.about = Words)
      /\ t.short \in BOOLEAN /\ t.current \in BOOLEAN
  BY <1>3 DEF TaskFits, Idle, Refreshes, StoreRecord
<1>5. t.answers \in [t.about -> BOOLEAN] /\ \A w \in t.about : t.answers[w] = Accepts(lists, w)
  BY <1>3 DEF TaskIsRight
<1>6. /\ cache' = [w \in Words |-> IF w \in t.about THEN t.answers[w] ELSE cache[w]]
      /\ shortList' = IF t.short THEN [words |-> {w \in Words : t.answers[w]}, current |-> t.current] ELSE shortList
      /\ work' = [work EXCEPT ![h] = Idle]
      /\ UNCHANGED <<votes, blocked, threshold, overrides, additions, listFile, lists>>
  BY <1>2 DEF StoreAnswers, ThenDoes, database
<1>7. cache' \in [Words -> BOOLEAN \cup {None}]
  BY <1>1, <1>5, <1>6 DEF WordsTypeOK
<1>8. \A w \in Words : cache'[w] = None \/ cache'[w] = Accepts(lists', w)
  BY <1>1, <1>5, <1>6 DEF AnswersAreRight
<1>9. /\ shortList' \in [words: (SUBSET Words) \cup {None}, current: BOOLEAN]
      /\ shortList'.current => shortList'.words = {w \in Words : Accepts(lists', w)}
  <2>1. CASE ~t.short
    BY <1>1, <1>6, <2>1 DEF WordsTypeOK, AnswersAreRight
  <2>2. CASE t.short
    <3>1. shortList' = [words |-> {w \in Words : t.answers[w]}, current |-> t.current]
      BY <1>6, <2>2
    <3>2. {w \in Words : t.answers[w]} = {w \in Words : Accepts(lists', w)}
      BY <1>4, <1>5, <1>6, <2>2
    <3> QED
      BY <1>4, <3>1, <3>2
  <2> QED
    BY <1>4, <2>1, <2>2
<1>10. AnswersAreRight'
  BY <1>8, <1>9 DEF AnswersAreRight
<1>11. WordsTypeOK'
  BY <1>1, <1>6, <1>7, <1>9 DEF WordsTypeOK
<1>12. TaskFits(Idle) /\ TaskIsRight(Idle)' /\ Idle.about = {}
  BY DEF TaskFits, TaskIsRight, Idle
<1>13. Alone(h, t.about)
  BY <1>2 DEF Alone, WordsInv, WorkIsRight, Apart
<1>14. work[h].next \notin Counts \cup Refreshes \cup Writes
  BY <1>2, <1>3 DEF Counts, Refreshes, Writes
<1>15. work[h].about \cup Idle.about \subseteq t.about
  BY <1>2, <1>12
<1> QED
  BY <1>4, <1>6, <1>10, <1>11, <1>12, <1>13, <1>14, <1>15, WorkingKeeps

LEMMA ClearKeeps ==
  ASSUME WordsInv, ClearValid \/ ClearShort
  PROVE  WordsInv'
<1>1. UNCHANGED <<votes, blocked, threshold, overrides, additions, listFile, lists, work>>
  BY DEF ClearValid, ClearShort, database
<1>2. cache' \in {cache, EmptyCache} /\ shortList' \in {shortList, NoShortList}
  BY DEF ClearValid, ClearShort
<1>3. /\ EmptyCache \in [Words -> BOOLEAN \cup {None}] /\ \A w \in Words : EmptyCache[w] = None
      /\ NoShortList \in [words: (SUBSET Words) \cup {None}, current: BOOLEAN] /\ ~NoShortList.current
  BY DEF EmptyCache, NoShortList
<1>4. WordsTypeOK'
  BY <1>1, <1>2, <1>3 DEF WordsInv, WordsTypeOK
<1>5. AnswersAreRight'
  BY <1>1, <1>2, <1>3 DEF WordsInv, AnswersAreRight
<1> QED
  BY <1>1, <1>4, <1>5, FillingKeeps

(* Nobody works and everything is as it should be: at the start, and after  *)
(* every other one.                                                         *)
LEMMA FreshIsRight ==
  /\ WordsTypeOK /\ lists = ListsNow /\ cache = EmptyCache /\ shortList = NoShortList
  /\ work = [h \in Handlers |-> Idle]
  => WordsInv
<1> SUFFICES ASSUME WordsTypeOK, lists = ListsNow, cache = EmptyCache, shortList = NoShortList,
                    work = [h \in Handlers |-> Idle]
             PROVE  WordsInv
  OBVIOUS
<1>1. \A h \in Handlers : work[h] = Idle
  OBVIOUS
<1>2. TaskFits(Idle) /\ TaskIsRight(Idle) /\ Idle.about = {}
  BY DEF TaskFits, TaskIsRight, Idle
<1>3. WorkIsRight
  BY <1>1, <1>2 DEF WorkIsRight, Apart
<1>4. ListsAreRight
  BY DEF ListsAreRight, ListsNow
<1>5. AnswersAreRight
  BY DEF AnswersAreRight, EmptyCache, NoShortList
<1> QED
  BY <1>3, <1>4, <1>5 DEF WordsInv

LEMMA ListsNowFit ==
  ASSUME additions \subseteq Words, listFile \subseteq Words
  PROVE  ListsNow \in ListRecord
BY DEF ListsNow, AdminLists, ListRecord

LEMMA RestartKeeps ==
  ASSUME WordsInv, RestartWords
  PROVE  WordsInv'
<1>1. /\ lists' = ListsNow /\ cache' = EmptyCache /\ shortList' = NoShortList /\ work' = [h \in Handlers |-> Idle]
      /\ UNCHANGED <<votes, blocked, threshold, overrides, additions, listFile>>
  BY DEF RestartWords, database
<1>2. \A w \in Words : VotedOut(w)' <=> VotedOut(w)
  BY <1>1, VotesSame
<1>3. AdminLists' = AdminLists
  BY <1>1, AdminSame
<1>4. ListsNow' = ListsNow
  <2>1. {w \in Words : VotedOut(w)'} = {w \in Words : VotedOut(w)}
    BY <1>2
  <2> QED
    BY <1>1, <1>3, <2>1 DEF ListsNow
<1>5. ListsNow \in ListRecord
  BY ListsNowFit DEF WordsInv, WordsTypeOK
<1>6. EmptyCache \in [Words -> BOOLEAN \cup {None}] /\ NoShortList \in [words: (SUBSET Words) \cup {None}, current: BOOLEAN]
  BY DEF EmptyCache, NoShortList
<1>7. WordsTypeOK'
  BY <1>1, <1>5, <1>6 DEF WordsInv, WordsTypeOK
<1>8. (/\ WordsTypeOK /\ lists = ListsNow /\ cache = EmptyCache /\ shortList = NoShortList
       /\ work = [h \in Handlers |-> Idle])'
  BY <1>1, <1>4, <1>7 DEF EmptyCache, NoShortList, Idle
<1> QED
  BY <1>8, FreshIsRight, PTL

LEMMA WordsStart == WordsInit => WordsInv
<1> SUFFICES ASSUME WordsInit
             PROVE  WordsInv
  OBVIOUS
<1> USE WordsAssumption
<1>1. AdminLists = [allow |-> {}, reject |-> {}, added |-> {}]
  BY DEF WordsInit, AdminLists
<1>2. \A w \in Words : ~VotedOut(w)
  BY DEF WordsInit, VotedOut
<1>3. lists = ListsNow
  BY <1>1, <1>2 DEF WordsInit, ListsNow
<1>4. EmptyCache \in [Words -> BOOLEAN \cup {None}] /\ NoShortList \in [words: (SUBSET Words) \cup {None}, current: BOOLEAN]
  BY DEF EmptyCache, NoShortList
<1>5. ListsNow \in ListRecord
  BY ListsNowFit DEF WordsInit
<1>6. WordsTypeOK
  BY <1>3, <1>4, <1>5 DEF WordsInit, WordsTypeOK
<1> QED
  BY <1>3, <1>6, FreshIsRight DEF WordsInit

LEMMA WordsStutter ==
  ASSUME WordsInv, UNCHANGED wordVars
  PROVE  WordsInv'
<1>1. UNCHANGED <<votes, blocked, threshold, overrides, additions, listFile, lists, cache, shortList, work>>
  BY DEF wordVars, database, memory
<1>2. WordsTypeOK' /\ AnswersAreRight'
  BY <1>1 DEF WordsInv, WordsTypeOK, AnswersAreRight
<1> QED
  BY <1>1, <1>2, FillingKeeps

LEMMA WordsStep ==
  ASSUME ~Overlap, WordsInv, [WordsNext]_wordVars
  PROVE  WordsInv'
<1>1. ASSUME NEW h \in Handlers, NEW u \in Reviewers, NEW w \in Words,
             Undo(h, u, w) \/ \E v \in {"good", "bad"} : Vote(h, u, w, v)
      PROVE  WordsInv'
  BY <1>1, VoteKeeps
<1>2. ASSUME NEW h \in Handlers, CountVotes(h) \/ MarkVoted(h)
      PROVE  WordsInv'
  BY <1>2, CountVotesKeeps, MarkVotedKeeps
<1>3. ASSUME NEW h \in Handlers,
             \/ \E t \in Thresholds : SetThreshold(h, t)
             \/ \E u \in Reviewers : SetReviewBlocked(h, u) \/ \E ws \in SUBSET Words \ {{}} : RevertReviews(h, u, ws)
             \/ \E w \in Words : DeleteVotes(h, w)
             \/ \E w \in Overridden : RemoveOverride(h, w) \/ \E v \in {"allow", "reject"} : SetOverride(h, w, v)
             \/ \E w \in Added : AddAddition(h, w) \/ RemoveAddition(h, w)
      PROVE  WordsInv'
  BY <1>3, AdminKeeps
<1>4. ASSUME NEW h \in Handlers, NEW w \in Words, CheckWord(h, w)
      PROVE  WordsInv'
  BY <1>4, AskKeeps DEF CheckWord
<1>5. ASSUME NEW h \in Handlers, ShortWords(h)
      PROVE  WordsInv'
  BY <1>5, AskKeeps, WordsAssumption DEF ShortWords
<1>6. ASSUME NEW h \in Handlers, ReadVoted(h) \/ SetVoted(h) \/ ReadLists(h) \/ SetLists(h) \/ ReloadRejected(h)
      PROVE  WordsInv'
  BY <1>6, ReadingKeeps, SettingKeeps
<1>7. ASSUME NEW h \in Handlers,
             ExportVotes(h) \/ \E ws \in SUBSET Listed \ {{}} : AddRejected(h, ws) \/ RemoveRejected(h, ws)
      PROVE  WordsInv'
  BY <1>7, FileKeeps
<1>8. ASSUME NEW h \in Handlers, WriteList(h) \/ StoreAnswers(h)
      PROVE  WordsInv'
  BY <1>8, WriteListKeeps, StoreKeeps
<1>9. CASE ClearValid \/ ClearShort \/ RestartWords
  BY <1>9, ClearKeeps, RestartKeeps
<1>10. CASE UNCHANGED wordVars
  BY <1>10, WordsStutter
<1> QED
  BY <1>1, <1>2, <1>3, <1>4, <1>5, <1>6, <1>7, <1>8, <1>9, <1>10 DEF WordsNext

(* The invariant of the dictionary: the types, what the handlers under way  *)
(* have read and still hold to, and that a list or an answer is right       *)
(* unless one of them is about to renew it.                                 *)
THEOREM WordsAlways ==
  ASSUME ~Overlap
  PROVE  WordsSpec => []WordsInv
<1>1. WordsInv /\ [WordsNext]_wordVars => WordsInv'
  BY WordsStep
<1> QED
  BY WordsStart, <1>1, PTL DEF WordsSpec

(* Whatever the reviewers and the administrators do, also when a write      *)
(* fails or the server stops half way: once nothing is under way the lists  *)
(* of the running game are those of the votes, the database and the file    *)
(* (word_review.rs, admin/dict.rs).                                         *)
THEOREM ListsAlwaysFollow ==
  ASSUME ~Overlap
  PROVE  WordsSpec => []ListsFollow
<1>1. ASSUME WordsInv, Quiet
      PROVE  lists = ListsNow
  <2>1. lists \in ListRecord /\ AdminLists.added = additions
    BY <1>1 DEF WordsInv, WordsTypeOK, AdminLists
  <2>2. /\ \A w \in Words : w \in lists.voted <=> VotedOut(w)
        /\ lists.listed = listFile
        /\ lists.allow = AdminLists.allow /\ lists.reject = AdminLists.reject /\ lists.added = AdminLists.added
    BY <1>1, QuietIsRight DEF Quiet
  <2>3. lists.voted = {w \in Words : VotedOut(w)}
    BY <2>1, <2>2 DEF ListRecord
  <2>4. lists = [listed |-> lists.listed, voted |-> lists.voted, allow |-> lists.allow, reject |-> lists.reject, added |-> lists.added]
    BY <2>1 DEF ListRecord
  <2> QED
    BY <2>2, <2>3, <2>4, Zenon DEF ListsNow
<1>2. WordsInv => ListsFollow
  BY <1>1 DEF ListsFollow
<1> QED
  BY WordsAlways, <1>2, PTL

(* No answer outlives the list it came from, whichever questions and        *)
(* changes cross (dictionary.rs filter_valid, practice.rs short_words).     *)
THEOREM AnswersAlwaysFollow ==
  ASSUME ~Overlap
  PROVE  WordsSpec => []AnswersFollow
<1>1. ASSUME WordsInv
      PROVE  AnswersFollow
  <2>1. ASSUME NEW w \in Words, cache[w] # None
        PROVE  cache[w] <=> Accepts(lists, w)
    BY <1>1, <2>1 DEF WordsInv, AnswersAreRight
  <2>2. shortList.current => shortList.words = {w \in Words : Accepts(lists, w)}
    BY <1>1 DEF WordsInv, AnswersAreRight
  <2> QED
    BY <2>1, <2>2 DEF AnswersFollow
<1>2. WordsInv => AnswersFollow
  BY <1>1
<1> QED
  BY WordsAlways, <1>2, PTL
=============================================================================
