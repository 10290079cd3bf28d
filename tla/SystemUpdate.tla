----------------------------- MODULE SystemUpdate -----------------------------
(***************************************************************************)
(* The update of the server from GitHub and its restart (admin/update.rs). *)
(*                                                                         *)
(* An update fetches, writes an audit row, switches the working tree to    *)
(* the branch asked for, builds the program if its sources have changed,   *)
(* and writes a second row; UPDATE_LOCK lets one run at a time.  When the  *)
(* switch or the build fails it goes back.  The restart, asked for by      *)
(* itself or at the end of an update, replaces the process after a while,  *)
(* and does not take that lock.                                            *)
(*                                                                         *)
(* A git command may fail or be killed by its time limit.  The working     *)
(* tree is clean and on a branch; what fails before the first audit row    *)
(* changes nothing, and an audit row can be written.                       *)
(***************************************************************************)
EXTENDS Nothing, Integers

CONSTANTS
    Branches,
    Commits,
    Precedes,     \* pairs of commits: the first is in the history of the second
    SourceOf,     \* commit -> its build inputs (is_build_input)
    Admins,       \* update requests that may run at the same time
    FirstBranch, FirstCommit

UpdateRecord ==
    [at : {"switch", "build", "restore", "record"}, branch : Branches, oldBranch : Branches,
     oldHead : Commits, install : BOOLEAN, restart : BOOLEAN]

ASSUME UpdateAssumption ==
    /\ FirstBranch \in Branches /\ FirstCommit \in Commits
    /\ None \notin Commits /\ None \notin UpdateRecord

VARIABLES
    github,       \* branch -> commit, at the origin
    tracking,     \* branch -> commit, as fetched last
    local,        \* branch -> commit of the local branch, or None
    current,      \* the branch checked out
    built,        \* the sources target/release was built from
    running,      \* what the process was built from, and its running_commit
    updating,     \* admin -> the update under way, or None
    scheduled,    \* RESTART_SCHEDULED
    recorded,     \* branch and commit of the last system.update_done row
    cutOff,       \* history: an update was cut off, or could not go back
    unbuilt       \* history: an update did not want the build it needed

updateVars == <<github, tracking, local, current, built, running, updating,
                scheduled, recorded, cutOff, unbuilt>>
tree == <<local, current>>

HeadCommit == local[current]

UpdateInit ==
    /\ github = [b \in Branches |-> FirstCommit]
    /\ tracking = github
    /\ local = [b \in Branches |-> IF b = FirstBranch THEN FirstCommit ELSE None]
    /\ current = FirstBranch
    /\ built = SourceOf[FirstCommit]
    /\ running = [from |-> built, commit |-> FirstCommit]
    /\ updating = [a \in Admins |-> None]
    /\ scheduled = FALSE
    /\ recorded = [branch |-> FirstBranch, commit |-> FirstCommit]
    /\ cutOff = FALSE /\ unbuilt = FALSE

Unlocked == \A a \in Admins : updating[a] = None

(* somebody pushes, rewrites or resets a branch *)
PushTo(b, c) ==
    /\ github[b] # c
    /\ github' = [github EXCEPT ![b] = c]
    /\ UNCHANGED <<tracking, tree, built, running, updating, scheduled, recorded, cutOff, unbuilt>>

(* check: the branches are fetched under the lock *)
CheckRemote ==
    /\ Unlocked /\ tracking # github
    /\ tracking' = github
    /\ UNCHANGED <<github, tree, built, running, updating, scheduled, recorded, cutOff, unbuilt>>

-----------------------------------------------------------------------------
(* apply, up to the audit row; there has to be something to do.            *)
BeginUpdate(a, b, install, restart) ==
    /\ Unlocked
    /\ tracking' = github
    /\ ~(current = b /\ HeadCommit = github[b])
    /\ updating' = [updating EXCEPT ![a] =
          [at |-> "switch", branch |-> b, oldHead |-> HeadCommit, oldBranch |-> current,
           install |-> install, restart |-> restart]]
    /\ UNCHANGED <<github, tree, built, running, scheduled, recorded, cutOff, unbuilt>>

At(a, step) == updating[a] # None /\ updating[a].at = step
Advances(a, step) == updating' = [updating EXCEPT ![a].at = step]

(* checkout, which makes the branch if it is new, and merge --ff-only *)
Checkout(b) == [local EXCEPT ![b] = IF @ = None THEN tracking[b] ELSE @]
FastForward(c, d) == IF <<c, d>> \in Precedes THEN d ELSE c
Mergeable(c, d) == c = d \/ <<c, d>> \in Precedes \/ <<d, c>> \in Precedes

Switch(a) ==
    LET b == updating[a].branch
        there == Checkout(b)
    IN
    /\ At(a, "switch")
    /\ \/ /\ Mergeable(there[b], tracking[b])
          /\ current' = b
          /\ local' = [there EXCEPT ![b] = FastForward(@, tracking[b])]
          /\ Advances(a, "build")
       \/ /\ current' = b /\ local' = there
          /\ Advances(a, "restore")
       \/ /\ UNCHANGED tree
          /\ Advances(a, "restore")
    /\ UNCHANGED <<github, tracking, built, running, scheduled, recorded, cutOff, unbuilt>>

(* cargo build, if it is wanted and its inputs have changed *)
Build(a) ==
    LET changed == SourceOf[updating[a].oldHead] # SourceOf[HeadCommit]
    IN
    /\ At(a, "build")
    /\ \/ /\ changed /\ updating[a].install
          /\ \/ built' = SourceOf[HeadCommit] /\ Advances(a, "record")
             \/ UNCHANGED built /\ Advances(a, "restore")
          /\ UNCHANGED unbuilt
       \/ /\ ~(changed /\ updating[a].install)
          /\ Advances(a, "record")
          /\ unbuilt' = (unbuilt \/ changed)
          /\ UNCHANGED built
    /\ UNCHANGED <<github, tracking, tree, running, scheduled, recorded, cutOff>>

(* restore: back to the branch, and the branch back to its commit.         *)
(* faults: the commit is reset, whatever branch is checked out             *)
FaultGoBack(u) ==
    /\ UNCHANGED current
    /\ local' = [local EXCEPT ![current] = u.oldHead]
GoBack(u) ==
    /\ current' = u.oldBranch
    /\ local' = [local EXCEPT ![u.oldBranch] = u.oldHead]

Restore(a) ==
    /\ At(a, "restore")
    /\ \/ GoBack(updating[a]) /\ UNCHANGED cutOff
       \/ UNCHANGED tree /\ cutOff' = TRUE
    /\ updating' = [updating EXCEPT ![a] = None]
    /\ UNCHANGED <<github, tracking, built, running, scheduled, recorded, unbuilt>>

Record(a) ==
    /\ At(a, "record")
    /\ recorded' = [branch |-> current, commit |-> HeadCommit]
    /\ scheduled' = (scheduled \/ updating[a].restart)
    /\ updating' = [updating EXCEPT ![a] = None]
    /\ UNCHANGED <<github, tracking, tree, built, running, cutOff, unbuilt>>

-----------------------------------------------------------------------------
(* restart *)
ScheduleRestart ==
    /\ ~scheduled
    /\ scheduled' = TRUE
    /\ UNCHANGED <<github, tracking, tree, built, running, updating, recorded, cutOff, unbuilt>>

(* restart_process: the program in target/release takes over, and          *)
(* remembers the commit it finds; an update under way ends where it is.    *)
Exec ==
    /\ scheduled
    /\ scheduled' = FALSE
    /\ \/ /\ running' = [from |-> built, commit |-> HeadCommit]
          /\ cutOff' = (cutOff \/ ~Unlocked)
          /\ updating' = [a \in Admins |-> None]
       \/ UNCHANGED <<running, cutOff, updating>>
    /\ UNCHANGED <<github, tracking, tree, built, recorded, unbuilt>>

UpdateNext ==
    \/ \E b \in Branches, c \in Commits : PushTo(b, c)
    \/ CheckRemote \/ ScheduleRestart \/ Exec
    \/ \E a \in Admins :
          \/ \E b \in Branches, install, restart \in BOOLEAN : BeginUpdate(a, b, install, restart)
          \/ Switch(a) \/ Build(a) \/ Restore(a) \/ Record(a)

UpdateSpec == UpdateInit /\ [][UpdateNext]_updateVars

-----------------------------------------------------------------------------
(* When no update is under way and none was cut off, the working tree is   *)
(* what the audit log says was installed, whatever was pushed, switched,   *)
(* merged or built in vain (update.rs apply, "Hibánál a tár az előző       *)
(* állapotban marad"); and if no build was declined, the program to be     *)
(* started next is that of the tree, and the running one too unless the    *)
(* status says that a restart is needed.                                   *)
UpdateIsWhole ==
    Unlocked /\ ~cutOff =>
        /\ recorded = [branch |-> current, commit |-> HeadCommit]
        /\ ~unbuilt => /\ built = SourceOf[HeadCommit]
                       /\ running.commit = HeadCommit => running.from = SourceOf[HeadCommit]
=============================================================================
