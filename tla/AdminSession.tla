---------------------------- MODULE AdminSession ----------------------------
(***************************************************************************)
(* The admin panel's session (admin/session.rs, admin/routes.rs): it falls *)
(* asleep when no admin request came for a while and then wants the        *)
(* password again, and dangerous requests want a password given lately     *)
(* (sudo mode).                                                            *)
(*                                                                         *)
(* The guard of a request reads the session, and writes the time of the    *)
(* last request later, in another transaction and not at every request;    *)
(* the request's handler runs later still.  One session of one admin.      *)
(***************************************************************************)
EXTENDS Nothing, Integers

CONSTANTS
    AdminRequests,   \* requests that may run at the same time
    IdleLimit,       \* admin_session_idle_minutes
    SudoLimit,       \* admin_sudo_minutes
    TouchInterval,   \* TOUCH_INTERVAL_SECONDS
    MaxTime          \* bound: the clock

ASSUME AdminAssumption ==
    /\ IdleLimit \in Nat /\ SudoLimit \in Nat /\ TouchInterval \in Nat \ {0}
    /\ None \notin Nat

VARIABLES
    clock,       \* util::utcnow
    seenAt,      \* sessions.admin_seen_at
    sudoUntil,   \* sessions.sudo_until, or None
    guarded,     \* request -> where it is, and the seenAt it has read
    activeAt,    \* history: when the guard was last through with a request
    lapsed,      \* history: the admin was idle too long, no password since
    sudoAt,      \* history: when the password was given for sudo mode
    outcome      \* history: what the last step let happen

adminVars == <<clock, seenAt, sudoUntil, guarded, activeAt, lapsed, sudoAt, outcome>>

Outside == [at |-> "outside", seen |-> None]

(* A login touches the session.                                            *)
AdminInit ==
    /\ clock = 0
    /\ seenAt = 0
    /\ sudoUntil = None
    /\ guarded = [r \in AdminRequests |-> Outside]
    /\ activeAt = 0
    /\ lapsed = FALSE
    /\ sudoAt = None
    /\ outcome = "none"

(* session_status: sudo mode does not outlive the idle limit.              *)
IdleExpired == clock - seenAt >= IdleLimit
SudoActive == ~IdleExpired /\ sudoUntil # None /\ sudoUntil > clock

AtTheDoor == \A r \in AdminRequests : guarded[r] = Outside

Tick ==
    /\ clock < MaxTime
    /\ clock' = clock + 1
    /\ lapsed' = (lapsed \/ (AtTheDoor /\ clock' - activeAt >= IdleLimit))
    /\ outcome' = "none"
    /\ UNCHANGED <<seenAt, sudoUntil, guarded, activeAt, sudoAt>>

-----------------------------------------------------------------------------
(* check_request, its fifth step: the status is read.                      *)
LetIn(r) ==
    /\ guarded[r] = Outside
    /\ ~IdleExpired
    /\ guarded' = [guarded EXCEPT ![r] = [at |-> "touch", seen |-> seenAt]]
    /\ outcome' = "admitted"
    /\ UNCHANGED <<clock, seenAt, sudoUntil, activeAt, lapsed, sudoAt>>

TurnAway(r) ==
    /\ guarded[r] = Outside
    /\ IdleExpired
    /\ outcome' = "refused"
    /\ UNCHANGED <<clock, seenAt, sudoUntil, guarded, activeAt, lapsed, sudoAt>>

(* touch: with the status read before, rarely written.                     *)
FaultTouched(seen) == IF clock - seen < IdleLimit THEN seenAt ELSE clock
Touched(seen) == IF clock - seen < TouchInterval THEN seenAt ELSE clock

Touch(r) ==
    /\ guarded[r].at = "touch"
    /\ seenAt' = Touched(guarded[r].seen)
    /\ guarded' = [guarded EXCEPT ![r] = [at |-> "run", seen |-> None]]
    /\ activeAt' = clock
    /\ outcome' = "none"
    /\ UNCHANGED <<clock, sudoUntil, lapsed, sudoAt>>

(* run: the handler of an ordinary request, or of one that wants sudo mode *)
(* and does not find it.                                                   *)
Leave(r) ==
    /\ guarded[r].at = "run"
    /\ guarded' = [guarded EXCEPT ![r] = Outside]
    /\ outcome' = "none"
    /\ UNCHANGED <<clock, seenAt, sudoUntil, activeAt, lapsed, sudoAt>>

RunSudo(r) ==
    /\ guarded[r].at = "run"
    /\ SudoActive
    /\ guarded' = [guarded EXCEPT ![r] = Outside]
    /\ outcome' = "sudo"
    /\ UNCHANGED <<clock, seenAt, sudoUntil, activeAt, lapsed, sudoAt>>

(* sudo_start, the password being right; sudo_end.                         *)
GrantSudo(r) ==
    /\ guarded[r].at = "run"
    /\ sudoUntil' = clock + SudoLimit
    /\ seenAt' = clock
    /\ guarded' = [guarded EXCEPT ![r] = Outside]
    /\ activeAt' = clock
    /\ lapsed' = FALSE
    /\ sudoAt' = clock
    /\ outcome' = "none"
    /\ UNCHANGED clock

EndSudo(r) ==
    /\ guarded[r].at = "run"
    /\ sudoUntil' = None
    /\ seenAt' = clock
    /\ guarded' = [guarded EXCEPT ![r] = Outside]
    /\ activeAt' = clock
    /\ sudoAt' = None
    /\ outcome' = "none"
    /\ UNCHANGED <<clock, lapsed>>

(* reauth, which the guard exempts: the clock restarts, sudo mode ends.    *)
SudoAfterReauth == None

Reauth ==
    /\ seenAt' = clock
    /\ sudoUntil' = SudoAfterReauth
    /\ activeAt' = clock
    /\ lapsed' = FALSE
    /\ sudoAt' = None
    /\ outcome' = "none"
    /\ UNCHANGED <<clock, guarded>>

AdminNext ==
    \/ Tick
    \/ Reauth
    \/ \E r \in AdminRequests :
          \/ LetIn(r) \/ TurnAway(r) \/ Touch(r) \/ Leave(r)
          \/ RunSudo(r) \/ GrantSudo(r) \/ EndSudo(r)

AdminSpec == AdminInit /\ [][AdminNext]_adminVars

-----------------------------------------------------------------------------
(* However requests overlap with the reads and the rare writes of others:  *)
(* none is let in after the admin was idle for the whole limit, none is    *)
(* turned away although one came within the limit less the interval of the *)
(* writes, and a dangerous request runs only within SudoLimit of a         *)
(* password, with no idle limit passed since (session.rs, "Tétlenség után  *)
(* a sudo sem él").                                                        *)
PasswordIsFresh ==
    /\ outcome = "admitted" => ~lapsed
    /\ outcome = "refused" => clock - activeAt > IdleLimit - TouchInterval
    /\ outcome = "sudo" => ~lapsed /\ sudoAt # None /\ clock - sudoAt < SudoLimit
=============================================================================
