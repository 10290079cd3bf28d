---------------------------- MODULE SettingsCache ----------------------------
(***************************************************************************)
(* The settings an administrator changes while the server runs             *)
(* (settings.rs): the rows of app_settings, the cached copy every reader   *)
(* uses, and the limits the rate limiter has been given (app.rs            *)
(* apply_runtime_settings).                                                *)
(*                                                                         *)
(* A reader that finds the cache not loaded reads all rows and then puts   *)
(* them into the cache; a change is a transaction and, later, the          *)
(* invalidation of the cache.  No lock is held between such steps.  The    *)
(* checks of single values (validate) are abstracted to the set of values. *)
(***************************************************************************)
EXTENDS Nothing, Integers

CONSTANTS
    Values,       \* of a setting; one of them is its default
    DefaultValue,
    Readers,      \* handlers that read a setting
    Changers,     \* requests of administrators that may run at the same time
    Overtake      \* may a change be stored while a value read before it is on its way?

RowRecord == [limits : Values, maintenance : Values]

ASSUME SettingsAssumption == DefaultValue \in Values /\ None \notin RowRecord

VARIABLES
    rows,         \* app_settings: the rate limits and the maintenance mode
    copy,         \* the cache: loaded, and the values
    limits,       \* the limits in force
    reading,      \* reader -> the rows it has read, or None
    changing      \* changer -> its next step and what it has read

settingsVars == <<rows, copy, limits, reading, changing>>

Done == [next |-> "done", read |-> None]

SettingsInit ==
    /\ rows = [limits |-> DefaultValue, maintenance |-> DefaultValue]
    /\ copy = [loaded |-> TRUE, values |-> rows]
    /\ limits = rows.limits
    /\ reading = [r \in Readers |-> None]
    /\ changing = [c \in Changers |-> Done]

AtRest == /\ \A r \in Readers : reading[r] = None
          /\ \A c \in Changers : changing[c] = Done

\* somebody has read a value and not yet put it where it goes, or is about
\* to read the limits back
Carried == \/ \E r \in Readers : reading[r] # None
           \/ \E c \in Changers : changing[c].next \in {"get", "fillGet", "fillView", "set"}

Goes(c, step, read) == changing' = [changing EXCEPT ![c] = [next |-> step, read |-> read]]
Stored(read) == [loaded |-> TRUE, values |-> read]

-----------------------------------------------------------------------------
(* get, is_overridden, describe: load, when it has to. *)
ReadRows(r) ==
    /\ reading[r] = None /\ ~copy.loaded
    /\ reading' = [reading EXCEPT ![r] = rows]
    /\ UNCHANGED <<rows, copy, limits, changing>>

FillCopy(r) ==
    /\ reading[r] # None
    /\ copy' = Stored(reading[r])
    /\ reading' = [reading EXCEPT ![r] = None]
    /\ UNCHANGED <<rows, limits, changing>>

-----------------------------------------------------------------------------
(* settings_update and set_maintenance: store, a null value restoring the  *)
(* default.                                                                *)
(* faults: the maintenance mode is not announced *)
FaultAnnounced(key) == key = "limits"
Announced(key) == key \in {"limits", "maintenance"}

Store(c, key, value) ==
    /\ changing[c] = Done /\ (Overtake \/ ~Carried)
    /\ rows' = [rows EXCEPT ![key] = value]
    /\ IF Announced(key) THEN Goes(c, "invalidate", key) ELSE UNCHANGED changing
    /\ UNCHANGED <<copy, limits, reading>>

(* invalidate; the limits go on to the limiter, maintenance is only read.  *)
Invalidate(c) ==
    /\ changing[c].next = "invalidate"
    /\ copy' = [copy EXCEPT !.loaded = FALSE]
    /\ Goes(c, IF changing[c].read = "limits" THEN "get" ELSE "view", None)
    /\ UNCHANGED <<rows, limits, reading>>

(* The changer reads its setting back: the cached one, or it loads it. *)
GetCached(c) ==
    /\ changing[c].next \in {"get", "view"} /\ copy.loaded
    /\ IF changing[c].next = "get" THEN Goes(c, "set", copy.values.limits)
       ELSE changing' = [changing EXCEPT ![c] = Done]
    /\ UNCHANGED <<rows, copy, limits, reading>>

LoadOwn(c) ==
    /\ changing[c].next \in {"get", "view"} /\ ~copy.loaded
    /\ Goes(c, IF changing[c].next = "get" THEN "fillGet" ELSE "fillView", rows)
    /\ UNCHANGED <<rows, copy, limits, reading>>

FillOwn(c) ==
    /\ changing[c].next \in {"fillGet", "fillView"}
    /\ copy' = Stored(changing[c].read)
    /\ Goes(c, IF changing[c].next = "fillGet" THEN "get" ELSE "view", None)
    /\ UNCHANGED <<rows, limits, reading>>

SetLimits(c) ==
    /\ changing[c].next = "set"
    /\ limits' = changing[c].read
    /\ changing' = [changing EXCEPT ![c] = Done]
    /\ UNCHANGED <<rows, copy, reading>>

(* The server starts: nothing is loaded, then the limits are set. *)
RestartSettings ==
    /\ copy' = Stored(rows) /\ limits' = rows.limits
    /\ reading' = [r \in Readers |-> None]
    /\ changing' = [c \in Changers |-> Done]
    /\ UNCHANGED rows

SettingsNext ==
    \/ \E r \in Readers : ReadRows(r) \/ FillCopy(r)
    \/ \E c \in Changers :
          \/ \E key \in {"limits", "maintenance"}, value \in Values : Store(c, key, value)
          \/ Invalidate(c) \/ GetCached(c) \/ LoadOwn(c) \/ FillOwn(c) \/ SetLimits(c)
    \/ RestartSettings

SettingsSpec == SettingsInit /\ [][SettingsNext]_settingsVars

-----------------------------------------------------------------------------
(* docs/ADMIN_PANEL.md:521 "futásidőben módosíthatók, újraindítás nélkül   *)
(* hatnak": once nobody is at work on the settings, what readers get and   *)
(* what the limiter enforces is what is stored, whatever changes and loads *)
(* crossed.  It holds as long as no change is stored while a value read    *)
(* before it is on its way to the cache or to the limiter.                 *)
SettingsInForce ==
    AtRest => /\ copy.loaded => copy.values = rows
              /\ limits = rows.limits
=============================================================================
