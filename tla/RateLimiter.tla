---------------------------- MODULE RateLimiter ----------------------------
(***************************************************************************)
(* The sliding-window limiter of HTTP requests by address and of socket    *)
(* events by connection (services/ratelimit.rs).  A check reads the limit  *)
(* under the lock, lets go of it, and counts under the lock again, so that *)
(* the admin's overrides and releases fall between the two.  Histories of  *)
(* addresses are pruned when there are many.  The clock is read between    *)
(* the two locks; here a call is counted within the instant of that reading.*)
(***************************************************************************)
EXTENDS Nothing, Integers, Sequences, FiniteSets, FiniteSetsExt

CONSTANTS
    Keys,             \* addresses (or connections)
    Limited,          \* the actions that have a limit
    DefaultLimit,     \* action -> [max, window]
    OverrideTables,   \* the tables of overrides the admin may set
    Callers,          \* checks that may run at the same time
    PruneThreshold,   \* IP_PRUNE_THRESHOLD
    MaxInstant,       \* bound: the clock
    MaxCalls          \* bound: calls accepted

LimitRecord == [max : Nat, window : Nat]
CallRecord == [key : Keys, action : Limited, limit : LimitRecord]

ASSUME LimiterAssumption ==
    /\ IsFiniteSet(Limited) /\ DefaultLimit \in [Limited -> LimitRecord]
    /\ \A table \in OverrideTables :
          IsFiniteSet(DOMAIN table) /\ \A a \in DOMAIN table : table[a] \in LimitRecord
    /\ None \notin CallRecord
    /\ None \notin [call : CallRecord, allowed : BOOLEAN, before : Seq(Nat)]
    /\ MaxInstant \in Nat /\ MaxCalls \in Nat /\ PruneThreshold \in Nat

VARIABLES
    instant,     \* util::now
    limitOverrides,   \* action -> [max, window], for the actions overridden
    stamps,      \* key -> action -> the accepted calls still remembered
    checking,    \* caller -> the call it makes and the limit it has read
    accepted,    \* history: key -> action -> every accepted call
    answer       \* history: the last verdict, with the call it was for

limiterVars == <<instant, limitOverrides, stamps, checking, accepted, answer>>

NoStamps == [k \in Keys |-> [a \in Limited |-> <<>>]]

LimiterInit ==
    /\ instant = 0
    /\ limitOverrides = <<>>
    /\ stamps = NoStamps
    /\ checking = [c \in Callers |-> None]
    /\ accepted = NoStamps
    /\ answer = None

LimitOf(a) == IF a \in DOMAIN limitOverrides THEN limitOverrides[a] ELSE DefaultLimit[a]

Recent(calls, window) == {i \in DOMAIN calls : instant - calls[i] < window}

(* trim: calls go from the front as long as they are too old.              *)
Trimmed(calls, window) ==
    IF Recent(calls, window) = {} THEN <<>>
    ELSE SubSeq(calls, Min(Recent(calls, window)), Len(calls))

-----------------------------------------------------------------------------
(* The first half of check_ip and check_socket: ip_limit, socket_limit.    *)
ReadLimit(c, k, a) ==
    /\ checking[c] = None
    /\ checking' = [checking EXCEPT ![c] = [key |-> k, action |-> a, limit |-> LimitOf(a)]]
    /\ answer' = None
    /\ UNCHANGED <<instant, limitOverrides, stamps, accepted>>

(* The pruning of check_ip: the histories with nothing in the longest      *)
(* window of the default limits and of the overrides are dropped.          *)
FaultKeepWindow(a) == LimitOf(a).window
KeepWindow(a) ==
    Max({DefaultLimit[b].window : b \in Limited} \cup {limitOverrides[b].window : b \in DOMAIN limitOverrides})

Remembered == {k \in Keys : \E a \in Limited : stamps[k][a] # <<>>}

Pruned(a) ==
    IF Cardinality(Remembered) <= PruneThreshold THEN stamps
    ELSE [k \in Keys |->
            IF \E b \in Limited : Recent(stamps[k][b], KeepWindow(a)) # {}
              THEN stamps[k] ELSE NoStamps[k]]

(* The second half: prune, trim, compare, remember.                        *)
CountCall(c) ==
    LET call == checking[c]
        limit == call.limit
        kept == Pruned(call.action)
        recent == Trimmed(kept[call.key][call.action], limit.window)
        allowed == Len(recent) < limit.max
    IN
    /\ call # None
    /\ stamps' = [kept EXCEPT ![call.key][call.action] =
                    IF allowed THEN Append(recent, instant) ELSE recent]
    /\ accepted' = IF allowed
                     THEN [accepted EXCEPT ![call.key][call.action] = Append(@, instant)]
                     ELSE accepted
    /\ answer' = [call |-> call, allowed |-> allowed,
                  before |-> accepted[call.key][call.action]]
    /\ checking' = [checking EXCEPT ![c] = None]
    /\ UNCHANGED <<instant, limitOverrides>>

(* set_overrides.                                                          *)
SetOverrides(table) ==
    /\ limitOverrides # table
    /\ limitOverrides' = table
    /\ answer' = None
    /\ UNCHANGED <<instant, stamps, checking, accepted>>

(* clear_ip, clear_sid: the calls made so far count no more.               *)
Clear(k) ==
    /\ \E a \in Limited : accepted[k][a] # <<>>
    /\ stamps' = [stamps EXCEPT ![k] = NoStamps[k]]
    /\ accepted' = [accepted EXCEPT ![k] = NoStamps[k]]
    /\ answer' = None
    /\ UNCHANGED <<instant, limitOverrides, checking>>

Pass ==
    /\ instant < MaxInstant
    /\ instant' = instant + 1
    /\ answer' = None
    /\ UNCHANGED <<limitOverrides, stamps, checking, accepted>>

Calls == MapThenSumSet(LAMBDA p : Len(accepted[p[1]][p[2]]), Keys \X Limited)

LimiterNext ==
    \/ Pass
    \/ \E c \in Callers :
          \/ \E k \in Keys, a \in Limited : Calls < MaxCalls /\ ReadLimit(c, k, a)
          \/ CountCall(c)
    \/ \E table \in OverrideTables : SetOverrides(table)
    \/ \E k \in Keys : Clear(k)

LimiterSpec == LimiterInit /\ [][LimiterNext]_limiterVars

-----------------------------------------------------------------------------
(* A call is refused only if the limit it was held to was used up within   *)
(* its window, and accepted only if it was not, counting the calls in the  *)
(* narrowest window this action may have: while a narrower window is in    *)
(* force, older calls are forgotten.  Pruning, trimming at another limit   *)
(* and a limit read before an override forget nothing else.                *)
NarrowestWindow(a) ==
    Min({DefaultLimit[a].window} \cup {t[a].window : t \in {u \in OverrideTables : a \in DOMAIN u}})

CallsWithin(calls, window) == Cardinality({i \in DOMAIN calls : instant - calls[i] < window})

RateIsKept ==
    answer # None =>
        LET limit == answer.call.limit
        IN IF answer.allowed
             THEN CallsWithin(answer.before, NarrowestWindow(answer.call.action)) < limit.max
             ELSE CallsWithin(answer.before, limit.window) >= limit.max
=============================================================================
