----------------------------- MODULE MCServices -----------------------------
(* The server's smaller parts, each of which shares no state with the       *)
(* others: a behaviour is one of a single part, the rest stays as it is.    *)
EXTENDS WordLists, DailyPuzzle, MoveSearch, Affix, Registration, Presence,
        AdminSession, RateLimiter, Community, SystemUpdate, AnalysisJobs, SettingsCache

VARIABLE part

-----------------------------------------------------------------------------
(* The word review, the daily puzzle, the settings: see Services.cfg.       *)
CONSTANTS user, c1, c2, c3, position1, position2
DailyPlayer == (c1 :> user) @@ (c2 :> user) @@ (c3 :> None)
DailyScores == (position1 :> {1, 2}) @@ (position2 :> {1})
DailyFinds == (position1 :> {1, 2}) @@ (position2 :> {1})
\* The user plays on two connections, two events on the first day or one on
\* the second; beside a guest there is one event.
Idles(c) == play[c] = None /\ \A r \in Requests : request[r] # None => request[r].conn # c
FewEvents ==
  /\ Len(events) + (today - 1) <= 2
  /\ Idles(c3) \/ (Idles(c2) /\ today = 1 /\ Len(events) <= 1)

\* Commit 1 follows commit 0; both change what is built.
History == {<<0, 1>>}
Sources == [c \in {0, 1} |-> c]

Limits == [a \in Limited |-> IF a = "login" THEN [max |-> 1, window |-> 3] ELSE [max |-> 1, window |-> 1]]
Overrides == {<<>>, [a \in {"login"} |-> [max |-> 2, window |-> 2]]}

-----------------------------------------------------------------------------
(* The board: a digraph that can also be spelled with two tiles.            *)
CONSTANTS tS, tZ, tSZ, tZS, tA, S, Z, A
BoardCentre == <<2, 2>>
TileText == tS :> <<S>> @@ tZ :> <<Z>> @@ tSZ :> <<S, Z>> @@ tZS :> <<Z, S>> @@ tA :> <<A>>
TileWorth == tS :> 1 @@ tZ :> 4 @@ tSZ :> 3 @@ tZS :> 8 @@ tA :> 1
BoardPremiums == [sq \in Squares |-> [letter |-> IF sq \in {<<1, 2>>, <<2, 1>>} THEN 2 ELSE 1,
                                      word |-> IF sq \in {<<1, 1>>, <<2, 2>>} THEN 2 ELSE 1]]
BotWords == {<<A, S, Z>>, <<S, Z, A>>, <<A, Z>>, <<S, Z, S>>}
FurtherWords == {<<A, S>>}
HandOf(f) == [t \in Hand |-> IF t \in DOMAIN f THEN f[t] ELSE 0]
DealtRacks == {HandOf(tS :> 1 @@ tZ :> 1 @@ tA :> 1), HandOf(tSZ :> 1 @@ tA :> 1 @@ Blank :> 1),
               HandOf(tSZ :> 1 @@ tS :> 1 @@ tZS :> 1)}

-----------------------------------------------------------------------------
(* The affixes: two stems with a vowel that lengthens, a compound part, a   *)
(* forbidden form, a stem that needs an affix; endings that go on ordinary  *)
(* stems, after one another and with a prefix.                              *)
CONSTANTS chA, chK, chB, chL, fA, fB, fP, fU, fF, fO
Characters == {chA, chK, chB, chL}
Entry(w, flags, kind) == [word |-> w, flags |-> flags, kind |-> kind]
Dic == {Entry(<<chK, chA>>, {fA, fP}, {}), Entry(<<chB, chA>>, {fB}, {"adj"}), Entry(<<chK>>, {fU, fA, fB}, {}),
        Entry(<<chB, chK>>, {fF}, {}), Entry(<<chK, chB>>, {fB}, {"foreign"}), Entry(<<chB, chA>>, {fA}, {}),
        Entry(<<chK, chB, chA>>, {fA, fB}, {"adj"}), Entry(<<chK, chK>>, {fO, fA}, {})}
Rule(flag, cross, strip, add, cont, cond, marks, derives) ==
  [flag |-> flag, cross |-> cross, strip |-> strip, add |-> add, cont |-> cont, cond |-> cond,
   marks |-> marks, derives |-> derives]
Endings == {Rule(fA, TRUE, <<>>, <<chK>>, {}, <<>>, {}, "none"),
             Rule(fB, TRUE, <<chA>>, <<chL, chK>>, {fA, fP}, <<{chA}>>, {"POSS"}, "none"),
             Rule(fB, FALSE, <<>>, <<chB>>, {fA, fU}, <<Characters \ {chK}>>, {}, "adj"),
             Rule(fA, TRUE, <<chA>>, <<chB>>, {fO}, <<>>, {"ESS"}, "none"),
             Rule(fA, TRUE, <<>>, <<chA>>, {fB}, <<{chK}>>, {"ESS"}, "none")}
Beginnings == {Rule(fP, TRUE, <<>>, <<chB>>, {}, <<{chK}>>, {}, "none"),
             Rule(fP, TRUE, <<chK>>, <<chA>>, {fU, fB}, <<>>, {}, "none")}
LookedUp == UNION {[1..n -> Characters] : n \in 1..5}
InUse == {w \in LookedUp : w[1] = chK /\ w[Len(w)] = chK} \cup {<<chB, chK, chL, chK>>}
BotEndings == {<<chK>>, <<chA>>, <<chB>>}
Lengthening == {[short |-> chA, long |-> chL]}

-----------------------------------------------------------------------------
servicesVars == <<part, wordVars, dailyVars, searchVars, affixVars, registrationVars, presenceVars,
                  adminVars, limiterVars, communityVars, updateVars, analysisVars, settingsVars>>

Parts == {"words", "daily", "search", "affix", "registration", "presence", "admin", "limiter",
          "community", "update", "analysis", "settings"}

Init ==
  /\ part \in Parts
  /\ WordsInit /\ DailyInit /\ SearchInit /\ AffixInit /\ RegistrationInit /\ PresenceInit
  /\ AdminInit /\ LimiterInit /\ CommunityInit /\ UpdateInit /\ AnalysisInit /\ SettingsInit

Next ==
  /\ UNCHANGED part
  /\ IF part = "words" THEN WordsNext ELSE UNCHANGED wordVars
  /\ IF part = "daily" THEN DailyNext ELSE UNCHANGED dailyVars
  /\ IF part = "search" THEN SearchNext ELSE UNCHANGED searchVars
  /\ IF part = "affix" THEN AffixNext ELSE UNCHANGED affixVars
  /\ IF part = "registration" THEN RegistrationNext ELSE UNCHANGED registrationVars
  /\ IF part = "presence" THEN PresenceNext ELSE UNCHANGED presenceVars
  /\ IF part = "admin" THEN AdminNext ELSE UNCHANGED adminVars
  /\ IF part = "limiter" THEN LimiterNext ELSE UNCHANGED limiterVars
  /\ IF part = "community" THEN CommunityNext ELSE UNCHANGED communityVars
  /\ IF part = "update" THEN UpdateNext ELSE UNCHANGED updateVars
  /\ IF part = "analysis" THEN AnalysisNext ELSE UNCHANGED analysisVars
  /\ IF part = "settings" THEN SettingsNext ELSE UNCHANGED settingsVars

Spec == Init /\ [][Next]_servicesVars
=============================================================================
