---------------------------- MODULE DailyPuzzle ----------------------------
(* The puzzle of the day: made at the first request (daily.rs), played in   *)
(* rooms of one player (extras.rs), scored and ranked in the database       *)
(* (db/misc.rs) and administered (admin/stats.rs).                          *)
(*                                                                          *)
(* A request looks for the puzzle, makes one if there is none and saves it; *)
(* other requests, of the same connection too, run between these steps.     *)
(* The handlers of a running puzzle hold the state's lock and are one step. *)
(*                                                                          *)
(* Abstractions.  A position stands for board, rack and bag; what can be    *)
(* scored in it is given, and so is what the search finds (it may miss the  *)
(* best move when its time is up, and so the same date may give different   *)
(* positions).  Feature switches and rate limits are left out.              *)
EXTENDS Nothing, Integers, Sequences, FiniteSets, FiniteSetsExt

CONSTANTS
  Players,      \* registered users
  Connections,
  PlayerOf,     \* the user of a connection, or None for a guest
  Requests,     \* how many start_daily run at a time
  MaxDate,
  Positions,
  ScoresIn,     \* per position: the scores its legal moves make
  FoundIn,      \* per position: the best score the search may find
  MaxEvents,
  SwapInPlay    \* may an administrator replace a puzzle being played?

Dates == 1 .. MaxDate
PuzzleRecord == [position : Positions, best : Nat, bestOn : Positions]
RequestRecord == [conn : Connections, date : Dates, at : {"look", "save", "open"}, made : PuzzleRecord \cup {None}]
PlayRecord == [date : Dates, position : Positions, over : BOOLEAN]

ASSUME DailyAssumption ==
  /\ MaxDate \in Nat \ {0} /\ MaxEvents \in Nat
  /\ \A c \in Connections : PlayerOf[c] \in Players \cup {None}
  /\ \A q \in Positions : ScoresIn[q] \subseteq Nat /\ FoundIn[q] \subseteq Nat
  /\ None \notin Players /\ None \notin PuzzleRecord /\ None \notin RequestRecord /\ None \notin PlayRecord

VARIABLES
  today,
  puzzles,      \* daily_puzzles
  entries,      \* daily_scores
  dailyBadges,  \* who has the achievement daily_best
  request,      \* start_daily handlers under way
  play,         \* the puzzle room of each connection
  events        \* history: what has happened to the rankings

dailyVars == <<today, puzzles, entries, dailyBadges, request, play, events>>

NoEntry == [best |-> 0, attempts |-> 0, revealed |-> FALSE, row |-> FALSE]

DailyInit ==
  /\ today = 1
  /\ puzzles = [d \in Dates |-> None]
  /\ entries = [d \in Dates |-> [u \in Players |-> NoEntry]] /\ dailyBadges = {}
  /\ request = [k \in Requests |-> None]
  /\ play = [c \in Connections |-> None] /\ events = <<>>

Happens(kind, u, d, score) ==
  /\ Len(events) < MaxEvents
  /\ events' = Append(events, [kind |-> kind, who |-> u, date |-> d, score |-> score])

-----------------------------------------------------------------------------
(* start_daily and ensure_puzzle *)

StartDaily(k, c) ==
  /\ request[k] = None /\ play[c] = None
  /\ request' = [request EXCEPT ![k] = [conn |-> c, date |-> today, at |-> "look", made |-> None]]
  /\ UNCHANGED <<today, puzzles, entries, dailyBadges, play, events>>

(* get_daily_puzzle; without one, generate_puzzle, which may fail *)
Look(k) ==
  /\ request[k] # None /\ request[k].at = "look"
  /\ LET p == puzzles[request[k].date]
     IN \/ p # None /\ request' = [request EXCEPT ![k].at = "open", ![k].made = p]
        \/ p = None /\ \E q \in Positions : \E b \in FoundIn[q] :
             /\ request' = [request EXCEPT ![k].at = "save", ![k].made = [position |-> q, best |-> b, bestOn |-> q]]
        \/ p = None /\ request' = [request EXCEPT ![k] = None]
  /\ UNCHANGED <<today, puzzles, entries, dailyBadges, play, events>>

(* faults: the later of two puzzles stays *)
FaultSavePuzzle(k) ==
  /\ request[k] # None /\ request[k].at = "save"
  /\ puzzles' = [puzzles EXCEPT ![request[k].date] = request[k].made]
  /\ request' = [request EXCEPT ![k].at = "look"]
  /\ UNCHANGED <<today, entries, dailyBadges, play, events>>

(* save_daily_puzzle: the first one stays, and is the one read back *)
SavePuzzle(k) ==
  /\ request[k] # None /\ request[k].at = "save"
  /\ puzzles' = [puzzles EXCEPT ![request[k].date] = IF @ = None THEN request[k].made ELSE @]
  /\ request' = [request EXCEPT ![k].at = "look"]
  /\ UNCHANGED <<today, entries, dailyBadges, play, events>>

(* the room, unless a second request has opened one *)
OpenDaily(k) ==
  /\ request[k] # None /\ request[k].at = "open"
  /\ LET r == request[k]
     IN play' = IF play[r.conn] # None THEN play
                ELSE [play EXCEPT ![r.conn] = [date |-> r.date, position |-> r.made.position, over |-> FALSE]]
  /\ request' = [request EXCEPT ![k] = None]
  /\ UNCHANGED <<today, puzzles, entries, dailyBadges, events>>

-----------------------------------------------------------------------------
(* Playing. *)

(* faults: a try counts whatever was shown before it *)
FaultRecorded(e, score) ==
  [e EXCEPT !.best = Max({score, e.best}), !.attempts = @ + 1, !.row = TRUE]

(* record_daily_score *)
Recorded(e, score) ==
  IF e.revealed THEN e
  ELSE [e EXCEPT !.best = Max({score, e.best}), !.attempts = @ + 1, !.row = TRUE]

(* raise_daily_best *)
Raised(p, score, q) ==
  IF score > p.best THEN [p EXCEPT !.best = score, !.bestOn = q] ELSE p

(* the placement of the puzzle's only turn, then finish_puzzle *)
Submit(c, score) ==
  /\ play[c] # None /\ ~play[c].over /\ score \in ScoresIn[play[c].position]
  /\ LET d == play[c].date
         u == PlayerOf[c]
         p == Raised(puzzles[d], score, play[c].position)
     IN /\ puzzles' = [puzzles EXCEPT ![d] = p]
        /\ IF u = None THEN UNCHANGED <<entries, dailyBadges>>
           ELSE /\ entries' = [entries EXCEPT ![d][u] = Recorded(@, score)]
                /\ dailyBadges' = IF ~entries[d][u].revealed /\ score >= Max({score, puzzles[d].best})
                                  THEN dailyBadges \cup {u} ELSE dailyBadges
        /\ Happens("submit", u, d, score)
  /\ play' = [play EXCEPT ![c].over = TRUE]
  /\ UNCHANGED <<today, request>>

RetryDaily(c) ==
  /\ play[c] # None /\ play[c].over
  /\ play' = [play EXCEPT ![c].over = FALSE, ![c].position = puzzles[play[c].date].position]
  /\ UNCHANGED <<today, puzzles, entries, dailyBadges, request, events>>

RevealDaily(c) ==
  /\ play[c] # None /\ PlayerOf[c] # None
  /\ LET d == play[c].date
     IN /\ entries' = [entries EXCEPT ![d][PlayerOf[c]] = [@ EXCEPT !.revealed = TRUE, !.row = TRUE]]
        /\ Happens("reveal", PlayerOf[c], d, 0)
  /\ UNCHANGED <<today, puzzles, dailyBadges, request, play>>

LeaveDaily(c) ==
  /\ play[c] # None /\ play' = [play EXCEPT ![c] = None]
  /\ UNCHANGED <<today, puzzles, entries, dailyBadges, request, events>>

NextDay ==
  /\ today < MaxDate /\ today' = today + 1
  /\ UNCHANGED <<puzzles, entries, dailyBadges, request, play, events>>

-----------------------------------------------------------------------------
(* The administrator. *)

InPlay(d) == \/ \E c \in Connections : play[c] # None /\ play[c].date = d
             \/ \E k \in Requests : request[k] # None /\ request[k].date = d

Regenerate(d, q, b, reset) ==
  /\ SwapInPlay \/ ~InPlay(d)
  /\ reset \/ \A u \in Players : entries[d][u].attempts = 0
  /\ puzzles' = [puzzles EXCEPT ![d] = [position |-> q, best |-> b, bestOn |-> q]]
  /\ IF reset THEN entries' = [entries EXCEPT ![d] = [u \in Players |-> NoEntry]] /\ Happens("drop", None, d, 0)
     ELSE UNCHANGED <<entries, events>>
  /\ UNCHANGED <<today, dailyBadges, request, play>>

DeleteScore(d, u) ==
  /\ d <= today /\ entries[d][u].row
  /\ entries' = [entries EXCEPT ![d][u] = NoEntry] /\ Happens("drop", u, d, 0)
  /\ UNCHANGED <<today, puzzles, dailyBadges, request, play>>

ResetRevealed(d, u) ==
  /\ d <= today /\ entries[d][u].revealed
  /\ entries' = [entries EXCEPT ![d][u].revealed = FALSE] /\ Happens("forgive", u, d, 0)
  /\ UNCHANGED <<today, puzzles, dailyBadges, request, play>>

DailyNext ==
  \/ \E k \in Requests : Look(k) \/ SavePuzzle(k) \/ OpenDaily(k) \/ \E c \in Connections : StartDaily(k, c)
  \/ \E c \in Connections :
       \/ RetryDaily(c) \/ RevealDaily(c) \/ LeaveDaily(c)
       \/ \E s \in UNION {ScoresIn[q] : q \in Positions} : Submit(c, s)
  \/ NextDay
  \/ \E d \in Dates : \/ \E q \in Positions, reset \in BOOLEAN : \E b \in FoundIn[q] : Regenerate(d, q, b, reset)
                      \/ \E u \in Players : DeleteScore(d, u) \/ ResetRevealed(d, u)

DailySpec == DailyInit /\ [][DailyNext]_dailyVars

-----------------------------------------------------------------------------
(* daily.rs:5 and :148 "az először mentett marad", db/misc.rs:191 "minden-  *)
(* kinek ugyanaz": everybody plays the stored position of the date, the     *)
(* stored best move is one of that position, and nobody is ranked above it. *)
OnePuzzleADay ==
  /\ \A c \in Connections : play[c] # None =>
       /\ puzzles[play[c].date] # None
       /\ play[c].position = puzzles[play[c].date].position
  /\ \A d \in Dates : puzzles[d] # None =>
       /\ puzzles[d].bestOn = puzzles[d].position
       /\ \A u \in Players : entries[d][u].best <= puzzles[d].best

(* the tries of u on d that count: after the last deletion, and made while  *)
(* the solution had not been shown to u                                     *)
About(i, u, d) == events[i].date = d /\ events[i].who \in {u, None} /\ events[i].kind # "submit"
Shown(i, u, d) ==
  LET before == {j \in 1 .. i - 1 : About(j, u, d)}
  IN before # {} /\ events[Max(before)].kind = "reveal"
Counting(u, d) ==
  {i \in DOMAIN events :
     /\ events[i].kind = "submit" /\ events[i].who = u /\ events[i].date = d /\ ~Shown(i, u, d)
     /\ \A j \in i + 1 .. Len(events) : About(j, u, d) => events[j].kind # "drop"}

(* db/misc.rs:214 "a legjobb pontszám számít; ha valaki a megoldást meg-    *)
(* nézte, további próbálkozása már nem kerül a ranglistára": the ranking is *)
(* that of the tries that count, whatever connections they came from.       *)
RankedByOwnTries ==
  \A d \in Dates, u \in Players :
    LET counting == Counting(u, d)
    IN /\ entries[d][u].attempts = Cardinality(counting)
       /\ entries[d][u].best = Max({0} \cup {events[i].score : i \in counting})
=============================================================================
