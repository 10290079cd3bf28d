----------------------------- MODULE WordLists -----------------------------
(* Which words the game accepts: the votes of the word review               *)
(* (word_review.rs), the administrator's lists (admin/dict.rs, the file     *)
(* hu_rejected.txt), the copies of both that the dictionary keeps in memory *)
(* (dictionary.rs), its cache of answers and the cached list of short words *)
(* (practice.rs).                                                           *)
(*                                                                          *)
(* A handler makes several steps: each database transaction, each read or   *)
(* write of the file and each change of the lists in memory is a step, and  *)
(* nothing holds a lock from one to the next.                               *)
(*                                                                          *)
(* Abstractions.  Every word can be laid on the board and has a vowel; the  *)
(* affix checker knows the words of Known.  The version number is only ever *)
(* compared with itself: "current" says that it has not moved since.  The   *)
(* change of a list, of the version and of the cache is one step.           *)
EXTENDS Nothing, Integers, FiniteSets

CONSTANTS
  Words,
  Known,       \* the words the affix checker accepts
  Overridden, Added, Listed,   \* the words an administrator touches
  Reviewers,
  Thresholds,  \* settings of word_reject_threshold
  Handlers,    \* how many run at a time
  Overlap      \* may two handlers about the same word overlap?

ASSUME WordsAssumption ==
  /\ Words # {} /\ Overridden \cup Added \cup Listed \subseteq Words
  /\ Thresholds \subseteq Nat \ {0}
  /\ None \notin BOOLEAN /\ None \notin {"good", "bad", "allow", "reject"}

VARIABLES
  votes, blocked, threshold, overrides, additions,   \* the database
  listFile,    \* hu_rejected.txt
  lists,       \* LISTS
  cache,       \* VALID_CACHE
  shortList,   \* SHORT_CACHE
  work         \* what each handler does next

database == <<votes, blocked, threshold, overrides, additions>>
memory == <<lists, cache, shortList>>
wordVars == <<database, listFile, memory, work>>

Idle == [next |-> "idle", about |-> {}]
EmptyCache == [w \in Words |-> None]
NoShortList == [words |-> None, current |-> FALSE]

WordsInit ==
  /\ votes = [u \in Reviewers |-> [w \in Words |-> None]] /\ blocked = {}
  /\ threshold \in Thresholds
  /\ overrides = [w \in Words |-> None] /\ additions = {} /\ listFile = {}
  /\ lists = [listed |-> {}, voted |-> {}, allow |-> {}, reject |-> {}, added |-> {}]
  /\ cache = EmptyCache /\ shortList = NoShortList
  /\ work = [h \in Handlers |-> Idle]

-----------------------------------------------------------------------------
(* lookup_with *)
Accepts(l, w) ==
  /\ w \notin l.reject
  /\ w \in l.allow \/ w \notin l.listed \cup l.voted
  /\ w \in l.added \cup Known

(* is_word_valid: the cached answer, or a new one *)
Valid(w) == IF cache[w] # None THEN cache[w] ELSE Accepts(lists, w)

(* get_word_review_votes and get_voted_rejected_words: blocked reviewers'   *)
(* votes do not count                                                       *)
VotesFor(w, verdict) == Cardinality({u \in Reviewers \ blocked : votes[u][w] = verdict})
VotedOut(w) == /\ \E u \in Reviewers \ blocked : votes[u][w] # None
               /\ VotesFor(w, "bad") - VotesFor(w, "good") >= threshold
AdminLists == [allow |-> {w \in Words : overrides[w] = "allow"},
               reject |-> {w \in Words : overrides[w] = "reject"}, added |-> additions]

(* what the database and the file say now *)
ListsNow == [listed |-> listFile, voted |-> {w \in Words : VotedOut(w)}, allow |-> AdminLists.allow,
             reject |-> AdminLists.reject, added |-> AdminLists.added]

(* faults: a single word's answer stays in the cache *)
FaultRelist(l, dropped) ==
  /\ lists' = l
  /\ cache' = IF dropped = Words THEN EmptyCache ELSE cache
  /\ shortList' = [shortList EXCEPT !.current = FALSE]

(* the lists change, the version moves on, `dropped` leave the cache *)
Relist(l, dropped) ==
  /\ lists' = l
  /\ cache' = [w \in Words |-> IF w \in dropped THEN None ELSE cache[w]]
  /\ shortList' = [shortList EXCEPT !.current = FALSE]

(* a handler begins; what another handler has read does not change under it *)
(* unless they overlap                                                      *)
MayBegin(h, about) ==
  /\ work[h] = Idle
  /\ Overlap \/ \A k \in Handlers : work[k].about \cap about = {}
ThenDoes(h, next) == work' = [work EXCEPT ![h] = next]
Outdated(w) == [h \in Handlers |-> IF w[h].next = "store" THEN [w[h] EXCEPT !.current = FALSE] ELSE w[h]]
Begins(h, next, about) == ThenDoes(h, [next |-> next, about |-> about])

-----------------------------------------------------------------------------
(* The word review. *)

Vote(h, u, w, verdict) ==
  /\ MayBegin(h, {w}) /\ u \notin blocked
  /\ cache' = [cache EXCEPT ![w] = Valid(w)]
  /\ IF Valid(w)
     THEN votes' = [votes EXCEPT ![u][w] = verdict] /\ Begins(h, "count", {w})
     ELSE UNCHANGED <<votes, work>>
  /\ UNCHANGED <<blocked, threshold, overrides, additions, listFile, lists, shortList>>

Undo(h, u, w) ==
  /\ MayBegin(h, {w}) /\ u \notin blocked /\ votes[u][w] # None
  /\ votes' = [votes EXCEPT ![u][w] = None] /\ Begins(h, "count", {w})
  /\ UNCHANGED <<blocked, threshold, overrides, additions, listFile, memory>>

(* apply: count the votes, *)
CountVotes(h) ==
  /\ work[h].next = "count"
  /\ \E w \in work[h].about :
       ThenDoes(h, [next |-> "mark", about |-> {w},
                out |-> VotesFor(w, "bad") - VotesFor(w, "good") >= threshold])
  /\ UNCHANGED <<database, listFile, memory>>

(* then mark_voted_rejected: the version moves only if the word changes *)
MarkVoted(h) ==
  /\ work[h].next = "mark"
  /\ LET w == CHOOSE x \in work[h].about : TRUE
         voted == IF work[h].out THEN lists.voted \cup {w} ELSE lists.voted \ {w}
     IN IF voted = lists.voted
        THEN UNCHANGED memory /\ ThenDoes(h, Idle)
        ELSE Relist([lists EXCEPT !.voted = voted], {w}) /\ work' = [Outdated(work) EXCEPT ![h] = Idle]
  /\ UNCHANGED <<database, listFile>>

-----------------------------------------------------------------------------
(* refresh, after an administrator's change: read the votes, replace the    *)
(* list; read the overrides, replace the lists.                             *)

Change(h, next) == MayBegin(h, Words) /\ Begins(h, next, Words) /\ UNCHANGED <<listFile, memory>>

SetThreshold(h, t) ==
  /\ Change(h, "voted") /\ threshold' = t
  /\ UNCHANGED <<votes, blocked, overrides, additions>>

SetReviewBlocked(h, u) ==
  /\ Change(h, "voted")
  /\ blocked' = IF u \in blocked THEN blocked \ {u} ELSE blocked \cup {u}
  /\ UNCHANGED <<votes, threshold, overrides, additions>>

RevertReviews(h, u, ws) ==
  /\ Change(h, "voted")
  /\ votes' = [votes EXCEPT ![u] = [w \in Words |-> IF w \in ws THEN None ELSE @[w]]]
  /\ UNCHANGED <<blocked, threshold, overrides, additions>>

(* faults: the lists are not refreshed *)
FaultDeleteVotes(h, w) ==
  /\ \E u \in Reviewers : votes[u][w] # None
  /\ votes' = [u \in Reviewers |-> [votes[u] EXCEPT ![w] = None]]
  /\ MayBegin(h, Words)
  /\ UNCHANGED <<blocked, threshold, overrides, additions, listFile, memory, work>>

DeleteVotes(h, w) ==
  /\ Change(h, "voted")
  /\ \E u \in Reviewers : votes[u][w] # None
  /\ votes' = [u \in Reviewers |-> [votes[u] EXCEPT ![w] = None]]
  /\ UNCHANGED <<blocked, threshold, overrides, additions>>

SetOverride(h, w, verdict) ==
  /\ Change(h, "lists") /\ (verdict = "allow" => w \in Known)
  /\ overrides' = [overrides EXCEPT ![w] = verdict]
  /\ UNCHANGED <<votes, blocked, threshold, additions>>

RemoveOverride(h, w) ==
  /\ Change(h, "lists") /\ overrides[w] # None
  /\ overrides' = [overrides EXCEPT ![w] = None]
  /\ UNCHANGED <<votes, blocked, threshold, additions>>

AddAddition(h, w) ==
  /\ Change(h, "lists") /\ w \notin additions /\ additions' = additions \cup {w}
  /\ UNCHANGED <<votes, blocked, threshold, overrides>>

RemoveAddition(h, w) ==
  /\ Change(h, "lists") /\ w \in additions /\ additions' = additions \ {w}
  /\ UNCHANGED <<votes, blocked, threshold, overrides>>

ReadVoted(h) ==
  /\ work[h].next = "voted"
  /\ ThenDoes(h, [next |-> "setVoted", about |-> Words, read |-> {w \in Words : VotedOut(w)}])
  /\ UNCHANGED <<database, listFile, memory>>

SetVoted(h) ==
  /\ work[h].next = "setVoted"
  /\ Relist([lists EXCEPT !.voted = work[h].read], Words)
  /\ work' = [Outdated(work) EXCEPT ![h] = [next |-> "lists", about |-> Words]]
  /\ UNCHANGED <<database, listFile>>

ReadLists(h) ==
  /\ work[h].next = "lists"
  /\ ThenDoes(h, [next |-> "setLists", about |-> Words, read |-> AdminLists])
  /\ UNCHANGED <<database, listFile, memory>>

SetLists(h) ==
  /\ work[h].next = "setLists"
  /\ LET r == work[h].read
     IN Relist([lists EXCEPT !.allow = r.allow, !.reject = r.reject, !.added = r.added], Words)
  /\ work' = [Outdated(work) EXCEPT ![h] = Idle]
  /\ UNCHANGED <<database, listFile>>

-----------------------------------------------------------------------------
(* The file of rejected words: it is read whole and written whole.          *)

(* add_rejected: the words of `ws` that are valid now and not yet listed *)
AddRejected(h, ws) ==
  /\ MayBegin(h, Words)
  /\ LET new == {w \in ws \ lists.listed : Valid(w)}
     IN new # {} /\ ThenDoes(h, [next |-> "write", about |-> Words, before |-> listFile, after |-> listFile \cup new])
  /\ cache' = [w \in Words |-> IF w \in ws \ lists.listed THEN Valid(w) ELSE cache[w]]
  /\ UNCHANGED <<database, listFile, lists, shortList>>

(* export_votes: the words voted out, valid or not *)
ExportVotes(h) ==
  /\ MayBegin(h, Words)
  /\ LET new == lists.voted \ (lists.allow \cup lists.listed)
     IN new # {} /\ ThenDoes(h, [next |-> "write", about |-> Words, before |-> listFile, after |-> listFile \cup new])
  /\ UNCHANGED <<database, listFile, memory>>

RemoveRejected(h, ws) ==
  /\ MayBegin(h, Words) /\ ws \cap lists.listed # {}
  /\ ThenDoes(h, [next |-> "write", about |-> Words, before |-> listFile, after |-> listFile \ ws])
  /\ UNCHANGED <<database, listFile, memory>>

(* the write and its audit entry, or the old contents put back *)
WriteList(h) ==
  /\ work[h].next = "write"
  /\ listFile' \in {work[h].after, work[h].before}
  /\ Begins(h, "reload", Words)
  /\ UNCHANGED <<database, memory>>

ReloadRejected(h) ==
  /\ work[h].next = "reload"
  /\ Relist([lists EXCEPT !.listed = listFile], Words)
  /\ work' = [Outdated(work) EXCEPT ![h] = Idle]
  /\ UNCHANGED <<database, listFile>>

-----------------------------------------------------------------------------
(* Questions.  filter_valid: answers are looked up without the cache's lock *)
(* and put into the cache afterwards; short_words remembers the version     *)
(* from before.                                                             *)

Ask(h, ws, short) ==
  /\ MayBegin(h, ws)
  /\ ThenDoes(h, [next |-> "store", about |-> ws, answers |-> [w \in ws |-> Valid(w)],
              short |-> short, current |-> TRUE])
  /\ UNCHANGED <<database, listFile, memory>>

CheckWord(h, w) == cache[w] = None /\ Ask(h, {w}, FALSE)
ShortWords(h) == ~shortList.current /\ Ask(h, Words, TRUE)

StoreAnswers(h) ==
  /\ work[h].next = "store"
  /\ LET t == work[h]
     IN /\ cache' = [w \in Words |-> IF w \in t.about THEN t.answers[w] ELSE cache[w]]
        /\ shortList' = IF t.short THEN [words |-> {w \in Words : t.answers[w]}, current |-> t.current]
                        ELSE shortList
  /\ ThenDoes(h, Idle)
  /\ UNCHANGED <<database, listFile, lists>>

(* clear_cache "valid"; "short_words" fills its list again *)
ClearValid ==
  /\ cache # EmptyCache /\ cache' = EmptyCache
  /\ UNCHANGED <<database, listFile, lists, shortList, work>>
ClearShort ==
  /\ shortList # NoShortList /\ shortList' = NoShortList
  /\ UNCHANGED <<database, listFile, lists, cache, work>>

(* the server stops at any point and loads everything when it starts *)
RestartWords ==
  /\ lists' = ListsNow
  /\ cache' = EmptyCache /\ shortList' = NoShortList /\ work' = [h \in Handlers |-> Idle]
  /\ UNCHANGED <<database, listFile>>

WordsNext ==
  \/ \E h \in Handlers :
       \/ \E u \in Reviewers, w \in Words : Undo(h, u, w) \/ \E v \in {"good", "bad"} : Vote(h, u, w, v)
       \/ CountVotes(h) \/ MarkVoted(h)
       \/ \E t \in Thresholds : SetThreshold(h, t)
       \/ \E u \in Reviewers : SetReviewBlocked(h, u) \/ \E ws \in SUBSET Words \ {{}} : RevertReviews(h, u, ws)
       \/ \E w \in Words : DeleteVotes(h, w) \/ CheckWord(h, w)
       \/ \E w \in Overridden : RemoveOverride(h, w) \/ \E v \in {"allow", "reject"} : SetOverride(h, w, v)
       \/ \E w \in Added : AddAddition(h, w) \/ RemoveAddition(h, w)
       \/ ReadVoted(h) \/ SetVoted(h) \/ ReadLists(h) \/ SetLists(h)
       \/ \E ws \in SUBSET Listed \ {{}} : AddRejected(h, ws) \/ RemoveRejected(h, ws)
       \/ ExportVotes(h) \/ WriteList(h) \/ ReloadRejected(h)
       \/ ShortWords(h) \/ StoreAnswers(h)
  \/ ClearValid \/ ClearShort \/ RestartWords

WordsSpec == WordsInit /\ [][WordsNext]_wordVars

-----------------------------------------------------------------------------
Quiet == \A h \in Handlers : work[h] = Idle

(* word_review.rs:1-12, dict.rs:343: every handler that changes the votes,  *)
(* the reviewers, the threshold, the overrides or the file carries the      *)
(* change into the lists of the running game, also when a write fails.      *)
ListsFollow == Quiet => lists = ListsNow

(* dictionary.rs:301 and practice.rs:112: whatever was asked before a list  *)
(* changed, a cached answer and a cached list of short words are those the  *)
(* lists give now.                                                          *)
AnswersFollow ==
  Quiet => /\ \A w \in Words : cache[w] # None => (cache[w] <=> Accepts(lists, w))
           /\ shortList.current => shortList.words = {w \in Words : Accepts(lists, w)}

(* word_review.rs:5 "a nem szó döntés azonnal kizárja a szót a játékból ... *)
(* a lerakás, a robot, a kvíz és a szólisták sem fogadják el többé": a word *)
(* voted out, and not allowed by an administrator, is accepted nowhere.     *)
(* With Overlap it does not hold: a vote may count before the last vote and *)
(* mark the word after it, until everything is recomputed.                  *)
VotedOutIsOut ==
  Quiet => \A w \in Words : VotedOut(w) /\ overrides[w] # "allow" => ~Valid(w)
=============================================================================
