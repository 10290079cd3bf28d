--------------------------- MODULE GameRecordsProofs ---------------------------
(* Theorems about GameRecords, for any number of users, rooms, games, turns *)
(* and failing writes: a result is recorded once, a replay is complete, a   *)
(* correspondence game is in the database and the ratings can be computed   *)
(* from the archive.  The definitions below take the rows rs, the rooms ms  *)
(* and the flag l (lost) as parameters, because a handler goes through      *)
(* several states before it ends.                                           *)
EXTENDS GameRecords, FiniteSetTheorems, WellFoundedInduction, TLAPS

NotPlayed == {"none", "deleted"}

(* Nothing has cost a part of a move list, nor could anything have.         *)
Exact(l) == ~l /\ ~Reopen

(* A row says what became of its game; only a recorded result is an end.    *)
RowsFit(rs, l) ==
  \A g \in Ids :
    /\ rs[g].status = "none" => rs[g] = NoRow
    /\ rs[g].status \in NotPlayed <=> rs[g].room = None
    /\ rs[g].state.over => rs[g].status \in {"finished", "voided"}
    /\ Exact(l) /\ rs[g].status \notin NotPlayed => rs[g].log = rs[g].state.turns

(* A room has one row.  It gets another when a save of the game it plays is *)
(* played on elsewhere, which abandons the first; one of them has a result. *)
RowsApart(rs) ==
  \A g, h \in Ids :
    g # h /\ rs[g].room # None /\ rs[g].room = rs[h].room =>
      /\ Reopen /\ ~rs[g].async /\ ~rs[h].async
      /\ ~(rs[g].state.over /\ rs[h].state.over)

(* The row of a room's game has the game's turns and its end. *)
Stored(rs, m) ==
  m.db # None /\ rs[m.db].state.turns = m.game.turns /\ rs[m.db].state.over = m.game.over

(* The result is recorded in no row of room r. *)
Unrecorded(rs, r) == \A g \in Ids : rs[g].room = r => ~rs[g].state.over

(* A room that plays and its rows: the row it saves into stays active until *)
(* the result is saved, unless its game can be played on elsewhere, and the *)
(* moves that are not in the row's log are those after logged.              *)
GameFits(rs, m, r, l) ==
  /\ m.db = None => ~m.resultSaved /\ \A g \in Ids : rs[g].room # r
  /\ m.db # None => rs[m.db].room = r
                    /\ \/ m.resultSaved \/ rs[m.db].status = "active"
                       \/ Reopen /\ ~m.async /\ rs[m.db].status = "abandoned"
  /\ IF m.resultSaved THEN m.game.over /\ Stored(rs, m) ELSE Unrecorded(rs, r)
  /\ \A g \in Ids : rs[g].room = r => rs[g].state.over \/ rs[g].async = m.async
  /\ Exact(l) => m.moves = m.game.turns /\ m.logged = (IF m.db = None THEN 0 ELSE rs[m.db].log)

(* A correspondence game is saved whenever nothing works on it. *)
Durable(rs, m, l) == m.async => m.sig = Signature(m) /\ (~l => Stored(rs, m))

(* A waiting room with a save: nobody plays the row's game, and it is still *)
(* as it was copied, unless it was deleted.                                 *)
LobbyFits(rs, ms, m, r, l) ==
  /\ ~m.async /\ m.db = None /\ \A g \in Ids : rs[g].room # r
  /\ m.save # None /\ ~m.save.state.over
  /\ LET row == rs[m.save.id]
     IN /\ row.status # "none" /\ ~row.async
        /\ row.room # None => Reopen \/ ms[row.room].stage = "none"
        /\ Exact(l) => row.status # "deleted" /\ row.state = m.save.state

RoomFits(rs, ms, m, r, l) ==
  /\ m.stage = "none" => m = NoRoom
  /\ m.stage = "lobby" => LobbyFits(rs, ms, m, r, l)
  /\ m.stage = "game" => GameFits(rs, m, r, l) /\ Durable(rs, m, l)

RowsInv(rs, l) == rs \in [Ids -> RowRecord] /\ RowsFit(rs, l) /\ RowsApart(rs)

WorldFits(rs, ms, l) ==
  /\ RowsInv(rs, l) /\ ms \in [Rooms -> RoomRecord] /\ l \in BOOLEAN
  /\ \A r \in Rooms : RoomFits(rs, ms, ms[r], r, l)

(* Room r is in a handler's hands: m is what has become of it, ms the rooms *)
(* as they were.  No waiting room holds a copy of the game it plays.        *)
Free(rs, ms, r) == Reopen \/ \A q \in Rooms : q # r /\ ms[q].stage = "lobby" => rs[ms[q].save.id].room # r
OthersFit(rs, ms, r, l) == \A q \in Rooms : q # r => RoomFits(rs, ms, ms[q], q, l)
AtWork(rs, ms, r, m, l) ==
  /\ RowsInv(rs, l) /\ ms \in [Rooms -> RoomRecord] /\ l \in BOOLEAN
  /\ OthersFit(rs, ms, r, l) /\ Free(rs, ms, r)
  /\ m \in RoomRecord /\ m.stage = "game" /\ GameFits(rs, m, r, l)

-----------------------------------------------------------------------------
(* Taking a room up and putting it down. *)

LEMMA NoRoomFits ==
  ASSUME RecordsAssumption
  PROVE  /\ NoRoom \in RoomRecord /\ NoRoom.stage = "none" /\ ~NoRoom.async /\ NoRoom.db = None
         /\ NoRow \in RowRecord /\ NoRow.status = "none" /\ NoRow.room = None /\ NoRow.log = 0
         /\ ~NoRow.state.over /\ NoRow.state.turns = 0 /\ ~NoRow.async
         /\ \A rs, ms, r, l : RoomFits(rs, ms, NoRoom, r, l)
BY DEF NoRoom, NoRow, RoomRecord, RowRecord, NewGame, GameRecord, RoomFits

(* What the rooms are to each other: only that a copied game's room is gone. *)
LEMMA RoomChanged ==
  ASSUME RecordsAssumption, NEW rs \in [Ids -> RowRecord], NEW ms \in [Rooms -> RoomRecord], NEW l,
         NEW r \in Rooms, NEW m \in RoomRecord, NEW q \in Rooms, q # r,
         RoomFits(rs, ms, ms[q], q, l),
         m.stage = "none" \/ Free(rs, ms, r)
  PROVE  RoomFits(rs, [ms EXCEPT ![r] = m], ms[q], q, l)
<1> DEFINE new == [ms EXCEPT ![r] = m]
<1>1. new[r] = m /\ \A p \in Rooms : p # r => new[p] = ms[p]
  OBVIOUS
<1> HIDE DEF new
<1>2. CASE ms[q].stage = "lobby"
  <2>1. LobbyFits(rs, ms, ms[q], q, l)
    BY <1>2 DEF RoomFits
  <2>2. ms[q].save.id \in Ids
    BY <2>1 DEF LobbyFits, RoomRecord, SaveRecord
  <2>3. rs[ms[q].save.id].room \in Rooms \cup {None}
    BY <2>2 DEF RowRecord
  <2>4. LobbyFits(rs, new, ms[q], q, l)
    BY <2>1, <2>3, <1>1, <1>2 DEF LobbyFits, Free
  <2> QED
    BY <2>4, <1>2 DEF RoomFits, new
<1> QED
  BY <1>2 DEF RoomFits, new

LEMMA TakenUp ==
  ASSUME RecordsAssumption, NEW rs, NEW ms, NEW l, WorldFits(rs, ms, l),
         NEW r \in Rooms, ms[r].stage = "game"
  PROVE  AtWork(rs, ms, r, ms[r], l) /\ Durable(rs, ms[r], l)
<1>1. GameFits(rs, ms[r], r, l) /\ Durable(rs, ms[r], l)
  BY DEF WorldFits, RoomFits
<1>2. Free(rs, ms, r)
  <2> SUFFICES ASSUME ~Reopen, NEW q \in Rooms, q # r, ms[q].stage = "lobby"
               PROVE  rs[ms[q].save.id].room # r
    BY DEF Free
  <2>1. LobbyFits(rs, ms, ms[q], q, l)
    BY DEF WorldFits, RoomFits
  <2> QED
    BY <2>1, RecordsAssumption DEF LobbyFits
<1> QED
  BY <1>1, <1>2 DEF WorldFits, AtWork, OthersFit

LEMMA PutDown ==
  ASSUME RecordsAssumption, NEW rs, NEW ms, NEW l, NEW r \in Rooms, NEW m,
         AtWork(rs, ms, r, m, l), Durable(rs, m, l)
  PROVE  WorldFits(rs, [ms EXCEPT ![r] = m], l)
<1> DEFINE new == [ms EXCEPT ![r] = m]
<1>1. new \in [Rooms -> RoomRecord] /\ new[r] = m /\ \A p \in Rooms : p # r => new[p] = ms[p]
  BY DEF AtWork
<1>2. \A q \in Rooms : RoomFits(rs, new, new[q], q, l)
  <2> TAKE q \in Rooms
  <2>1. CASE q = r
    BY <2>1, <1>1 DEF AtWork, RoomFits
  <2>2. CASE q # r
    <3>1. RoomFits(rs, ms, ms[q], q, l) /\ Free(rs, ms, r) /\ rs \in [Ids -> RowRecord]
          /\ ms \in [Rooms -> RoomRecord] /\ m \in RoomRecord
      BY <2>2 DEF AtWork, OthersFit, RowsInv
    <3> QED
      BY <3>1, <2>2, <1>1, RoomChanged
  <2> QED
    BY <2>1, <2>2
<1> HIDE DEF new
<1>3. WorldFits(rs, new, l)
  BY <1>1, <1>2 DEF WorldFits, AtWork
<1> QED
  BY <1>3 DEF new

LEMMA RoomClosed ==
  ASSUME RecordsAssumption, NEW rs, NEW ms, NEW l, NEW r \in Rooms,
         RowsInv(rs, l), ms \in [Rooms -> RoomRecord], l \in BOOLEAN, OthersFit(rs, ms, r, l)
  PROVE  WorldFits(rs, [ms EXCEPT ![r] = NoRoom], l)
<1> DEFINE new == [ms EXCEPT ![r] = NoRoom]
<1>1. new \in [Rooms -> RoomRecord] /\ new[r] = NoRoom /\ \A p \in Rooms : p # r => new[p] = ms[p]
  BY NoRoomFits
<1>2. \A q \in Rooms : RoomFits(rs, new, new[q], q, l)
  <2> TAKE q \in Rooms
  <2>1. CASE q = r
    BY <2>1, <1>1, NoRoomFits
  <2>2. CASE q # r
    <3>1. RoomFits(rs, ms, ms[q], q, l) /\ rs \in [Ids -> RowRecord]
          /\ NoRoom \in RoomRecord /\ NoRoom.stage = "none"
      BY <2>2, NoRoomFits DEF OthersFit, RowsInv
    <3> QED
      BY <3>1, <2>2, <1>1, RoomChanged
  <2> QED
    BY <2>1, <2>2
<1> HIDE DEF new
<1>3. WorldFits(rs, new, l)
  BY <1>1, <1>2 DEF WorldFits
<1> QED
  BY <1>3 DEF new
(* Only what the game's turns are, and whether its result is recorded,      *)
(* binds a room to its row.                                                 *)
LEMMA GameChanged ==
  ASSUME NEW rs, NEW ms, NEW r, NEW m, NEW l, AtWork(rs, ms, r, m, l),
         NEW m2 \in RoomRecord, m2.stage = "game", m2.async = m.async, m2.db = m.db, m2.logged = m.logged,
         m2.resultSaved = m.resultSaved, m.resultSaved => m2.game = m.game,
         Exact(l) => m2.moves = m2.game.turns
  PROVE  AtWork(rs, ms, r, m2, l)
BY DEF AtWork, GameFits, Stored

LEMMA MoreLost ==
  ASSUME NEW rs, NEW ms, NEW r, NEW m, NEW l, NEW k \in BOOLEAN, l => k, AtWork(rs, ms, r, m, l)
  PROVE  AtWork(rs, ms, r, m, k)
<1>1. RowsInv(rs, k)
  BY DEF AtWork, RowsInv, RowsFit, Exact
<1>2. OthersFit(rs, ms, r, k)
  <2> SUFFICES ASSUME NEW q \in Rooms, q # r
               PROVE  RoomFits(rs, ms, ms[q], q, k)
    BY DEF OthersFit
  <2>1. RoomFits(rs, ms, ms[q], q, l)
    BY DEF AtWork, OthersFit
  <2> QED
    BY <2>1 DEF RoomFits, LobbyFits, GameFits, Durable, Exact
<1>3. GameFits(rs, m, r, k)
  BY DEF AtWork, GameFits, Exact
<1> QED
  BY <1>1, <1>2, <1>3 DEF AtWork

-----------------------------------------------------------------------------
(* Numbers and games. *)

(* Some number is the least. *)
LEMMA LeastExists ==
  ASSUME NEW S \in SUBSET Nat, S # {}
  PROVE  \E m \in S : \A y \in S : m <= y
<1> PICK n \in S : TRUE
  OBVIOUS
<1> DEFINE I == {i \in S : i <= n}
           R == StrictSubsetOrdering(0 .. n)
           F == FiniteSubsetsOf(0 .. n)
           T == {0 .. i : i \in I}
<1>1. T \in SUBSET F /\ T # {}
  <2>1. n \in I /\ \A i \in I : 0 .. i \subseteq 0 .. n /\ IsFiniteSet(0 .. i)
    BY FS_Interval
  <2>2. \A i \in I : 0 .. i \in F
    BY <2>1 DEF FiniteSubsetsOf
  <2> HIDE DEF F, I
  <2> QED
    BY <2>1, <2>2
<1>2. PICK X \in T : \A Y \in T : <<Y, X>> \notin R
  <2>1. IsWellFoundedOn(R, F)
    BY FS_StrictSubsetOrderingWellFounded
  <2> HIDE DEF R, F, T
  <2> QED
    BY <1>1, <2>1, WFMin
<1>3. PICK m \in I : X = 0 .. m
  OBVIOUS
<1>4. ASSUME NEW j \in S
      PROVE  m <= j
  <2>1. CASE j <= n
    <3>1. 0 .. j \in T /\ <<0 .. j, 0 .. m>> \notin R
      BY <1>2, <1>3, <2>1
    <3>2. ASSUME j < m
          PROVE  FALSE
      <4>1. 0 .. j \subseteq 0 .. m /\ 0 .. j # 0 .. m /\ 0 .. m \subseteq 0 .. n
        BY <3>2, <1>3
      <4> QED
        BY <3>1, <4>1 DEF StrictSubsetOrdering
    <3> QED
      BY <3>2
  <2> QED
    BY <2>1
<1> QED
  BY <1>4

(* A game that is over has a result. *)
LEMMA GameRecordIs ==
  ASSUME NEW x
  PROVE  x \in GameRecord <=> /\ x \in [turns : Nat, over : BOOLEAN, result : Results \cup {None}, due : Nat]
                              /\ x.over => x.result \in Results
<1> DEFINE AnyGame == [turns : Nat, over : BOOLEAN, result : Results \cup {None}, due : Nat]
<1>1. x \in GameRecord => x \in AnyGame /\ (x.over => x.result \in Results)
  BY DEF GameRecord
<1>2. ASSUME x \in AnyGame, x.over => x.result \in Results
      PROVE  x \in GameRecord
  <2>1. CASE x.over
    BY <1>2, <2>1 DEF GameRecord
  <2>2. CASE ~x.over
    BY <1>2, <2>2 DEF GameRecord
  <2> QED
    BY <2>1, <2>2
<1> QED
  BY <1>1, <1>2

-----------------------------------------------------------------------------
(* Folding a finite set: f[T] is what is left when the elements of T have   *)
(* been applied to b, the one that pick chooses last.                       *)
Fold(f, S, V, b, pick, step) ==
  /\ f \in [SUBSET S -> V]
  /\ \A T \in SUBSET S : f[T] = IF T = {} THEN b ELSE step[<<pick[T], f[T \ {pick[T]}]>>]
Picks(pick, S) == \A T \in SUBSET S : T # {} => pick[T] \in T

LEMMA OneLess ==
  ASSUME NEW T, IsFiniteSet(T), NEW x \in T
  PROVE  /\ IsFiniteSet(T \ {x}) /\ Cardinality(T) \in Nat /\ Cardinality(T \ {x}) \in Nat
         /\ Cardinality(T \ {x}) < Cardinality(T)
<1>1. IsFiniteSet(T \ {x}) /\ Cardinality(T \ {x}) = Cardinality(T) - 1
  BY FS_RemoveElement
<1>2. Cardinality(T) \in Nat /\ Cardinality(T \ {x}) \in Nat
  BY <1>1, FS_CardinalityType
<1> QED
  BY <1>1, <1>2

LEMMA FoldExists ==
  ASSUME NEW S, IsFiniteSet(S), NEW V, NEW b \in V, NEW pick, Picks(pick, S), NEW step \in [S \X V -> V]
  PROVE  \E f : Fold(f, S, V, b, pick, step)
<1> DEFINE Small(n) == {T \in SUBSET S : Cardinality(T) <= n}
           Of(f, T) == IF T = {} THEN b ELSE step[<<pick[T], f[T \ {pick[T]}]>>]
           Partial(f, n) == f \in [Small(n) -> V] /\ \A T \in Small(n) : f[T] = Of(f, T)
           Bad == {n \in Nat : ~\E f : Partial(f, n)}
<1>1. \A T \in SUBSET S : IsFiniteSet(T) /\ Cardinality(T) \in Nat
  BY FS_Subset, FS_CardinalityType
<1>2. Bad = {}
  <2> SUFFICES ASSUME Bad # {}
               PROVE  FALSE
    OBVIOUS
  <2>1. PICK n \in Bad : \A k \in Bad : n <= k
    BY LeastExists
  <2>2. n \in Nat /\ ~\E f : Partial(f, n)
    BY <2>1
  <2>3. CASE n = 0
    <3> DEFINE f == [T \in Small(0) |-> b]
    <3>1. \A T \in Small(0) : T = {}
      BY <1>1, FS_EmptySet
    <3>2. f \in [Small(0) -> V] /\ \A T \in Small(0) : f[T] = Of(f, T)
      BY <3>1
    <3> HIDE DEF f, Small, Of
    <3> QED
      BY <2>2, <2>3, <3>2
  <2>4. CASE n # 0
    <3>1. n - 1 \in Nat /\ n - 1 \notin Bad
      <4>1. n - 1 \in Nat /\ ~(n <= n - 1)
        BY <2>2, <2>4
      <4> HIDE DEF Bad
      <4> QED
        BY <2>1, <4>1
    <3>2. PICK f : Partial(f, n - 1)
      BY <3>1
    <3> DEFINE g == [T \in Small(n) |-> Of(f, T)]
    <3>3. ASSUME NEW T \in Small(n), T # {}
          PROVE  pick[T] \in T /\ T \ {pick[T]} \in Small(n - 1) /\ T \ {pick[T]} \in Small(n) /\ pick[T] \in S
      <4>1. pick[T] \in T /\ T \in SUBSET S /\ Cardinality(T) <= n
        BY <3>3 DEF Picks
      <4>2. Cardinality(T) \in Nat /\ Cardinality(T \ {pick[T]}) \in Nat /\ Cardinality(T \ {pick[T]}) < Cardinality(T)
        BY <1>1, <4>1, OneLess
      <4> QED
        BY <2>2, <4>1, <4>2
    <3>4. \A T \in Small(n - 1) : T \in Small(n) /\ f[T] \in V /\ f[T] = Of(f, T)
      <4>1. \A T \in Small(n - 1) : T \in Small(n)
        BY <1>1, <2>2
      <4> HIDE DEF Small, Of
      <4> QED
        BY <3>2, <4>1
    <3>5. g \in [Small(n) -> V]
      <4> SUFFICES ASSUME NEW T \in Small(n)
                   PROVE  Of(f, T) \in V
        OBVIOUS
      <4>1. CASE T = {}
        BY <4>1
      <4>2. CASE T # {}
        <5>1. <<pick[T], f[T \ {pick[T]}]>> \in S \X V
          BY <3>3, <3>4, <4>2
        <5> QED
          BY <4>2, <5>1
      <4> QED
        BY <4>1, <4>2
    <3>6. \A T \in Small(n - 1) : g[T] = f[T]
      BY <3>4
    <3>7. ASSUME NEW T \in Small(n)
          PROVE  g[T] = Of(g, T)
      <4>1. CASE T = {}
        BY <4>1
      <4>2. CASE T # {}
        <5>1. g[T] = step[<<pick[T], f[T \ {pick[T]}]>>]
          BY <4>2
        <5>2. g[T \ {pick[T]}] = f[T \ {pick[T]}]
          BY <3>3, <3>6, <4>2
        <5> HIDE DEF g, Small
        <5> QED
          BY <4>2, <5>1, <5>2
      <4> QED
        BY <4>1, <4>2
    <3> HIDE DEF g, Small, Of
    <3> QED
      BY <2>2, <3>5, <3>7
  <2> QED
    BY <2>3, <2>4
<1>3. SUBSET S = Small(Cardinality(S)) /\ Cardinality(S) \in Nat
  BY <1>1, FS_Subset, FS_CardinalityType
<1>4. PICK f : Partial(f, Cardinality(S))
  <2> HIDE DEF Partial
  <2> QED
    BY <1>2, <1>3
<1> HIDE DEF Small
<1>5. Fold(f, S, V, b, pick, step)
  BY <1>3, <1>4 DEF Fold
<1> QED
  BY <1>5

(* Among subsets of a finite set one is the smallest. *)
LEMMA SmallestExists ==
  ASSUME NEW S, IsFiniteSet(S), NEW Bad \in SUBSET SUBSET S, Bad # {}
  PROVE  \E T \in Bad : \A x \in T : T \ {x} \notin Bad
<1> DEFINE Sizes == {Cardinality(T) : T \in Bad}
<1>1. \A T \in SUBSET S : IsFiniteSet(T) /\ Cardinality(T) \in Nat
  BY FS_Subset, FS_CardinalityType
<1>2. Sizes \in SUBSET Nat /\ Sizes # {}
  BY <1>1
<1>3. PICK n \in Sizes : \A k \in Sizes : n <= k
  BY <1>2, LeastExists
<1>4. PICK T \in Bad : n = Cardinality(T)
  BY <1>3
<1>5. ASSUME NEW x \in T, T \ {x} \in Bad
      PROVE  FALSE
  <2>1. n <= Cardinality(T \ {x})
    BY <1>3, <1>5
  <2>2. Cardinality(T \ {x}) \in Nat /\ Cardinality(T \ {x}) < n /\ n \in Nat
    BY <1>1, <1>4, OneLess
  <2> QED
    BY <2>1, <2>2
<1> QED
  BY <1>4, <1>5

(* Functions of the subsets that go on alike are the same. *)
LEMMA BySize ==
  ASSUME NEW S, IsFiniteSet(S), NEW pick, Picks(pick, S), NEW f1, NEW f2, f1[{}] = f2[{}],
         \A T \in SUBSET S : T # {} /\ f1[T \ {pick[T]}] = f2[T \ {pick[T]}] => f1[T] = f2[T]
  PROVE  \A T \in SUBSET S : f1[T] = f2[T]
<1> DEFINE Bad == {T \in SUBSET S : f1[T] # f2[T]}
<1> SUFFICES ASSUME Bad # {}
             PROVE  FALSE
  OBVIOUS
<1>1. PICK T \in Bad : \A x \in T : T \ {x} \notin Bad
  BY SmallestExists
<1>2. T \in SUBSET S /\ f1[T] # f2[T] /\ T # {}
  BY <1>1
<1>3. pick[T] \in T
  BY <1>2 DEF Picks
<1>4. T \ {pick[T]} \in SUBSET S /\ T \ {pick[T]} \notin Bad
  BY <1>1, <1>2, <1>3
<1> QED
  BY <1>2, <1>4

(* Two folds that choose alike and apply alike have the same values. *)
LEMMA FoldsAgree ==
  ASSUME NEW S, IsFiniteSet(S), NEW S1, NEW S2, S \subseteq S1, S \subseteq S2, NEW V, NEW b,
         NEW pick1, NEW pick2, NEW step1, NEW step2, NEW f1, NEW f2,
         Fold(f1, S1, V, b, pick1, step1), Fold(f2, S2, V, b, pick2, step2),
         Picks(pick1, S), \A T \in SUBSET S : T # {} => pick1[T] = pick2[T],
         \A x \in S, v \in V : step1[<<x, v>>] = step2[<<x, v>>]
  PROVE  \A T \in SUBSET S : f1[T] = f2[T]
<1>1. f1[{}] = f2[{}]
  BY DEF Fold
<1>2. ASSUME NEW T \in SUBSET S, T # {}, f1[T \ {pick1[T]}] = f2[T \ {pick1[T]}]
      PROVE  f1[T] = f2[T]
  <2> DEFINE x == pick1[T]
  <2>1. x \in T /\ x \in S /\ pick2[T] = x /\ T \in SUBSET S1 /\ T \in SUBSET S2 /\ T \ {x} \in SUBSET S1
    BY <1>2 DEF Picks
  <2>2. f1[T] = step1[<<x, f1[T \ {x}]>>] /\ f2[T] = step2[<<x, f2[T \ {x}]>>] /\ f1[T \ {x}] \in V
    BY <1>2, <2>1 DEF Fold
  <2> QED
    BY <1>2, <2>1, <2>2
<1> QED
  BY <1>1, <1>2, BySize

(* The community modules' sum of a function's values is such a fold. *)
Chosen(S) == [T \in SUBSET S |-> CHOOSE x \in T : TRUE]
Adding(a) == [p \in (DOMAIN a) \X Int |-> a[p[1]] + p[2]]

LEMMA ChosenPicks == ASSUME NEW S PROVE Picks(Chosen(S), S)
BY DEF Picks, Chosen

LEMMA SumIsFold ==
  ASSUME NEW S, IsFiniteSet(S), NEW a \in [S -> Int]
  PROVE  \E f : Fold(f, S, Int, 0, Chosen(S), Adding(a)) /\ SumFunction(a) = f[S]
<1> DEFINE Of(f) == [T \in SUBSET S |-> IF T = {} THEN 0 ELSE LET x == CHOOSE x \in T : TRUE IN a[x] + f[T \ {x}]]
           iter == CHOOSE f : f = Of(f)
<1>1. SumFunction(a) = iter[S]
  <2>1. DOMAIN a = S
    OBVIOUS
  <2> QED
    BY <2>1, Zenon DEF SumFunction, SumFunctionOnSet, FoldFunctionOnSet, MapThenFoldSet
<1>2. Adding(a) \in [S \X Int -> Int] /\ \A x \in S, v \in Int : Adding(a)[<<x, v>>] = a[x] + v
  BY DEF Adding
<1>3. PICK f : Fold(f, S, Int, 0, Chosen(S), Adding(a))
  <2>1. Picks(Chosen(S), S) /\ 0 \in Int
    BY ChosenPicks
  <2> QED
    BY <1>2, <2>1, FoldExists
<1>4. ASSUME NEW h, h = Of(h)
      PROVE  /\ h[{}] = 0
             /\ \A T \in SUBSET S : T # {} => h[T] = a[Chosen(S)[T]] + h[T \ {Chosen(S)[T]}]
  BY <1>4 DEF Chosen
<1>5. f = Of(f)
  <2>1. ASSUME NEW T \in SUBSET S
        PROVE  f[T] = IF T = {} THEN 0 ELSE LET x == CHOOSE x \in T : TRUE IN a[x] + f[T \ {x}]
    <3>1. CASE T = {}
      BY <1>3, <3>1 DEF Fold
    <3>2. CASE T # {}
      <4> DEFINE x == CHOOSE x \in T : TRUE
      <4>1. x \in T /\ x \in S /\ Chosen(S)[T] = x /\ T \ {x} \in SUBSET S
        BY <3>2 DEF Chosen
      <4> HIDE DEF x
      <4>2. f[T] = Adding(a)[<<x, f[T \ {x}]>>] /\ f[T \ {x}] \in Int
        BY <1>3, <3>2, <4>1 DEF Fold
      <4>3. f[T] = a[x] + f[T \ {x}]
        BY <1>2, <4>1, <4>2
      <4> QED
        BY <3>2, <4>3 DEF x
    <3> QED
      BY <3>1, <3>2
  <2>2. f = [T \in SUBSET S |-> f[T]]
    BY <1>3 DEF Fold
  <2> QED
    BY <2>1, <2>2
<1>6. iter = Of(iter)
  BY <1>5
<1> HIDE DEF iter
<1>7. \A T \in SUBSET S : iter[T] = f[T]
  <2>1. iter[{}] = f[{}]
    BY <1>4, <1>5, <1>6
  <2>2. ASSUME NEW T \in SUBSET S, T # {}, iter[T \ {Chosen(S)[T]}] = f[T \ {Chosen(S)[T]}]
        PROVE  iter[T] = f[T]
    <3>1. iter[T] = a[Chosen(S)[T]] + iter[T \ {Chosen(S)[T]}] /\ f[T] = a[Chosen(S)[T]] + f[T \ {Chosen(S)[T]}]
      <4> HIDE DEF Of
      <4> QED
        BY <1>4, <1>5, <1>6, <2>2
    <3> QED
      BY <2>2, <3>1
  <2> QED
    BY <2>1, <2>2, ChosenPicks, BySize
<1> QED
  BY <1>1, <1>3, <1>7

(* Whichever element goes first, the sum is the same. *)
LEMMA SumCommutes ==
  ASSUME NEW S, IsFiniteSet(S), NEW a \in [S -> Int], NEW f, Fold(f, S, Int, 0, Chosen(S), Adding(a))
  PROVE  \A T \in SUBSET S : \A x \in T : f[T] = a[x] + f[T \ {x}]
<1> DEFINE Same(T) == \A x \in T : f[T] = a[x] + f[T \ {x}]
           Bad == {T \in SUBSET S : ~Same(T)}
<1>1. ASSUME Bad # {}
      PROVE  FALSE
  <2>1. PICK T \in Bad : \A x \in T : T \ {x} \notin Bad
    <3>1. Bad \in SUBSET SUBSET S
      OBVIOUS
    <3> HIDE DEF Bad
    <3> QED
      BY <1>1, <3>1, SmallestExists
  <2>2. T \in SUBSET S
    BY <2>1
  <2>3. PICK x \in T : f[T] # a[x] + f[T \ {x}]
    BY <2>1
  <2> DEFINE p == Chosen(S)[T]
  <2>4. \A U \in SUBSET S : f[U] \in Int
    BY DEF Fold
  <2>5. p \in T /\ p \in S /\ x \in S /\ a[p] \in Int /\ a[x] \in Int
    BY <2>2, <2>3, ChosenPicks DEF Picks
  <2>6. f[T] = a[p] + f[T \ {p}]
    <3>1. f[T] = Adding(a)[<<p, f[T \ {p}]>>] /\ f[T \ {p}] \in Int
      BY <2>2, <2>3, <2>4 DEF Fold
    <3> HIDE DEF p
    <3> QED
      BY <2>5, <3>1 DEF Adding
  <2>7. p # x
    BY <2>3, <2>6
  <2> HIDE DEF p
  <2> DEFINE rest == T \ {p, x}
  <2>8. /\ T \ {p} \in SUBSET S /\ T \ {x} \in SUBSET S /\ rest \in SUBSET S
        /\ x \in T \ {p} /\ p \in T \ {x} /\ (T \ {p}) \ {x} = rest /\ (T \ {x}) \ {p} = rest
    BY <2>2, <2>3, <2>5, <2>7
  <2> HIDE DEF rest
  <2>9. f[T \ {p}] = a[x] + f[rest]
    <3>1. T \ {p} \notin Bad
      BY <2>1, <2>5
    <3>2. Same(T \ {p})
      BY <2>8, <3>1
    <3> QED
      BY <2>8, <3>2
  <2>10. f[T \ {x}] = a[p] + f[rest]
    <3>1. T \ {x} \notin Bad
      BY <2>1, <2>3
    <3>2. Same(T \ {x})
      BY <2>8, <3>1
    <3> QED
      BY <2>8, <3>2
  <2>11. f[rest] \in Int /\ a[p] \in Int /\ a[x] \in Int
    BY <2>4, <2>5, <2>8
  <2>12. f[T] = a[p] + (a[x] + f[rest]) /\ a[x] + f[T \ {x}] = a[x] + (a[p] + f[rest])
    BY <2>6, <2>9, <2>10
  <2>13. a[p] + (a[x] + f[rest]) = a[x] + (a[p] + f[rest])
    BY <2>11
  <2> QED
    BY <2>3, <2>12, <2>13
<1>2. \A T \in SUBSET S : Same(T)
  <2> HIDE DEF Same
  <2> QED
    BY <1>1
<1> QED
  BY <1>2, Zenon

LEMMA SumType ==
  ASSUME NEW S, IsFiniteSet(S), NEW a \in [S -> Int]
  PROVE  SumFunction(a) \in Int
<1>1. PICK f : Fold(f, S, Int, 0, Chosen(S), Adding(a)) /\ SumFunction(a) = f[S]
  BY SumIsFold
<1>2. f[S] \in Int
  BY <1>1 DEF Fold
<1> QED
  BY <1>1, <1>2

OneMore(a, b, S, g) ==
  /\ IsFiniteSet(S) /\ g \notin S /\ a \in [S -> Int] /\ b \in [S \cup {g} -> Int]
  /\ \A x \in S : b[x] = a[x]

LEMMA SumGrows ==
  ASSUME NEW S, NEW g, NEW a, NEW b, OneMore(a, b, S, g)
  PROVE  SumFunction(b) = SumFunction(a) + b[g]
<1> DEFINE more == S \cup {g}
<1> USE DEF OneMore
<1>1. IsFiniteSet(more)
  BY FS_AddElement
<1>2. PICK f : Fold(f, S, Int, 0, Chosen(S), Adding(a)) /\ SumFunction(a) = f[S]
  BY SumIsFold
<1>3. PICK h : Fold(h, more, Int, 0, Chosen(more), Adding(b)) /\ SumFunction(b) = h[more]
  BY <1>1, SumIsFold
<1>4. h[S] = f[S]
  <2>1. \A T \in SUBSET S : Chosen(S)[T] = Chosen(more)[T]
    BY DEF Chosen
  <2>2. \A x \in S, v \in Int : Adding(a)[<<x, v>>] = Adding(b)[<<x, v>>]
    BY DEF Adding
  <2>3. \A T \in SUBSET S : f[T] = h[T]
    <3>1. S \subseteq S /\ S \subseteq more /\ Picks(Chosen(S), S)
      BY ChosenPicks
    <3> HIDE DEF more
    <3> QED
      BY <1>2, <1>3, <2>1, <2>2, <3>1, FoldsAgree
  <2> QED
    BY <2>3
<1>5. h[more] = b[g] + h[more \ {g}]
  BY <1>1, <1>3, SumCommutes
<1>6. more \ {g} = S
  OBVIOUS
<1>7. f[S] \in Int /\ b[g] \in Int
  BY <1>2 DEF Fold
<1>8. SumFunction(b) = b[g] + f[S]
  BY <1>3, <1>4, <1>5, <1>6
<1>9. b[g] + f[S] = f[S] + b[g]
  BY <1>7
<1> QED
  BY <1>2, <1>8, <1>9

-----------------------------------------------------------------------------
(* The latest of several events. *)
EventKey == Nat \X {0, 1} \X Nat

LEMMA EarlierOrders ==
  ASSUME NEW a \in EventKey, NEW b \in EventKey, a # b
  PROVE  /\ Earlier(a, b) \/ Earlier(b, a)
         /\ \A c \in EventKey : Earlier(a, b) /\ Earlier(b, c) => Earlier(a, c)
BY DEF EventKey, Earlier

LEMMA LatestIs ==
  ASSUME NEW es \in SUBSET EventKey, IsFiniteSet(es), es # {}
  PROVE  Latest(es) \in es /\ \A d \in es \ {Latest(es)} : Earlier(d, Latest(es))
<1> DEFINE IsLatest(T, e) == \A d \in T \ {e} : Earlier(d, e)
           Bad == {T \in SUBSET es : T # {} /\ ~\E e \in T : IsLatest(T, e)}
<1>1. ASSUME Bad # {}
      PROVE  FALSE
  <2>1. PICK T \in Bad : \A x \in T : T \ {x} \notin Bad
    <3>1. Bad \in SUBSET SUBSET es
      OBVIOUS
    <3> HIDE DEF Bad
    <3> QED
      BY <1>1, <3>1, SmallestExists
  <2>2. T \in SUBSET es /\ T # {} /\ ~\E e \in T : IsLatest(T, e)
    BY <2>1
  <2>3. PICK x \in T : TRUE
    BY <2>2
  <2>4. T \ {x} # {}
    BY <2>2, <2>3
  <2>5. PICK e \in T \ {x} : IsLatest(T \ {x}, e)
    <3>1. T \ {x} \in SUBSET es /\ T \ {x} \notin Bad
      BY <2>1, <2>2, <2>3
    <3> HIDE DEF IsLatest
    <3> QED
      BY <2>4, <3>1
  <2>6. e \in EventKey /\ x \in EventKey /\ e # x /\ e \in T
    BY <2>2, <2>3, <2>5
  <2>7. CASE Earlier(x, e)
    <3>1. IsLatest(T, e)
      BY <2>5, <2>6, <2>7
    <3> QED
      BY <2>2, <2>6, <3>1
  <2>8. CASE Earlier(e, x)
    <3>1. \A d \in T \ {x} : d = e \/ (d # e /\ d \in EventKey /\ Earlier(d, e))
      BY <2>2, <2>5
    <3>2. \A d \in T \ {x} : Earlier(d, x)
      BY <2>6, <2>8, <3>1, EarlierOrders
    <3>3. IsLatest(T, x)
      BY <3>2
    <3> QED
      BY <2>2, <2>3, <3>3
  <2> QED
    BY <2>6, <2>7, <2>8, EarlierOrders
<1>2. \E e \in es : IsLatest(es, e)
  <2> HIDE DEF IsLatest
  <2> QED
    BY <1>1
<1> QED
  BY <1>2 DEF Latest

-----------------------------------------------------------------------------
(* The statistics that ratings are computed from, and what a result or an   *)
(* adjustment makes of them.                                                *)
Stats == [Users -> [rating : Int, rated : Nat]]
UserRecord == [rating : Int, rated : Nat, played : Nat, won : Nat, score : Int]
Adjustment == [user : Users, delta : Int, at : Nat]
Start == [u \in Users |-> [rating |-> Initial, rated |-> 0]]
Core(us) == [u \in Users |-> [rating |-> us[u].rating, rated |-> us[u].rated]]

LEMMA RoundingType ==
  ASSUME NEW a \in Int, NEW b \in Nat \ {0}
  PROVE  RoundTiesEven(a, b) \in Int
<1>1. (2 * a + b) \in Int /\ 2 * b \in Nat \ {0}
  OBVIOUS
<1>2. (2 * a + b) \div (2 * b) \in Int
  BY <1>1
<1> QED
  BY <1>2 DEF RoundTiesEven

LEMMA ChangesType ==
  ASSUME RecordsAssumption, NEW es, DOMAIN es = Users, NEW u \in Users
  PROVE  RatingChanges(es)[u] \in Int
<1> DEFINE others == Users \ {u}
           gain == [o \in others |-> Actual(es[u].score, es[o].score) - Expected(es[u].rating, es[o].rating)]
           total == SumFunction(gain)
<1>1. RatingChanges(es)[u] = IF others = {} THEN 0 ELSE RoundTiesEven(KFactor(es[u].rated) * total, 4 * Cardinality(others))
  BY DEF RatingChanges
<1>2. IsFiniteSet(others)
  BY FS_Subset DEF RecordsAssumption
<1>3. gain \in [others -> Int]
  BY DEF Actual, Expected
<1>4. total \in Int
  <2> HIDE DEF gain, others
  <2> QED
    BY <1>2, <1>3, SumType
<1>5. KFactor(es[u].rated) \in Int
  BY EloAssumption DEF KFactor
<1>6. others # {} => Cardinality(others) \in Nat \ {0}
  BY <1>2, FS_EmptySet, FS_CardinalityType
<1> HIDE DEF others, total
<1>7. CASE others # {}
  <2>1. KFactor(es[u].rated) * total \in Int
    BY <1>4, <1>5
  <2>2. 4 * Cardinality(others) \in Nat \ {0}
    BY <1>6, <1>7
  <2> QED
    BY <1>1, <1>7, <2>1, <2>2, RoundingType
<1> QED
  BY <1>1, <1>7

(* What apply_ratings does to one player's statistics. *)
Gained(stats, result, u) ==
  IF Cardinality(Users) < 2 THEN 0 ELSE RatingChanges(Entries(stats, result))[u]
Counts == IF Cardinality(Users) < 2 THEN 0 ELSE 1

LEMMA GainedType ==
  ASSUME RecordsAssumption, NEW stats, NEW result, NEW u \in Users
  PROVE  Gained(stats, result, u) \in Int /\ Counts \in Nat
<1>1. DOMAIN Entries(stats, result) = Users
  BY DEF Entries
<1> QED
  BY <1>1, ChangesType DEF Gained, Counts

LEMMA StatsRated ==
  ASSUME NEW c \in Int, NEW s \in [rating : Int, rated : Nat]
  PROVE  LET n == [s EXCEPT !.rating = @ + c, !.rated = @ + 1]
         IN n \in [rating : Int, rated : Nat] /\ n.rating = s.rating + c /\ n.rated = s.rated + 1
<1> DEFINE n == [s EXCEPT !.rating = s.rating + c, !.rated = s.rated + 1]
<1>1. s.rating + c \in Int /\ s.rated + 1 \in Nat
  OBVIOUS
<1>2. ASSUME NEW a \in Int, NEW b \in Nat
      PROVE  [s EXCEPT !.rating = a, !.rated = b] \in [rating : Int, rated : Nat]
  OBVIOUS
<1>3. n \in [rating : Int, rated : Nat]
  BY <1>1, <1>2, Zenon
<1>4. [s EXCEPT !.rating = @ + c, !.rated = @ + 1] = n
  BY Zenon
<1>5. n.rating = s.rating + c /\ n.rated = s.rated + 1
  OBVIOUS
<1> HIDE DEF n
<1> QED
  BY <1>3, <1>4, <1>5, Zenon

LEMMA RowRated ==
  ASSUME NEW c \in Int, NEW s \in UserRecord
  PROVE  LET n == [s EXCEPT !.rating = @ + c, !.rated = @ + 1]
         IN /\ n \in UserRecord /\ n.rating = s.rating + c /\ n.rated = s.rated + 1
            /\ n.played = s.played /\ n.won = s.won /\ n.score = s.score
<1> DEFINE n == [s EXCEPT !.rating = s.rating + c, !.rated = s.rated + 1]
<1>1. s.rating + c \in Int /\ s.rated + 1 \in Nat
  BY DEF UserRecord
<1>2. ASSUME NEW a \in Int, NEW b \in Nat
      PROVE  [s EXCEPT !.rating = a, !.rated = b] \in UserRecord
  BY DEF UserRecord
<1>3. n \in UserRecord
  BY <1>1, <1>2, Zenon
<1>4. [s EXCEPT !.rating = @ + c, !.rated = @ + 1] = n
  BY Zenon DEF UserRecord
<1>5. n.rating = s.rating + c /\ n.rated = s.rated + 1 /\ n.played = s.played /\ n.won = s.won /\ n.score = s.score
  BY DEF UserRecord
<1> HIDE DEF n
<1> QED
  BY <1>3, <1>4, <1>5, Zenon

CountedRow(s, c, d) == [s EXCEPT !.played = @ + 1, !.score = @ + c, !.won = @ + d]

LEMMA RowCounted ==
  ASSUME NEW c \in Int, NEW d \in {0, 1}, NEW s \in UserRecord
  PROVE  LET n == CountedRow(s, c, d)
         IN /\ n \in UserRecord /\ n.played = s.played + 1 /\ n.won = s.won + d /\ n.score = s.score + c
            /\ n.rating = s.rating /\ n.rated = s.rated
<1> DEFINE n == [s EXCEPT !.played = s.played + 1, !.score = s.score + c, !.won = s.won + d]
<1>1. s.played + 1 \in Nat /\ s.score + c \in Int /\ s.won + d \in Nat
  BY DEF UserRecord
<1>2. ASSUME NEW a \in Nat, NEW b \in Int, NEW e \in Nat
      PROVE  [s EXCEPT !.played = a, !.score = b, !.won = e] \in UserRecord
  BY DEF UserRecord
<1>3. n \in UserRecord
  BY <1>1, <1>2, Zenon
<1>4. CountedRow(s, c, d) = n
  BY Zenon DEF CountedRow
<1>5. n.played = s.played + 1 /\ n.won = s.won + d /\ n.score = s.score + c
      /\ n.rating = s.rating /\ n.rated = s.rated
  BY DEF UserRecord
<1> HIDE DEF n
<1> QED
  BY <1>3, <1>4, <1>5, Zenon

LEMMA RatedStats ==
  ASSUME RecordsAssumption, NEW stats \in Stats, NEW result
  PROVE  /\ Rated(stats, result) \in Stats
         /\ \A u \in Users : /\ Rated(stats, result)[u].rating = stats[u].rating + Gained(stats, result, u)
                             /\ Rated(stats, result)[u].rated = stats[u].rated + Counts
<1> DEFINE new == Rated(stats, result)
<1>1. \A u \in Users : Gained(stats, result, u) \in Int /\ Counts \in Nat
  BY GainedType
<1>2. CASE Cardinality(Users) < 2
  <2>1. new = stats /\ \A u \in Users : Gained(stats, result, u) = 0 /\ Counts = 0
    BY <1>2 DEF Rated, Gained, Counts
  <2> HIDE DEF new
  <2> QED
    BY <2>1 DEF new, Stats
<1>3. CASE ~(Cardinality(Users) < 2)
  <2> DEFINE change == RatingChanges(Entries(stats, result))
             row(u) == [stats[u] EXCEPT !.rating = @ + change[u], !.rated = @ + 1]
  <2>1. new = [u \in Users |-> row(u)]
    BY <1>3, Zenon DEF Rated
  <2>2. \A u \in Users : change[u] \in Int /\ change[u] = Gained(stats, result, u) /\ Counts = 1
    BY <1>1, <1>3 DEF Gained, Counts
  <2> HIDE DEF change, new
  <2>3. ASSUME NEW u \in Users
        PROVE  row(u) \in [rating : Int, rated : Nat] /\ row(u).rating = stats[u].rating + change[u]
               /\ row(u).rated = stats[u].rated + 1
    <3>1. stats[u] \in [rating : Int, rated : Nat] /\ change[u] \in Int
      BY <2>2 DEF Stats
    <3> QED
      BY <3>1, StatsRated, Zenon
  <2> HIDE DEF row
  <2> QED
    BY <2>1, <2>2, <2>3 DEF new, Stats
<1> QED
  BY <1>2, <1>3

UsersFit(us) == us \in [Users -> UserRecord]

LEMMA CoreIs ==
  ASSUME NEW us, UsersFit(us)
  PROVE  /\ Core(us) \in Stats
         /\ \A u \in Users : Core(us)[u].rating = us[u].rating /\ Core(us)[u].rated = us[u].rated
<1>1. \A u \in Users : us[u].rating \in Int /\ us[u].rated \in Nat
  BY DEF UsersFit, UserRecord
<1> QED
  BY <1>1 DEF Core, Stats

LEMMA CoreGains ==
  ASSUME NEW us, UsersFit(us), NEW result, NEW u
  PROVE  Gained(Core(us), result, u) = Gained(us, result, u)
<1>1. \A v \in Users : [rating |-> Core(us)[v].rating, rated |-> Core(us)[v].rated, score |-> RankedScore(result, v)]
                       = [rating |-> us[v].rating, rated |-> us[v].rated, score |-> RankedScore(result, v)]
  BY CoreIs
<1>2. Entries(Core(us), result) = Entries(us, result)
  BY <1>1, Zenon DEF Entries
<1> QED
  BY <1>2, Zenon DEF Gained

(* the players' rows, too, are changed so; the counters are not *)
LEMMA RatedUsers ==
  ASSUME RecordsAssumption, NEW us, UsersFit(us), NEW result
  PROVE  /\ UsersFit(Rated(us, result))
         /\ \A u \in Users : /\ Rated(us, result)[u].rating = us[u].rating + Gained(us, result, u)
                             /\ Rated(us, result)[u].rated = us[u].rated + Counts
                             /\ Rated(us, result)[u].played = us[u].played /\ Rated(us, result)[u].won = us[u].won
                             /\ Rated(us, result)[u].score = us[u].score
<1> DEFINE new == Rated(us, result)
<1>1. \A u \in Users : Gained(us, result, u) \in Int /\ Counts \in Nat
  BY GainedType
<1>2. CASE Cardinality(Users) < 2
  <2>1. new = us /\ \A u \in Users : Gained(us, result, u) = 0 /\ Counts = 0
    BY <1>2 DEF Rated, Gained, Counts
  <2> HIDE DEF new
  <2>2. \A u \in Users : us[u].rating \in Int /\ us[u].rated \in Nat
    BY DEF UsersFit, UserRecord
  <2> QED
    BY <2>1, <2>2 DEF new
<1>3. CASE ~(Cardinality(Users) < 2)
  <2> DEFINE change == RatingChanges(Entries(us, result))
             row(u) == [us[u] EXCEPT !.rating = @ + change[u], !.rated = @ + 1]
  <2>1. new = [u \in Users |-> row(u)]
    BY <1>3, Zenon DEF Rated
  <2>2. \A u \in Users : change[u] \in Int /\ change[u] = Gained(us, result, u) /\ Counts = 1
    BY <1>1, <1>3 DEF Gained, Counts
  <2> HIDE DEF change, new
  <2>3. ASSUME NEW u \in Users
        PROVE  /\ row(u) \in UserRecord /\ row(u).rating = us[u].rating + change[u] /\ row(u).rated = us[u].rated + 1
               /\ row(u).played = us[u].played /\ row(u).won = us[u].won /\ row(u).score = us[u].score
    <3>1. us[u] \in UserRecord /\ change[u] \in Int
      BY <2>2 DEF UsersFit
    <3> QED
      BY <3>1, RowRated, Zenon
  <2> HIDE DEF row
  <2> QED
    BY <2>1, <2>2, <2>3 DEF new, UsersFit
<1> QED
  BY <1>2, <1>3

LEMMA CoreRated ==
  ASSUME RecordsAssumption, NEW us, UsersFit(us), NEW result
  PROVE  Core(Rated(us, result)) = Rated(Core(us), result)
<1> DEFINE a == Core(Rated(us, result))
           b == Rated(Core(us), result)
<1>1. a \in Stats /\ b \in Stats
  BY RatedUsers, CoreIs, RatedStats
<1>2. \A u \in Users : a[u].rating = us[u].rating + Gained(us, result, u) /\ a[u].rated = us[u].rated + Counts
  BY RatedUsers, CoreIs
<1>3. \A u \in Users : b[u].rating = us[u].rating + Gained(us, result, u) /\ b[u].rated = us[u].rated + Counts
  BY RatedStats, CoreIs, CoreGains
<1> HIDE DEF a, b
<1>4. \A u \in Users : a[u] = b[u]
  BY <1>1, <1>2, <1>3 DEF Stats
<1> QED
  BY <1>1, <1>4 DEF Stats, a, b

Won(result, u) == IF u \in Winners(result) THEN 1 ELSE 0

LEMMA CountedUsers ==
  ASSUME RecordsAssumption, NEW us, UsersFit(us), NEW result \in Results
  PROVE  /\ UsersFit(Counted(us, result)) /\ Core(Counted(us, result)) = Core(us)
         /\ \A u \in Users : /\ Counted(us, result)[u].played = us[u].played + 1
                             /\ Counted(us, result)[u].won = us[u].won + Won(result, u)
                             /\ Counted(us, result)[u].score = us[u].score + result.score[u]
<1> DEFINE new == Counted(us, result)
           row(u) == [us[u] EXCEPT !.played = @ + 1, !.score = @ + result.score[u],
                                   !.won = @ + IF u \in Winners(result) THEN 1 ELSE 0]
<1>1. new = [u \in Users |-> row(u)]
  BY Zenon DEF Counted
<1>2. \A u \in Users : result.score[u] \in Int
  BY DEF RecordsAssumption
<1>3. ASSUME NEW u \in Users
      PROVE  /\ row(u) \in UserRecord /\ row(u).played = us[u].played + 1 /\ row(u).won = us[u].won + Won(result, u)
             /\ row(u).score = us[u].score + result.score[u]
             /\ row(u).rating = us[u].rating /\ row(u).rated = us[u].rated
  <2>1. us[u] \in UserRecord /\ result.score[u] \in Int /\ Won(result, u) \in {0, 1}
    BY <1>2 DEF UsersFit, Won
  <2>2. row(u) = CountedRow(us[u], result.score[u], Won(result, u))
    BY Zenon DEF Won, CountedRow
  <2> HIDE DEF row
  <2> QED
    BY <2>1, <2>2, RowCounted
<1> HIDE DEF new, row
<1>4. Core(new) = Core(us)
  BY <1>1, <1>3 DEF Core
<1> QED
  BY <1>1, <1>3, <1>4 DEF new, UsersFit

-----------------------------------------------------------------------------
(* What the archive holds: rows and adjustments. *)
ArchiveFits(rs, adj) == rs \in [Ids -> RowRecord] /\ adj \in Seq(Adjustment)

LEMMA EventIs ==
  ASSUME RecordsAssumption, NEW rs, NEW adj, ArchiveFits(rs, adj), NEW e \in Events(rs, adj)
  PROVE  /\ e \in EventKey
         /\ \/ e[2] = 0 /\ e[3] \in Ids /\ rs[e[3]].status = "finished" /\ ~rs[e[3]].bots /\ e[1] = rs[e[3]].at
            \/ e[2] = 1 /\ e[3] \in DOMAIN adj /\ adj[e[3]] \in Adjustment /\ e[1] = adj[e[3]].at
<1>1. CASE e \in {<<rs[g].at, 0, g>> : g \in {h \in Finished(rs) : ~rs[h].bots}}
  <2>1. PICK g \in Ids : e = <<rs[g].at, 0, g>> /\ rs[g].status = "finished" /\ ~rs[g].bots
    BY <1>1 DEF Finished
  <2>2. g \in Nat /\ rs[g].at \in Nat
    BY DEF Ids, ArchiveFits, RowRecord
  <2> QED
    BY <2>1, <2>2 DEF EventKey
<1>2. CASE e \in {<<adj[i].at, 1, i>> : i \in DOMAIN adj}
  <2>1. PICK i \in DOMAIN adj : e = <<adj[i].at, 1, i>>
    BY <1>2
  <2>2. i \in Nat /\ adj[i] \in Adjustment
    <3>1. DOMAIN adj = 1 .. Len(adj) /\ Len(adj) \in Nat /\ \A k \in 1 .. Len(adj) : adj[k] \in Adjustment
      BY DEF ArchiveFits
    <3> QED
      BY <3>1
  <2>3. adj[i].at \in Nat
    BY <2>2 DEF Adjustment
  <2> QED
    BY <2>1, <2>2, <2>3 DEF EventKey
<1> QED
  BY <1>1, <1>2 DEF Events

LEMMA ImageFinite ==
  ASSUME NEW S, IsFiniteSet(S), NEW f, DOMAIN f = S
  PROVE  IsFiniteSet({f[x] : x \in S})
<1> DEFINE T == {f[x] : x \in S}
           g == [x \in S |-> f[x]]
<1>1. g \in Surjection(S, T)
  BY DEF Surjection
<1> QED
  BY <1>1, FS_Surjection

LEMMA EventsFinite ==
  ASSUME RecordsAssumption, NEW rs, NEW adj, ArchiveFits(rs, adj)
  PROVE  IsFiniteSet(Events(rs, adj)) /\ Events(rs, adj) \in SUBSET EventKey
<1> DEFINE games == {h \in Finished(rs) : ~rs[h].bots}
           played == {<<rs[g].at, 0, g>> : g \in games}
           changed == {<<adj[i].at, 1, i>> : i \in DOMAIN adj}
<1>1. IsFiniteSet(games) /\ IsFiniteSet(DOMAIN adj)
  <2>1. IsFiniteSet(Ids)
    BY FS_Interval DEF RecordsAssumption, Ids
  <2>2. games \in SUBSET Ids
    BY DEF Finished
  <2>3. DOMAIN adj = 1 .. Len(adj) /\ Len(adj) \in Nat
    BY DEF ArchiveFits
  <2> HIDE DEF games
  <2> QED
    BY <2>1, <2>2, <2>3, FS_Subset, FS_Interval
<1>2. IsFiniteSet(played)
  <2> DEFINE f == [g \in games |-> <<rs[g].at, 0, g>>]
  <2>1. played = {f[g] : g \in games} /\ DOMAIN f = games
    OBVIOUS
  <2> HIDE DEF games, f, played
  <2> QED
    BY <1>1, <2>1, ImageFinite
<1>3. IsFiniteSet(changed)
  <2> DEFINE f == [i \in DOMAIN adj |-> <<adj[i].at, 1, i>>]
  <2>1. changed = {f[i] : i \in DOMAIN adj} /\ DOMAIN f = DOMAIN adj
    OBVIOUS
  <2> HIDE DEF f, changed
  <2> QED
    BY <1>1, <2>1, ImageFinite
<1>4. Events(rs, adj) = played \cup changed
  BY DEF Events
<1> HIDE DEF played, changed
<1>5. IsFiniteSet(Events(rs, adj))
  <2>1. IsFiniteSet(played \cup changed)
    BY <1>2, <1>3, FS_Union
  <2> QED
    BY <1>4, <2>1
<1>6. \A e \in Events(rs, adj) : e \in EventKey
  BY EventIs
<1> QED
  BY <1>5, <1>6

(* One player's rating is changed by hand. *)
AdjustedBy(stats, a) == [stats EXCEPT ![a.user].rating = @ + a.delta]

LEMMA AdjustedStats ==
  ASSUME NEW stats \in Stats, NEW a \in Adjustment
  PROVE  /\ AdjustedBy(stats, a) \in Stats
         /\ \A u \in Users : /\ AdjustedBy(stats, a)[u].rated = stats[u].rated
                             /\ AdjustedBy(stats, a)[u].rating = stats[u].rating + IF u = a.user THEN a.delta ELSE 0
<1> DEFINE n == [stats[a.user] EXCEPT !.rating = stats[a.user].rating + a.delta]
           new == [stats EXCEPT ![a.user] = n]
<1>1. a.user \in Users /\ a.delta \in Int
  BY DEF Adjustment
<1>2. AdjustedBy(stats, a) = new
  BY DEF AdjustedBy
<1>3. stats[a.user] \in [rating : Int, rated : Nat]
  BY <1>1 DEF Stats
<1>4. n \in [rating : Int, rated : Nat] /\ n.rating = stats[a.user].rating + a.delta /\ n.rated = stats[a.user].rated
  BY <1>1, <1>3
<1> HIDE DEF n
<1>5. new \in Stats /\ \A u \in Users : new[u] = IF u = a.user THEN n ELSE stats[u]
  BY <1>1, <1>4 DEF Stats
<1>6. \A u \in Users : stats[u].rating \in Int
  BY DEF Stats
<1> HIDE DEF new
<1> QED
  BY <1>2, <1>4, <1>5, <1>6

LEMMA AppliedIs ==
  ASSUME RecordsAssumption, NEW rs, NEW adj, ArchiveFits(rs, adj), NEW e \in Events(rs, adj), NEW stats \in Stats
  PROVE  /\ Applied(rs, adj, e, stats) \in Stats
         /\ e[2] = 1 => Applied(rs, adj, e, stats) = AdjustedBy(stats, adj[e[3]])
         /\ e[2] = 0 => Applied(rs, adj, e, stats) = Rated(stats, ResultOf(rs[e[3]]))
<1>1. CASE e[2] = 1
  <2>1. Applied(rs, adj, e, stats) = AdjustedBy(stats, adj[e[3]])
    BY <1>1, Zenon DEF Applied, AdjustedBy
  <2>2. adj[e[3]] \in Adjustment
    BY <1>1, EventIs
  <2> QED
    BY <1>1, <2>1, <2>2, AdjustedStats
<1>2. CASE e[2] = 0
  <2>1. Applied(rs, adj, e, stats) = Rated(stats, ResultOf(rs[e[3]]))
    BY <1>2 DEF Applied
  <2> QED
    BY <1>2, <2>1, RatedStats
<1> QED
  BY <1>1, <1>2, EventIs

-----------------------------------------------------------------------------
(* The computed ratings are a fold. *)
LatestOf(es) == [T \in SUBSET es |-> Latest(T)]
Applying(rs, adj) == [p \in Events(rs, adj) \X Stats |-> Applied(rs, adj, p[1], p[2])]
RatingsFold(f, rs, adj) == Fold(f, Events(rs, adj), Stats, Start, LatestOf(Events(rs, adj)), Applying(rs, adj))

LEMMA LatestPicks ==
  ASSUME NEW es \in SUBSET EventKey, IsFiniteSet(es)
  PROVE  Picks(LatestOf(es), es)
<1> SUFFICES ASSUME NEW T \in SUBSET es, T # {}
             PROVE  Latest(T) \in T
  BY DEF Picks, LatestOf
<1>1. IsFiniteSet(T) /\ T \in SUBSET EventKey
  BY FS_Subset
<1> QED
  BY <1>1, LatestIs

LEMMA ApplyingType ==
  ASSUME RecordsAssumption, NEW rs, NEW adj, ArchiveFits(rs, adj)
  PROVE  /\ Applying(rs, adj) \in [Events(rs, adj) \X Stats -> Stats]
         /\ \A e \in Events(rs, adj), v \in Stats : Applying(rs, adj)[<<e, v>>] = Applied(rs, adj, e, v)
<1>1. \A p \in Events(rs, adj) \X Stats : Applied(rs, adj, p[1], p[2]) \in Stats
  BY AppliedIs
<1> QED
  BY <1>1 DEF Applying

LEMMA StartType == RecordsAssumption => Start \in Stats
BY DEF RecordsAssumption, Start, Stats

LEMMA RatingsAreFold ==
  ASSUME RecordsAssumption, NEW rs, NEW adj, ArchiveFits(rs, adj)
  PROVE  \E f : RatingsFold(f, rs, adj) /\ ComputedRatings(rs, adj) = f[Events(rs, adj)]
<1> DEFINE S == Events(rs, adj)
           Of(f) == [T \in SUBSET S |-> IF T = {} THEN [u \in Users |-> [rating |-> Initial, rated |-> 0]]
                                        ELSE LET x == Latest(T) IN Applied(rs, adj, x, f[T \ {x}])]
           iter == CHOOSE f : f = Of(f)
<1>1. ComputedRatings(rs, adj) = iter[S]
  BY Zenon DEF ComputedRatings, MapThenFoldSet
<1>2. IsFiniteSet(S) /\ Picks(LatestOf(S), S)
  BY EventsFinite, LatestPicks
<1>3. PICK f : RatingsFold(f, rs, adj)
  <2> HIDE DEF S
  <2>1. \E f : Fold(f, S, Stats, Start, LatestOf(S), Applying(rs, adj))
    <3>1. Start \in Stats /\ Applying(rs, adj) \in [S \X Stats -> Stats]
      BY StartType, ApplyingType DEF S
    <3> QED
      BY <1>2, <3>1, FoldExists
  <2> QED
    BY <2>1 DEF S, RatingsFold
<1>4. ASSUME NEW T \in SUBSET S
      PROVE  f[T] \in Stats /\ f[T] = IF T = {} THEN Start ELSE Applied(rs, adj, Latest(T), f[T \ {Latest(T)}])
  <2>1. Fold(f, S, Stats, Start, LatestOf(S), Applying(rs, adj))
    BY <1>3 DEF RatingsFold
  <2>2. CASE T = {}
    <3> HIDE DEF S
    <3> QED
      BY <2>1, <2>2 DEF Fold
  <2>3. CASE T # {}
    <3>1. Latest(T) \in T /\ Latest(T) \in S /\ LatestOf(S)[T] = Latest(T) /\ T \ {Latest(T)} \in SUBSET S
      BY <1>2, <2>3 DEF Picks, LatestOf
    <3> HIDE DEF S
    <3>2. f[T] = Applying(rs, adj)[<<Latest(T), f[T \ {Latest(T)}]>>] /\ f[T \ {Latest(T)}] \in Stats /\ f[T] \in Stats
      BY <2>1, <2>3, <3>1 DEF Fold
    <3>3. f[T] = Applied(rs, adj, Latest(T), f[T \ {Latest(T)}])
      BY <3>1, <3>2, ApplyingType DEF S
    <3> QED
      BY <2>3, <3>2, <3>3
  <2> QED
    BY <2>2, <2>3
<1>5. f = Of(f)
  <2>1. \A T \in SUBSET S : f[T] = IF T = {} THEN [u \in Users |-> [rating |-> Initial, rated |-> 0]]
                                   ELSE LET x == Latest(T) IN Applied(rs, adj, x, f[T \ {x}])
    BY <1>4, Zenon DEF Start
  <2>2. f = [T \in SUBSET S |-> f[T]]
    BY <1>3 DEF RatingsFold, Fold
  <2> HIDE DEF S
  <2> QED
    BY <2>1, <2>2, Zenon
<1>6. iter = Of(iter)
  BY <1>5
<1> HIDE DEF iter
<1>7. \A T \in SUBSET S : iter[T] = f[T]
  <2>1. ASSUME NEW h, h = Of(h)
        PROVE  h[{}] = Start /\ \A T \in SUBSET S : T # {} => h[T] = Applied(rs, adj, Latest(T), h[T \ {Latest(T)}])
    <3> HIDE DEF S
    <3> QED
      BY <2>1, Zenon DEF Start
  <2>2. iter[{}] = f[{}] /\ \A T \in SUBSET S : T # {} =>
          iter[T] = Applied(rs, adj, Latest(T), iter[T \ {Latest(T)}]) /\ f[T] = Applied(rs, adj, Latest(T), f[T \ {Latest(T)}])
    <3> HIDE DEF Of
    <3> QED
      BY <1>5, <1>6, <2>1
  <2>3. \A T \in SUBSET S : T # {} /\ iter[T \ {LatestOf(S)[T]}] = f[T \ {LatestOf(S)[T]}] => iter[T] = f[T]
    BY <2>2 DEF LatestOf
  <2> HIDE DEF S
  <2> QED
    BY <1>2, <2>2, <2>3, BySize
<1> QED
  BY <1>1, <1>3, <1>7

LEMMA ComputedType ==
  ASSUME RecordsAssumption, NEW rs, NEW adj, ArchiveFits(rs, adj)
  PROVE  ComputedRatings(rs, adj) \in Stats
<1>1. PICK f : RatingsFold(f, rs, adj) /\ ComputedRatings(rs, adj) = f[Events(rs, adj)]
  BY RatingsAreFold
<1>2. f[Events(rs, adj)] \in Stats
  BY <1>1 DEF RatingsFold, Fold
<1> QED
  BY <1>1, <1>2

(* The events of two archives mean the same. *)
Alike(rs, adj, rs2, adj2, es) ==
  \A e \in es : /\ e[2] = 1 => adj2[e[3]] = adj[e[3]]
                /\ e[2] = 0 => ResultOf(rs2[e[3]]) = ResultOf(rs[e[3]])

StepsAlike(step1, step2, es) == \A e \in es, v \in Stats : step1[<<e, v>>] = step2[<<e, v>>]

LEMMA AppliedAlike ==
  ASSUME RecordsAssumption, NEW rs, NEW adj, ArchiveFits(rs, adj), NEW rs2, NEW adj2, ArchiveFits(rs2, adj2),
         NEW es, es \subseteq Events(rs, adj), es \subseteq Events(rs2, adj2), Alike(rs, adj, rs2, adj2, es)
  PROVE  StepsAlike(Applying(rs, adj), Applying(rs2, adj2), es)
<1> SUFFICES ASSUME NEW e \in es, NEW v \in Stats
             PROVE  Applying(rs, adj)[<<e, v>>] = Applying(rs2, adj2)[<<e, v>>]
  BY Zenon DEF StepsAlike
<1>1. e \in Events(rs, adj) /\ e \in Events(rs2, adj2)
  OBVIOUS
<1>2. Applying(rs, adj)[<<e, v>>] = Applied(rs, adj, e, v) /\ Applying(rs2, adj2)[<<e, v>>] = Applied(rs2, adj2, e, v)
  BY <1>1, ApplyingType
<1>3. e[2] = 0 \/ e[2] = 1
  BY <1>1, EventIs
<1>4. Applied(rs, adj, e, v) = Applied(rs2, adj2, e, v)
  <2>1. CASE e[2] = 1
    BY <1>1, <2>1, AppliedIs DEF Alike
  <2>2. CASE e[2] = 0
    BY <1>1, <2>2, AppliedIs DEF Alike
  <2> QED
    BY <1>3, <2>1, <2>2
<1> QED
  BY <1>2, <1>4

LEMMA FoldsAlike ==
  ASSUME RecordsAssumption, NEW rs, NEW adj, ArchiveFits(rs, adj), NEW rs2, NEW adj2, ArchiveFits(rs2, adj2),
         Events(rs, adj) \subseteq Events(rs2, adj2), Alike(rs, adj, rs2, adj2, Events(rs, adj)),
         NEW f1, NEW f2, RatingsFold(f1, rs, adj), RatingsFold(f2, rs2, adj2)
  PROVE  f1[Events(rs, adj)] = f2[Events(rs, adj)]
<1> DEFINE S == Events(rs, adj)
           S2 == Events(rs2, adj2)
<1>1. IsFiniteSet(S) /\ Picks(LatestOf(S), S) /\ S \subseteq S /\ S \subseteq S2
  BY EventsFinite, LatestPicks
<1>2. \A T \in SUBSET S : T # {} => LatestOf(S)[T] = LatestOf(S2)[T]
  BY <1>1 DEF LatestOf
<1>3. StepsAlike(Applying(rs, adj), Applying(rs2, adj2), S)
  BY <1>1, AppliedAlike
<1>4. Fold(f1, S, Stats, Start, LatestOf(S), Applying(rs, adj)) /\ Fold(f2, S2, Stats, Start, LatestOf(S2), Applying(rs2, adj2))
  BY DEF RatingsFold
<1> HIDE DEF S, S2
<1>5. \A T \in SUBSET S : f1[T] = f2[T]
  BY <1>1, <1>2, <1>3, <1>4, FoldsAgree DEF StepsAlike
<1>6. f1[S] = f2[S]
  BY <1>5
<1> QED
  BY <1>6 DEF S

LEMMA ComputedSame ==
  ASSUME RecordsAssumption, NEW rs, NEW adj, ArchiveFits(rs, adj), NEW rs2, NEW adj2, ArchiveFits(rs2, adj2),
         Events(rs2, adj2) = Events(rs, adj), Alike(rs, adj, rs2, adj2, Events(rs, adj))
  PROVE  ComputedRatings(rs2, adj2) = ComputedRatings(rs, adj)
<1>1. PICK f1 : RatingsFold(f1, rs, adj) /\ ComputedRatings(rs, adj) = f1[Events(rs, adj)]
  BY RatingsAreFold
<1>2. PICK f2 : RatingsFold(f2, rs2, adj2) /\ ComputedRatings(rs2, adj2) = f2[Events(rs2, adj2)]
  BY RatingsAreFold
<1>3. f1[Events(rs, adj)] = f2[Events(rs, adj)]
  BY <1>1, <1>2, FoldsAlike
<1> QED
  BY <1>1, <1>2, <1>3

(* What happens last is applied last. *)
LEMMA ComputedGrows ==
  ASSUME RecordsAssumption, NEW rs, NEW adj, ArchiveFits(rs, adj), NEW rs2, NEW adj2, ArchiveFits(rs2, adj2),
         NEW e, e \notin Events(rs, adj), Events(rs2, adj2) = Events(rs, adj) \cup {e},
         \A d \in Events(rs, adj) : Earlier(d, e), Alike(rs, adj, rs2, adj2, Events(rs, adj))
  PROVE  ComputedRatings(rs2, adj2) = Applied(rs2, adj2, e, ComputedRatings(rs, adj))
<1> DEFINE S == Events(rs, adj)
           S2 == Events(rs2, adj2)
<1>1. PICK f1 : RatingsFold(f1, rs, adj) /\ ComputedRatings(rs, adj) = f1[S]
  BY RatingsAreFold
<1>2. PICK f2 : RatingsFold(f2, rs2, adj2) /\ ComputedRatings(rs2, adj2) = f2[S2]
  BY RatingsAreFold
<1>3. f1[S] = f2[S]
  BY <1>1, <1>2, FoldsAlike
<1>4. S2 # {} /\ S2 \ {e} = S /\ e \in S2 /\ S2 \in SUBSET S2 /\ S \in SUBSET S2
  OBVIOUS
<1>5. IsFiniteSet(S2) /\ S2 \in SUBSET EventKey
  BY EventsFinite
<1>6. Latest(S2) = e
  <2>1. Latest(S2) \in S2 /\ \A d \in S2 \ {Latest(S2)} : Earlier(d, Latest(S2))
    BY <1>4, <1>5, LatestIs
  <2>2. ASSUME Latest(S2) # e
        PROVE  FALSE
    <3>1. Latest(S2) \in S /\ Earlier(e, Latest(S2)) /\ Earlier(Latest(S2), e)
      BY <1>4, <2>1, <2>2
    <3>2. Latest(S2) \in EventKey /\ e \in EventKey
      BY <1>4, <1>5, <2>1
    <3> HIDE DEF S, S2
    <3> QED
      BY <3>1, <3>2 DEF Earlier, EventKey
  <2> QED
    BY <2>2
<1>7. f2[S2] = Applying(rs2, adj2)[<<e, f2[S]>>] /\ f2[S] \in Stats
  <2>1. Fold(f2, S2, Stats, Start, LatestOf(S2), Applying(rs2, adj2)) /\ LatestOf(S2)[S2] = e
    BY <1>2, <1>6 DEF RatingsFold, LatestOf
  <2> HIDE DEF S, S2
  <2> QED
    BY <1>4, <2>1 DEF Fold
<1>8. Applying(rs2, adj2)[<<e, f2[S]>>] = Applied(rs2, adj2, e, f2[S])
  <2>1. \A v \in Stats : Applying(rs2, adj2)[<<e, v>>] = Applied(rs2, adj2, e, v)
    BY <1>4, ApplyingType, Zenon
  <2> HIDE DEF S
  <2> QED
    BY <1>7, <2>1, Zenon
<1> QED
  BY <1>1, <1>2, <1>3, <1>7, <1>8

-----------------------------------------------------------------------------
(* The players' rows show what the archive says. *)
CountersShown(us, rs) ==
  \A u \in Users : /\ us[u].played = ComputedCounters(rs, u).played
                   /\ us[u].won = ComputedCounters(rs, u).won
                   /\ us[u].score = ComputedCounters(rs, u).score
Shown(us, rs, adj) == Core(us) = ComputedRatings(rs, adj) /\ CountersShown(us, rs)

LEMMA CountersType ==
  ASSUME RecordsAssumption, NEW rs \in [Ids -> RowRecord], NEW u \in Users
  PROVE  /\ ComputedCounters(rs, u) \in [played : Nat, won : Nat, score : Int]
         /\ IsFiniteSet(Finished(rs)) /\ \A g \in Finished(rs) : ResultOf(rs[g]).score[u] \in Int
<1> DEFINE mine == Finished(rs)
           wins == {g \in mine : rs[g].state.over /\ u \in Winners(rs[g].state.result)}
           scores == [g \in mine |-> ResultOf(rs[g]).score[u]]
<1>1. IsFiniteSet(mine) /\ IsFiniteSet(wins)
  <2>1. IsFiniteSet(Ids) /\ mine \in SUBSET Ids
    BY FS_Interval DEF RecordsAssumption, Ids, Finished
  <2> HIDE DEF mine
  <2> QED
    BY <2>1, FS_Subset
<1>2. ASSUME NEW g \in mine
      PROVE  scores[g] \in Int
  <2>1. g \in Ids /\ rs[g].state \in GameRecord
    BY DEF Finished, RowRecord
  <2>2. CASE rs[g].state.over
    <3>1. rs[g].state.result \in Results
      BY <2>1, <2>2, GameRecordIs
    <3> QED
      BY <2>2, <3>1 DEF RecordsAssumption, ResultOf
  <2>3. CASE ~rs[g].state.over
    BY <2>3 DEF ResultOf
  <2> QED
    BY <2>2, <2>3
<1>3. scores \in [mine -> Int]
  BY <1>2
<1>4. ComputedCounters(rs, u) = [played |-> Cardinality(mine), won |-> Cardinality(wins), score |-> SumFunction(scores)]
  BY Zenon DEF ComputedCounters
<1> HIDE DEF wins, scores
<1>5. Cardinality(mine) \in Nat /\ Cardinality(wins) \in Nat /\ SumFunction(scores) \in Int
  <2> HIDE DEF mine
  <2> QED
    BY <1>1, <1>3, FS_CardinalityType, SumType
<1>6. \A g \in mine : ResultOf(rs[g]).score[u] \in Int
  BY <1>2 DEF scores
<1> QED
  BY <1>1, <1>4, <1>5, <1>6

LEMMA ShownIs ==
  ASSUME RecordsAssumption, NEW rs, NEW adj, ArchiveFits(rs, adj), NEW us, UsersFit(us)
  PROVE  us = Recomputed(rs, adj) <=> Shown(us, rs, adj)
<1> DEFINE c(u) == ComputedCounters(rs, u)
           q == ComputedRatings(rs, adj)
           row(u) == [rating |-> q[u].rating, rated |-> q[u].rated, played |-> c(u).played, won |-> c(u).won,
                      score |-> c(u).score]
<1>1. Recomputed(rs, adj) = [u \in Users |-> row(u)]
  BY Zenon DEF Recomputed
<1>2. q \in Stats /\ Core(us) \in Stats
  BY ComputedType, CoreIs
<1> HIDE DEF c, q
<1>3. us = Recomputed(rs, adj) <=> \A u \in Users : us[u] = row(u)
  <2> HIDE DEF row
  <2> QED
    BY <1>1 DEF UsersFit
<1>4. Core(us) = q <=> \A u \in Users : us[u].rating = q[u].rating /\ us[u].rated = q[u].rated
  <2>1. (\A u \in Users : us[u].rating = q[u].rating /\ us[u].rated = q[u].rated) => \A u \in Users : Core(us)[u] = q[u]
    BY <1>2, CoreIs DEF Stats
  <2> QED
    BY <1>2, <2>1, CoreIs DEF Stats
<1>5. ASSUME NEW u \in Users
      PROVE  us[u] = row(u) <=> /\ us[u].rating = q[u].rating /\ us[u].rated = q[u].rated
                                /\ us[u].played = c(u).played /\ us[u].won = c(u).won /\ us[u].score = c(u).score
  <2>1. us[u] = [rating |-> us[u].rating, rated |-> us[u].rated, played |-> us[u].played, won |-> us[u].won,
                 score |-> us[u].score]
    BY DEF UsersFit, UserRecord
  <2> QED
    BY <2>1
<1> HIDE DEF row
<1>6. CountersShown(us, rs) <=> \A u \in Users : us[u].played = c(u).played /\ us[u].won = c(u).won /\ us[u].score = c(u).score
  BY DEF CountersShown, c
<1> QED
  BY <1>3, <1>4, <1>5, <1>6 DEF Shown, q

LEMMA RecomputedType ==
  ASSUME RecordsAssumption, NEW rs, NEW adj, ArchiveFits(rs, adj)
  PROVE  UsersFit(Recomputed(rs, adj))
<1> DEFINE c(u) == ComputedCounters(rs, u)
           q == ComputedRatings(rs, adj)
           row(u) == [rating |-> q[u].rating, rated |-> q[u].rated, played |-> c(u).played, won |-> c(u).won,
                      score |-> c(u).score]
<1>1. Recomputed(rs, adj) = [u \in Users |-> row(u)]
  BY Zenon DEF Recomputed
<1>2. q \in Stats
  BY ComputedType
<1>3. \A u \in Users : c(u) \in [played : Nat, won : Nat, score : Int]
  BY CountersType DEF ArchiveFits
<1> HIDE DEF c, q
<1>4. \A u \in Users : row(u) \in UserRecord
  BY <1>2, <1>3 DEF Stats, UserRecord
<1> HIDE DEF row
<1> QED
  BY <1>1, <1>4 DEF UsersFit

(* Row g of rs2 says of ratings and counters what it says in rs. *)
SameResult(rs, rs2, g) ==
  /\ rs2[g].status = "finished" <=> rs[g].status = "finished"
  /\ rs[g].status = "finished" => rs2[g].at = rs[g].at /\ rs2[g].bots = rs[g].bots /\ rs2[g].state = rs[g].state
  /\ rs2[g].at \in {rs[g].at, 0}
SameResults(rs, rs2) == \A g \in Ids : SameResult(rs, rs2, g)

(* Row g has got a result at t. *)
Recorded(rs, rs2, g, result, bots, t) ==
  /\ rs[g].status # "finished" /\ rs2[g].status = "finished" /\ rs2[g].state.over /\ rs2[g].state.result = result
  /\ rs2[g].bots = bots /\ rs2[g].at = t
  /\ \A h \in Ids \ {g} : SameResult(rs, rs2, h)

Until(rs, adj, t) == (\A g \in Ids : rs[g].at <= t) /\ (\A i \in DOMAIN adj : adj[i].at <= t)

(* What holds of the players' rows and the archive at t, and what it takes  *)
(* of a handler to keep it so.                                              *)
RatingsFit(rs, us, adj, t) ==
  /\ ArchiveFits(rs, adj) /\ UsersFit(us) /\ Until(rs, adj, t)
  /\ DistinctTimes(Events(rs, adj)) => Shown(us, rs, adj)
KeepsRatings(rs, us, rs2, us2, t) == \A adj : RatingsFit(rs, us, adj, t) => RatingsFit(rs2, us2, adj, t)

LEMMA SameArchive ==
  ASSUME RecordsAssumption, NEW rs, NEW adj, ArchiveFits(rs, adj), NEW rs2 \in [Ids -> RowRecord], SameResults(rs, rs2)
  PROVE  /\ ArchiveFits(rs2, adj) /\ Finished(rs2) = Finished(rs) /\ Events(rs2, adj) = Events(rs, adj)
         /\ Alike(rs, adj, rs2, adj, Events(rs, adj))
         /\ \A g \in Finished(rs) : rs2[g].state = rs[g].state
<1>1. Finished(rs2) = Finished(rs)
  BY DEF Finished, SameResults, SameResult
<1>2. \A g \in Finished(rs) : rs2[g].at = rs[g].at /\ rs2[g].bots = rs[g].bots /\ rs2[g].state = rs[g].state
  BY DEF Finished, SameResults, SameResult
<1>3. {h \in Finished(rs2) : ~rs2[h].bots} = {h \in Finished(rs) : ~rs[h].bots}
  BY <1>1, <1>2
<1>4. {<<rs2[g].at, 0, g>> : g \in {h \in Finished(rs2) : ~rs2[h].bots}}
      = {<<rs[g].at, 0, g>> : g \in {h \in Finished(rs) : ~rs[h].bots}}
  BY <1>2, <1>3
<1>5. Events(rs2, adj) = Events(rs, adj)
  BY <1>4 DEF Events
<1>6. \A e \in Events(rs, adj) : e[2] = 0 => e[3] \in Finished(rs)
  BY EventIs DEF Finished
<1>7. Alike(rs, adj, rs2, adj, Events(rs, adj))
  BY <1>2, <1>6 DEF Alike, ResultOf
<1> QED
  BY <1>1, <1>2, <1>5, <1>7 DEF ArchiveFits

LEMMA SameCounters ==
  ASSUME NEW rs, NEW rs2, Finished(rs2) = Finished(rs), \A g \in Finished(rs) : rs2[g].state = rs[g].state, NEW u
  PROVE  ComputedCounters(rs2, u) = ComputedCounters(rs, u)
<1> DEFINE wins(q) == {g \in Finished(rs) : q[g].state.over /\ u \in Winners(q[g].state.result)}
           scores(q) == [g \in Finished(rs) |-> ResultOf(q[g]).score[u]]
           made(a, b) == [played |-> Cardinality(Finished(rs)), won |-> Cardinality(a), score |-> SumFunction(b)]
<1>1. wins(rs2) = wins(rs) /\ scores(rs2) = scores(rs)
  BY DEF ResultOf
<1>2. ComputedCounters(rs, u) = made(wins(rs), scores(rs)) /\ ComputedCounters(rs2, u) = made(wins(rs2), scores(rs2))
  BY Zenon DEF ComputedCounters
<1> HIDE DEF made, wins, scores
<1> QED
  BY <1>1, <1>2

LEMMA SameRecomputed ==
  ASSUME RecordsAssumption, NEW rs, NEW us, NEW rs2 \in [Ids -> RowRecord], SameResults(rs, rs2), NEW t \in Nat
  PROVE  KeepsRatings(rs, us, rs2, us, t)
<1> SUFFICES ASSUME NEW adj, RatingsFit(rs, us, adj, t)
             PROVE  RatingsFit(rs2, us, adj, t)
  BY DEF KeepsRatings
<1>1. ArchiveFits(rs, adj) /\ UsersFit(us) /\ Until(rs, adj, t) /\ (DistinctTimes(Events(rs, adj)) => Shown(us, rs, adj))
  BY DEF RatingsFit
<1>2. ArchiveFits(rs2, adj) /\ Events(rs2, adj) = Events(rs, adj)
      /\ ComputedRatings(rs2, adj) = ComputedRatings(rs, adj)
  BY <1>1, SameArchive, ComputedSame
<1>3. \A u : ComputedCounters(rs2, u) = ComputedCounters(rs, u)
  BY <1>1, SameArchive, SameCounters
<1>4. Until(rs2, adj, t)
  BY <1>1 DEF Until, SameResults, SameResult
<1> QED
  BY <1>1, <1>2, <1>3, <1>4 DEF RatingsFit, Shown, CountersShown

LEMMA CountersGrow ==
  ASSUME RecordsAssumption, NEW rs \in [Ids -> RowRecord], NEW rs2 \in [Ids -> RowRecord], NEW g \in Ids,
         NEW result \in Results, NEW bots, NEW t, Recorded(rs, rs2, g, result, bots, t), NEW u \in Users
  PROVE  /\ ComputedCounters(rs2, u).played = ComputedCounters(rs, u).played + 1
         /\ ComputedCounters(rs2, u).won = ComputedCounters(rs, u).won + Won(result, u)
         /\ ComputedCounters(rs2, u).score = ComputedCounters(rs, u).score + result.score[u]
<1> DEFINE mine == Finished(rs)
           mine2 == Finished(rs2)
           wins == {h \in mine : rs[h].state.over /\ u \in Winners(rs[h].state.result)}
           wins2 == {h \in mine2 : rs2[h].state.over /\ u \in Winners(rs2[h].state.result)}
           scores == [h \in mine |-> ResultOf(rs[h]).score[u]]
           scores2 == [h \in mine2 |-> ResultOf(rs2[h]).score[u]]
<1>1. g \notin mine /\ mine2 = mine \cup {g} /\ \A h \in mine : rs2[h].state = rs[h].state
  BY DEF Finished, Recorded, SameResult
<1>2. IsFiniteSet(mine) /\ scores \in [mine -> Int] /\ scores2 \in [mine2 -> Int]
  BY CountersType
<1>3. wins2 = IF u \in Winners(result) THEN wins \cup {g} ELSE wins
  BY <1>1 DEF Recorded
<1>4. g \notin wins /\ IsFiniteSet(wins)
  <2>1. wins \in SUBSET mine
    OBVIOUS
  <2> HIDE DEF wins, mine
  <2> QED
    BY <1>1, <1>2, <2>1, FS_Subset
<1>5. (\A h \in mine : scores2[h] = scores[h]) /\ scores2[g] = result.score[u]
  BY <1>1 DEF ResultOf, Recorded
<1>6. /\ ComputedCounters(rs, u) = [played |-> Cardinality(mine), won |-> Cardinality(wins), score |-> SumFunction(scores)]
      /\ ComputedCounters(rs2, u) = [played |-> Cardinality(mine2), won |-> Cardinality(wins2), score |-> SumFunction(scores2)]
  BY Zenon DEF ComputedCounters
<1> HIDE DEF mine, mine2, wins, wins2, scores, scores2
<1>7. Cardinality(mine2) = Cardinality(mine) + 1
  BY <1>1, <1>2, FS_AddElement
<1>8. Cardinality(wins2) = Cardinality(wins) + Won(result, u)
  <2>1. Cardinality(wins \cup {g}) = Cardinality(wins) + 1 /\ Cardinality(wins) \in Nat
    BY <1>4, FS_AddElement, FS_CardinalityType
  <2> QED
    BY <1>3, <2>1 DEF Won
<1>9. SumFunction(scores2) = SumFunction(scores) + result.score[u]
  <2>1. IsFiniteSet(mine) /\ g \notin mine /\ scores \in [mine -> Int] /\ scores2 \in [mine \cup {g} -> Int]
    BY <1>1, <1>2
  <2>2. \A h \in mine : scores2[h] = scores[h]
    BY <1>5
  <2>3. OneMore(scores, scores2, mine, g)
    BY <2>1, <2>2 DEF OneMore
  <2>4. SumFunction(scores2) = SumFunction(scores) + scores2[g]
    BY <2>3, SumGrows
  <2> QED
    BY <1>5, <2>4
<1> QED
  BY <1>6, <1>7, <1>8, <1>9

RatedBy(us, result, bots) == IF bots THEN Counted(us, result) ELSE Rated(Counted(us, result), result)

LEMMA RatedByIs ==
  ASSUME RecordsAssumption, NEW us, UsersFit(us), NEW result \in Results, NEW bots
  PROVE  /\ UsersFit(RatedBy(us, result, bots))
         /\ Core(RatedBy(us, result, bots)) = IF bots THEN Core(us) ELSE Rated(Core(us), result)
         /\ \A u \in Users : /\ RatedBy(us, result, bots)[u].played = us[u].played + 1
                             /\ RatedBy(us, result, bots)[u].won = us[u].won + Won(result, u)
                             /\ RatedBy(us, result, bots)[u].score = us[u].score + result.score[u]
<1>1. UsersFit(Counted(us, result)) /\ Core(Counted(us, result)) = Core(us)
      /\ \A u \in Users : /\ Counted(us, result)[u].played = us[u].played + 1
                          /\ Counted(us, result)[u].won = us[u].won + Won(result, u)
                          /\ Counted(us, result)[u].score = us[u].score + result.score[u]
  BY CountedUsers
<1>2. CASE bots
  BY <1>1, <1>2 DEF RatedBy
<1>3. CASE ~bots
  <2>1. Core(Rated(Counted(us, result), result)) = Rated(Core(us), result)
    BY <1>1, CoreRated
  <2> QED
    BY <1>1, <1>3, <2>1, RatedUsers DEF RatedBy
<1> QED
  BY <1>2, <1>3

(* The result of a game, recorded last, is what it adds to the computed     *)
(* ratings and counters.                                                    *)
LEMMA ResultKeepsRatings ==
  ASSUME RecordsAssumption, NEW rs, NEW us, NEW rs2 \in [Ids -> RowRecord], NEW t \in Nat, NEW g \in Ids,
         NEW result \in Results, NEW bots \in BOOLEAN, Recorded(rs, rs2, g, result, bots, t)
  PROVE  KeepsRatings(rs, us, rs2, RatedBy(us, result, bots), t)
<1> SUFFICES ASSUME NEW adj, RatingsFit(rs, us, adj, t)
             PROVE  RatingsFit(rs2, RatedBy(us, result, bots), adj, t)
  BY DEF KeepsRatings
<1> DEFINE us2 == RatedBy(us, result, bots)
           e == <<t, 0, g>>
<1>1. ArchiveFits(rs, adj) /\ UsersFit(us) /\ Until(rs, adj, t) /\ (DistinctTimes(Events(rs, adj)) => Shown(us, rs, adj))
  BY DEF RatingsFit
<1>2. ArchiveFits(rs2, adj) /\ rs \in [Ids -> RowRecord]
  BY <1>1 DEF ArchiveFits
<1>3. Until(rs2, adj, t)
  BY <1>1 DEF Until, Recorded, SameResult
<1>4. Finished(rs2) = Finished(rs) \cup {g} /\ g \notin Finished(rs)
      /\ \A h \in Finished(rs) : rs2[h].at = rs[h].at /\ rs2[h].bots = rs[h].bots /\ rs2[h].state = rs[h].state
  BY DEF Finished, Recorded, SameResult
<1>5. rs2[g].bots = bots /\ rs2[g].at = t /\ ResultOf(rs2[g]) = result
  BY DEF Recorded, ResultOf
<1>6. Events(rs2, adj) = (IF bots THEN Events(rs, adj) ELSE Events(rs, adj) \cup {e})
  <2>1. {h \in Finished(rs2) : ~rs2[h].bots} = {h \in Finished(rs) : ~rs[h].bots} \cup (IF bots THEN {} ELSE {g})
    BY <1>4, <1>5
  <2> DEFINE games == {h \in Finished(rs) : ~rs[h].bots}
             games2 == {h \in Finished(rs2) : ~rs2[h].bots}
  <2>2. games2 = games \cup (IF bots THEN {} ELSE {g}) /\ \A h \in games : rs2[h].at = rs[h].at
    BY <1>4, <2>1
  <2> HIDE DEF games, games2
  <2>3. {<<rs2[h].at, 0, h>> : h \in games2} = {<<rs[h].at, 0, h>> : h \in games} \cup (IF bots THEN {} ELSE {e})
    <3>1. \A h \in games : <<rs2[h].at, 0, h>> = <<rs[h].at, 0, h>>
      BY <2>2
    <3>2. <<rs2[g].at, 0, g>> = e
      BY <1>5
    <3> HIDE DEF e
    <3> QED
      BY <2>2, <3>1, <3>2
  <2> HIDE DEF e
  <2> QED
    BY <2>3 DEF Events, games, games2
<1>7. e \notin Events(rs, adj)
  <2>1. \A d \in Events(rs, adj) : d[2] = 0 => d[3] \in Finished(rs)
    BY <1>1, EventIs DEF Finished
  <2>2. e[2] = 0 /\ e[3] = g
    OBVIOUS
  <2> QED
    BY <1>4, <2>1, <2>2
<1>8. Alike(rs, adj, rs2, adj, Events(rs, adj))
  <2>1. \A d \in Events(rs, adj) : d[2] = 0 => d[3] \in Finished(rs)
    BY <1>1, EventIs DEF Finished
  <2> QED
    BY <1>4, <2>1 DEF Alike, ResultOf
<1>9. UsersFit(us2) /\ Core(us2) = IF bots THEN Core(us) ELSE Rated(Core(us), result)
  BY <1>1, RatedByIs
<1>10. ASSUME DistinctTimes(Events(rs2, adj))
       PROVE  Shown(us2, rs2, adj)
  <2>1. Shown(us, rs, adj)
    BY <1>1, <1>6, <1>10 DEF DistinctTimes
  <2>2. Core(us2) = ComputedRatings(rs2, adj)
    <3>1. CASE bots
      BY <1>1, <1>2, <1>6, <1>8, <1>9, <2>1, <3>1, ComputedSame DEF Shown
    <3>2. CASE ~bots
      <4>1. Events(rs2, adj) = Events(rs, adj) \cup {e} /\ e \in Events(rs2, adj)
        BY <1>6, <3>2
      <4>2. ASSUME NEW d \in Events(rs, adj)
            PROVE  Earlier(d, e)
        <5>1. d \in EventKey /\ d[1] <= t
          BY <1>1, EventIs DEF Until
        <5>2. d \in Events(rs2, adj) /\ d # e /\ e[1] = t
          BY <1>7, <4>1
        <5>3. d[1] # e[1]
          BY <1>10, <4>1, <5>2 DEF DistinctTimes
        <5>4. d[1] \in Nat
          BY <5>1 DEF EventKey
        <5> QED
          BY <5>1, <5>2, <5>3, <5>4 DEF Earlier
      <4>3. ComputedRatings(rs2, adj) = Applied(rs2, adj, e, ComputedRatings(rs, adj))
        <5> HIDE DEF e
        <5> QED
          BY <1>1, <1>2, <1>7, <1>8, <4>1, <4>2, ComputedGrows
      <4>4. Applied(rs2, adj, e, ComputedRatings(rs, adj)) = Rated(ComputedRatings(rs, adj), ResultOf(rs2[g]))
        <5>1. e[2] = 0 /\ e[3] = g /\ ComputedRatings(rs, adj) \in Stats
          BY <1>1, ComputedType
        <5> HIDE DEF e
        <5> QED
          BY <1>2, <4>1, <5>1, AppliedIs
      <4> QED
        BY <1>5, <1>9, <2>1, <3>2, <4>3, <4>4 DEF Shown
    <3> QED
      BY <3>1, <3>2
  <2>3. ASSUME NEW u \in Users
        PROVE  /\ us2[u].played = ComputedCounters(rs2, u).played
               /\ us2[u].won = ComputedCounters(rs2, u).won
               /\ us2[u].score = ComputedCounters(rs2, u).score
    <3>1. /\ us2[u].played = us[u].played + 1 /\ us2[u].won = us[u].won + Won(result, u)
          /\ us2[u].score = us[u].score + result.score[u]
      BY <1>1, RatedByIs
    <3>2. /\ us[u].played = ComputedCounters(rs, u).played
          /\ us[u].won = ComputedCounters(rs, u).won
          /\ us[u].score = ComputedCounters(rs, u).score
      BY <2>1 DEF Shown, CountersShown
    <3> QED
      BY <1>2, <3>1, <3>2, CountersGrow
  <2> HIDE DEF us2
  <2> QED
    BY <2>2, <2>3 DEF Shown, CountersShown
<1> QED
  BY <1>2, <1>3, <1>9, <1>10 DEF RatingsFit

LEMMA LaterFits ==
  ASSUME RecordsAssumption, NEW rs, NEW us, NEW adj, NEW t \in Nat, RatingsFit(rs, us, adj, t), NEW t2 \in Nat, t <= t2
  PROVE  RatingsFit(rs, us, adj, t2)
<1>1. ArchiveFits(rs, adj) /\ Until(rs, adj, t)
  BY DEF RatingsFit
<1>2. \A g \in Ids : rs[g].at \in Nat
  BY <1>1 DEF ArchiveFits, RowRecord
<1>3. \A i \in DOMAIN adj : adj[i].at \in Nat
  <2>1. DOMAIN adj = 1 .. Len(adj) /\ \A k \in 1 .. Len(adj) : adj[k] \in Adjustment
    BY <1>1 DEF ArchiveFits
  <2> QED
    BY <2>1 DEF Adjustment
<1>4. Until(rs, adj, t2)
  BY <1>1, <1>2, <1>3 DEF Until
<1> QED
  BY <1>4 DEF RatingsFit

LEMMA KeepsMore ==
  ASSUME NEW rs, NEW us, NEW rs2, NEW us2, NEW rs3, NEW us3, NEW t,
         KeepsRatings(rs, us, rs2, us2, t), KeepsRatings(rs2, us2, rs3, us3, t)
  PROVE  KeepsRatings(rs, us, rs3, us3, t)
BY DEF KeepsRatings

(* void_game, unvoid_game and delete_game compute everything anew. *)
LEMMA RecomputedKeeps ==
  ASSUME RecordsAssumption, NEW rs, NEW us, NEW adj, NEW t \in Nat, RatingsFit(rs, us, adj, t),
         NEW rs2 \in [Ids -> RowRecord], \A g \in Ids : rs2[g].at \in {rs[g].at, 0}
  PROVE  RatingsFit(rs2, Recomputed(rs2, adj), adj, t)
<1> DEFINE us2 == Recomputed(rs2, adj)
<1>1. ArchiveFits(rs2, adj) /\ Until(rs2, adj, t)
  BY DEF RatingsFit, ArchiveFits, Until
<1>2. UsersFit(us2)
  BY <1>1, RecomputedType
<1>3. us2 = Recomputed(rs2, adj)
  OBVIOUS
<1> HIDE DEF us2
<1>4. Shown(us2, rs2, adj)
  BY <1>1, <1>2, <1>3, ShownIs
<1>5. RatingsFit(rs2, us2, adj, t)
  BY <1>1, <1>2, <1>4 DEF RatingsFit
<1> QED
  BY <1>5 DEF us2

(* set_rating changes the rating and adds the difference to the archive. *)
LEMMA AdjustKeeps ==
  ASSUME RecordsAssumption, NEW rs, NEW us, NEW adj, NEW t \in Nat, RatingsFit(rs, us, adj, t),
         NEW u \in Users, NEW rating \in Int, NEW a, a = [user |-> u, delta |-> rating - us[u].rating, at |-> t]
  PROVE  RatingsFit(rs, [us EXCEPT ![u].rating = rating], Append(adj, a), t)
<1> DEFINE us2 == [us EXCEPT ![u].rating = rating]
           adj2 == Append(adj, a)
           n == Len(adj) + 1
           e == <<t, 1, n>>
<1>1. ArchiveFits(rs, adj) /\ UsersFit(us) /\ Until(rs, adj, t) /\ (DistinctTimes(Events(rs, adj)) => Shown(us, rs, adj))
  BY DEF RatingsFit
<1>2. us[u] \in UserRecord /\ us[u].rating \in Int
  BY <1>1 DEF UsersFit, UserRecord
<1>3. a \in Adjustment /\ a.user = u /\ a.delta = rating - us[u].rating /\ a.at = t
  BY <1>2 DEF Adjustment
<1>4. adj2 \in Seq(Adjustment) /\ DOMAIN adj2 = DOMAIN adj \cup {n} /\ adj2[n] = a
      /\ n \notin DOMAIN adj /\ \A i \in DOMAIN adj : adj2[i] = adj[i]
  <2>1. adj \in Seq(Adjustment)
    BY <1>1 DEF ArchiveFits
  <2>2. DOMAIN adj = 1 .. Len(adj) /\ Len(adj) \in Nat
    BY <2>1
  <2>3. DOMAIN adj2 = 1 .. n /\ adj2 \in Seq(Adjustment) /\ adj2[n] = a /\ \A i \in 1 .. Len(adj) : adj2[i] = adj[i]
    BY <1>3, <2>1
  <2> HIDE DEF adj2
  <2> QED
    BY <2>2, <2>3
<1> HIDE DEF adj2
<1>5. ArchiveFits(rs, adj2) /\ Until(rs, adj2, t)
  BY <1>1, <1>3, <1>4 DEF ArchiveFits, Until
<1>6. Events(rs, adj2) = Events(rs, adj) \cup {e} /\ e \notin Events(rs, adj)
  <2> DEFINE of(x, i) == <<x[i].at, 1, i>>
  <2>1. (\A i \in DOMAIN adj : of(adj2, i) = of(adj, i)) /\ of(adj2, n) = e
    BY <1>3, <1>4
  <2> HIDE DEF e, of, n
  <2>2. {of(adj2, i) : i \in DOMAIN adj2} = {of(adj, i) : i \in DOMAIN adj} \cup {e}
    BY <1>4, <2>1
  <2>3. Events(rs, adj2) = Events(rs, adj) \cup {e}
    BY <2>2 DEF Events, of
  <2>4. e[2] = 1 /\ e[3] = n
    BY DEF e
  <2>5. e \notin Events(rs, adj)
    BY <1>1, <1>4, <2>4, EventIs
  <2> QED
    BY <2>3, <2>5
<1>7. Alike(rs, adj, rs, adj2, Events(rs, adj))
  BY <1>1, <1>4, EventIs DEF Alike
<1> DEFINE row == [us[u] EXCEPT !.rating = rating]
<1>8. row \in UserRecord /\ row.rating = rating /\ row.rated = us[u].rated /\ row.played = us[u].played
      /\ row.won = us[u].won /\ row.score = us[u].score
  BY <1>2 DEF UserRecord
<1>9. us2 = [us EXCEPT ![u] = row]
  OBVIOUS
<1> HIDE DEF row, us2
<1>10. UsersFit(us2) /\ \A v \in Users : us2[v] = IF v = u THEN row ELSE us[v]
  BY <1>1, <1>8, <1>9 DEF UsersFit
<1>11. ASSUME DistinctTimes(Events(rs, adj2))
       PROVE  Shown(us2, rs, adj2)
  <2>1. Shown(us, rs, adj)
    BY <1>1, <1>6, <1>11 DEF DistinctTimes
  <2>2. ASSUME NEW d \in Events(rs, adj)
        PROVE  Earlier(d, e)
    <3>1. d \in EventKey /\ d[1] <= t
      BY <1>1, EventIs DEF Until
    <3>2. d \in Events(rs, adj2) /\ e \in Events(rs, adj2) /\ d # e /\ e[1] = t
      BY <1>6
    <3>3. d[1] # e[1]
      BY <1>11, <3>2 DEF DistinctTimes
    <3>4. d[1] \in Nat
      BY <3>1 DEF EventKey
    <3> QED
      BY <3>1, <3>2, <3>3, <3>4 DEF Earlier
  <2>3. ComputedRatings(rs, adj2) = Applied(rs, adj2, e, ComputedRatings(rs, adj))
    <3> HIDE DEF e
    <3> QED
      BY <1>1, <1>5, <1>6, <1>7, <2>2, ComputedGrows
  <2>4. ComputedRatings(rs, adj) = Core(us) /\ Core(us) \in Stats
    BY <1>1, <2>1, CoreIs DEF Shown
  <2>5. Applied(rs, adj2, e, Core(us)) = AdjustedBy(Core(us), a)
    <3>1. e[2] = 1 /\ e[3] = n /\ e \in Events(rs, adj2)
      BY <1>6
    <3> HIDE DEF e
    <3> QED
      BY <1>4, <1>5, <2>4, <3>1, AppliedIs
  <2>6. AdjustedBy(Core(us), a) = Core(us2)
    <3> DEFINE x == AdjustedBy(Core(us), a)
               y == Core(us2)
    <3>1. x \in Stats /\ y \in Stats
      BY <1>3, <1>10, <2>4, AdjustedStats, CoreIs
    <3>2. \A v \in Users : x[v].rated = us[v].rated /\ x[v].rating = us[v].rating + IF v = u THEN rating - us[u].rating ELSE 0
      BY <1>1, <1>3, <2>4, AdjustedStats, CoreIs
    <3>3. \A v \in Users : y[v].rated = us2[v].rated /\ y[v].rating = us2[v].rating
      BY <1>10, CoreIs
    <3>4. \A v \in Users : us[v].rating \in Int
      BY <1>1 DEF UsersFit, UserRecord
    <3> HIDE DEF x, y
    <3>5. \A v \in Users : x[v].rated = y[v].rated /\ x[v].rating = y[v].rating
      BY <1>8, <1>10, <3>2, <3>3, <3>4
    <3>6. \A v \in Users : x[v] = y[v]
      BY <3>1, <3>5 DEF Stats
    <3> QED
      BY <3>1, <3>6 DEF Stats, x, y
  <2>7. CountersShown(us2, rs)
    BY <1>8, <1>10, <2>1 DEF Shown, CountersShown
  <2> QED
    BY <2>3, <2>4, <2>5, <2>6, <2>7 DEF Shown
<1>12. RatingsFit(rs, us2, adj2, t)
  BY <1>5, <1>10, <1>11 DEF RatingsFit
<1> QED
  BY <1>12 DEF us2, adj2

(* ratings_apply writes the computed ratings. *)
Rerated(us, q) == [u \in Users |-> [us[u] EXCEPT !.rating = q[u].rating, !.rated = q[u].rated]]

LEMMA ApplyKeeps ==
  ASSUME RecordsAssumption, NEW rs, NEW us, NEW adj, NEW t \in Nat, RatingsFit(rs, us, adj, t),
         NEW q, q = ComputedRatings(rs, adj)
  PROVE  RatingsFit(rs, Rerated(us, q), adj, t)
<1> DEFINE row(u) == [us[u] EXCEPT !.rating = q[u].rating, !.rated = q[u].rated]
           us2 == Rerated(us, q)
<1>1. us2 = [u \in Users |-> row(u)]
  BY Zenon DEF Rerated
<1>2. ArchiveFits(rs, adj) /\ UsersFit(us) /\ (DistinctTimes(Events(rs, adj)) => Shown(us, rs, adj)) /\ q \in Stats
  BY ComputedType DEF RatingsFit
<1>3. ASSUME NEW u \in Users
      PROVE  row(u) \in UserRecord /\ row(u).rating = q[u].rating /\ row(u).rated = q[u].rated
             /\ row(u).played = us[u].played /\ row(u).won = us[u].won /\ row(u).score = us[u].score
  <2>1. us[u] \in UserRecord /\ q[u].rating \in Int /\ q[u].rated \in Nat
    BY <1>2 DEF UsersFit, Stats
  <2>2. \A s \in UserRecord, b \in Int, c \in Nat : [s EXCEPT !.rating = b, !.rated = c] \in UserRecord
    BY DEF UserRecord
  <2>3. row(u) \in UserRecord
    BY <2>1, <2>2, Zenon
  <2>4. row(u).rating = q[u].rating /\ row(u).rated = q[u].rated
        /\ row(u).played = us[u].played /\ row(u).won = us[u].won /\ row(u).score = us[u].score
    BY <2>1 DEF UserRecord
  <2> QED
    BY <2>3, <2>4
<1> HIDE DEF row
<1>4. UsersFit(us2) /\ \A u \in Users : us2[u] = row(u)
  BY <1>3, <1>1 DEF UsersFit
<1> HIDE DEF us2
<1>5. Core(us2) = q
  <2>1. \A u \in Users : Core(us2)[u].rating = q[u].rating /\ Core(us2)[u].rated = q[u].rated
    BY <1>3, <1>4, CoreIs
  <2>2. Core(us2) \in Stats
    BY <1>4, CoreIs
  <2>3. \A u \in Users : Core(us2)[u] = q[u]
    BY <1>2, <2>1, <2>2 DEF Stats
  <2> QED
    BY <1>2, <2>2, <2>3 DEF Stats
<1>6. DistinctTimes(Events(rs, adj)) => Shown(us2, rs, adj)
  BY <1>2, <1>3, <1>4, <1>5 DEF Shown, CountersShown
<1>7. RatingsFit(rs, us2, adj, t)
  BY <1>4, <1>6 DEF RatingsFit
<1> QED
  BY <1>7 DEF us2

-----------------------------------------------------------------------------
(* Saving. *)

(* What happens to the rows of room r, or a new row of its own, is nothing  *)
(* to the other rooms.                                                      *)
LEMMA OthersStay ==
  ASSUME RecordsAssumption, NEW rs, NEW ms, NEW l, NEW k, NEW r \in Rooms, l \in BOOLEAN, k \in BOOLEAN, l => k,
         RowsInv(rs, l), ms \in [Rooms -> RoomRecord], OthersFit(rs, ms, r, l), Free(rs, ms, r), NEW new,
         \A h \in Ids : \/ new[h] = rs[h]
                       \/ /\ rs[h] = NoRow \/ (rs[h].room = r /\ new[h].async = rs[h].async)
                          /\ new[h].room = r /\ new[h].status # "none"
  PROVE  OthersFit(new, ms, r, k) /\ Free(new, ms, r)
<1>1. rs \in [Ids -> RowRecord] /\ NoRow.room = None /\ NoRow.status = "none" /\ (Exact(k) => Exact(l))
  BY NoRoomFits DEF RowsInv, Exact
<1>2. \A h \in Ids : new[h] # rs[h] => new[h].room = r /\ (rs[h].room = r \/ rs[h] = NoRow)
  OBVIOUS
<1>3. ASSUME NEW q \in Rooms, q # r, ms[q].stage = "lobby"
      PROVE  LobbyFits(new, ms, ms[q], q, k) /\ (Reopen \/ new[ms[q].save.id].room # r)
  <2> DEFINE h == ms[q].save.id
  <2>1. LobbyFits(rs, ms, ms[q], q, l) /\ (Reopen \/ rs[h].room # r)
    BY <1>3 DEF OthersFit, RoomFits, Free
  <2>2. h \in Ids /\ rs[h].status # "none"
    BY <2>1 DEF LobbyFits, RoomRecord, SaveRecord
  <2>3. \A i \in Ids : new[i].room # q
    BY <2>1, <1>2, <1>3 DEF LobbyFits
  <2>4. CASE new[h] = rs[h]
    BY <2>1, <2>3, <2>4, <1>1 DEF LobbyFits
  <2>5. CASE new[h] # rs[h]
    <3>1. Reopen /\ new[h].async = rs[h].async /\ new[h].status # "none"
      BY <1>1, <2>1, <2>2, <2>5
    <3> QED
      BY <2>1, <2>3, <3>1 DEF LobbyFits, Exact
  <2> QED
    BY <2>4, <2>5
<1>4. ASSUME NEW q \in Rooms, q # r, ms[q].stage = "game"
      PROVE  GameFits(new, ms[q], q, k) /\ Durable(new, ms[q], k)
  <2>1. GameFits(rs, ms[q], q, l) /\ Durable(rs, ms[q], l)
    BY <1>4 DEF OthersFit, RoomFits
  <2>2. ms[q].db \in Ids \cup {None}
    BY DEF RoomRecord
  <2>3. ms[q].db # None => new[ms[q].db] = rs[ms[q].db]
    BY <2>1, <2>2, <1>1, <1>2, <1>4, RecordsAssumption DEF GameFits
  <2>4. \A h \in Ids : new[h].room = q => new[h] = rs[h]
    BY <1>2, <1>4
  <2>5. Stored(rs, ms[q]) <=> Stored(new, ms[q])
    BY <2>3 DEF Stored
  <2>6. GameFits(new, ms[q], q, k)
    BY <2>1, <2>3, <2>4, <2>5, <1>1 DEF GameFits, Unrecorded
  <2>7. Durable(new, ms[q], k)
    BY <2>1, <2>5 DEF Durable
  <2> QED
    BY <2>6, <2>7
<1>5. OthersFit(new, ms, r, k)
  <2> SUFFICES ASSUME NEW q \in Rooms, q # r
               PROVE  RoomFits(new, ms, ms[q], q, k)
    BY DEF OthersFit
  <2>1. ms[q].stage = "none" => ms[q] = NoRoom
    BY DEF OthersFit, RoomFits
  <2> QED
    BY <2>1, <1>3, <1>4 DEF RoomFits
<1>6. Free(new, ms, r)
  BY <1>3 DEF Free
<1> QED
  BY <1>5, <1>6

(* Row h gets the game as it is; a save writes row g, and with it any other *)
(* active row of the room.                                                  *)
Overwritten(rs, new, r, m, h) ==
  /\ new[h].room = r /\ new[h].state = m.game
  /\ new[h].status = (IF m.game.over THEN "finished" ELSE "active")
  /\ new[h].async = (rs[h].async \/ (~m.game.over /\ m.async))
  /\ ~m.game.over => new[h].at = rs[h].at
RowsSaved(rs, new, r, m, g) ==
  /\ new \in [Ids -> RowRecord] /\ Overwritten(rs, new, r, m, g)
  /\ \A h \in Ids : \/ h = g \/ new[h] = rs[h]
                    \/ /\ Reopen /\ ~m.game.over /\ rs[h].room = r /\ rs[h].status = "active"
                       /\ Overwritten(rs, new, r, m, h)

(* The row a save of room r's game m goes to. *)
IsTarget(rs, r, m, g) ==
  /\ g \in Ids /\ (rs[g] = NoRow \/ rs[g].room = r)
  /\ m.async \/ ~Reopen => IF m.db = None THEN rs[g] = NoRow ELSE g = m.db

(* The room's row written with the game as it is: the log is complete       *)
(* unless its transaction failed.                                           *)
LEMMA RowWritten ==
  ASSUME RecordsAssumption, NEW rs, NEW ms, NEW r \in Rooms, NEW m, NEW l, NEW k \in BOOLEAN, l => k,
         AtWork(rs, ms, r, m, l), ~m.resultSaved, NEW g, IsTarget(rs, r, m, g), NEW new, RowsSaved(rs, new, r, m, g),
         NEW m2 \in RoomRecord, m2.stage = "game", m2.async = m.async, m2.db = g, m2.game = m.game,
         m2.resultSaved = m.game.over, m2.moves = m.moves,
         Exact(k) => new[g].log = m.moves /\ m2.logged = m.moves
  PROVE  AtWork(new, ms, r, m2, k) /\ Stored(new, m2)
<1>1. rs \in [Ids -> RowRecord] /\ new \in [Ids -> RowRecord] /\ g \in Ids /\ g # None /\ r # None
      /\ m \in RoomRecord /\ (Exact(k) => Exact(l)) /\ NoRow.room = None /\ ~NoRow.async
  BY RecordsAssumption, NoRoomFits DEF AtWork, RowsInv, RowsSaved, IsTarget, Exact
<1>2. m.game.over \in BOOLEAN /\ m.async \in BOOLEAN /\ m.resultSaved \in BOOLEAN
  BY <1>1 DEF RoomRecord, GameRecord
<1>3. GameFits(rs, m, r, l) /\ RowsFit(rs, l) /\ RowsApart(rs) /\ Unrecorded(rs, r)
      /\ \A h \in Ids : rs[h].room = r => rs[h].async = m.async
  BY DEF AtWork, RowsInv, GameFits, Unrecorded
<1>4. \A h \in Ids : new[h] = rs[h] \/ (Overwritten(rs, new, r, m, h) /\ (rs[h] = NoRow \/ rs[h].room = r))
  BY DEF RowsSaved, IsTarget
<1>5. \A h \in Ids : Overwritten(rs, new, r, m, h) =>
        /\ new[h].room = r /\ new[h].status \in {"finished", "active"} /\ (new[h].state.over <=> m.game.over)
        /\ new[h].state.turns = m.game.turns
        /\ (rs[h].room = r => new[h].async = m.async) /\ (m.game.over => new[h].async = rs[h].async)
        /\ (rs[h] = NoRow /\ ~m.game.over => new[h].async = m.async)
  <2> TAKE h \in Ids
  <2>1. rs[h].async \in BOOLEAN
    BY <1>1 DEF RowRecord
  <2> QED
    BY <2>1, <1>1, <1>2, <1>3 DEF Overwritten
<1>6. OthersFit(new, ms, r, k) /\ Free(new, ms, r)
  <2>1. \A h \in Ids : \/ new[h] = rs[h]
                       \/ /\ rs[h] = NoRow \/ (rs[h].room = r /\ new[h].async = rs[h].async)
                          /\ new[h].room = r /\ new[h].status # "none"
    BY <1>3, <1>4, <1>5
  <2> QED
    BY <2>1, OthersStay DEF AtWork
<1>7. Exact(k) => m.moves = m.game.turns
  BY <1>1, <1>3 DEF GameFits
<1>8. RowsFit(new, k)
  <2> SUFFICES ASSUME NEW h \in Ids
               PROVE  /\ new[h].status = "none" => new[h] = NoRow
                      /\ new[h].status \in NotPlayed <=> new[h].room = None
                      /\ new[h].state.over => new[h].status \in {"finished", "voided"}
                      /\ Exact(k) /\ new[h].status \notin NotPlayed => new[h].log = new[h].state.turns
    BY DEF RowsFit
  <2>1. CASE new[h] = rs[h]
    BY <1>1, <1>3, <2>1 DEF RowsFit
  <2>2. CASE new[h] # rs[h]
    <3>1. Overwritten(rs, new, r, m, h)
      BY <1>4, <2>2
    <3>2. Exact(k) => new[h].log = new[h].state.turns
      <4>1. Exact(k) => h = g
        BY <2>2 DEF RowsSaved, Exact
      <4> QED
        BY <4>1, <1>5, <1>7, <3>1
    <3> QED
      BY <3>1, <3>2, <1>1, <1>5 DEF NotPlayed, Overwritten
  <2> QED
    BY <2>1, <2>2
<1>9. \A h \in Ids : new[h].room = r => h = g \/ rs[h].room = r
  BY <1>4 DEF RowsSaved
<1>10. ASSUME NEW a \in Ids, NEW b \in Ids, a # b, rs[a].room = r, rs[b].room = r \/ b = g
       PROVE  Reopen /\ ~m.async
  <2>1. m.db # None
    BY <1>3, <1>10 DEF GameFits
  <2>2. CASE rs[b].room = r
    BY <1>1, <1>2, <1>3, <1>10, <2>2 DEF RowsApart
  <2>3. CASE b = g /\ rs[b].room # r
    <3> SUFFICES ASSUME m.async \/ ~Reopen
                 PROVE  FALSE
      BY <1>2, RecordsAssumption
    <3>1. g = m.db
      BY <2>1 DEF IsTarget
    <3> QED
      BY <3>1, <1>3, <2>1, <2>3 DEF GameFits
  <2> QED
    BY <1>10, <2>2, <2>3
<1>11. RowsApart(new)
  <2> SUFFICES ASSUME NEW a \in Ids, NEW b \in Ids, a # b, new[a].room # None, new[a].room = new[b].room
               PROVE  /\ Reopen /\ ~new[a].async /\ ~new[b].async
                      /\ ~(new[a].state.over /\ new[b].state.over)
    BY DEF RowsApart
  <2>1. CASE new[a].room # r
    <3>1. new[a] = rs[a] /\ new[b] = rs[b]
      BY <1>4, <1>5, <2>1
    <3> QED
      BY <3>1, <1>3 DEF RowsApart
  <2>2. CASE new[a].room = r
    <3>1. Reopen /\ ~m.async
      BY <1>9, <1>10, <2>2
    <3>2. \A h \in Ids : new[h].room = r => ~new[h].async
      BY <1>1, <1>3, <1>4, <1>5, <3>1
    <3>3. ~(new[a].state.over /\ new[b].state.over)
      <4>1. \A h \in Ids : h # g /\ new[h].room = r => ~new[h].state.over
        BY <1>3, <1>4, <1>5, <1>9 DEF RowsSaved, Unrecorded
      <4> QED
        BY <4>1, <2>2
    <3> QED
      BY <2>2, <3>1, <3>2, <3>3
  <2> QED
    BY <2>1, <2>2
<1>12. Stored(new, m2)
  <2>1. Overwritten(rs, new, r, m, g)
    BY DEF RowsSaved
  <2>2. new[g].state = m2.game /\ m2.db = g /\ g # None
    BY <1>1, <2>1 DEF Overwritten
  <2> QED
    BY <2>2 DEF Stored
<1>13. GameFits(new, m2, r, k)
  <2>1. new[g].room = r /\ (m2.resultSaved \/ new[g].status = "active")
    BY <1>2 DEF RowsSaved, Overwritten
  <2>2. ~m2.resultSaved => Unrecorded(new, r)
    <3> SUFFICES ASSUME ~m.game.over, NEW h \in Ids, new[h].room = r
                 PROVE  ~new[h].state.over
      BY DEF Unrecorded
    <3> QED
      BY <1>1, <1>3, <1>4, <1>5, <1>9 DEF Unrecorded
  <2>3. ASSUME NEW h \in Ids, new[h].room = r
        PROVE  new[h].state.over \/ new[h].async = m2.async
    BY <2>3, <1>1, <1>2, <1>3, <1>4, <1>5, <1>9
  <2>4. Exact(k) => m2.moves = m2.game.turns /\ m2.logged = new[m2.db].log
    BY <1>7
  <2> QED
    BY <1>1, <1>12, <2>1, <2>2, <2>3, <2>4 DEF GameFits
<1> QED
  BY <1>1, <1>6, <1>8, <1>11, <1>12, <1>13 DEF AtWork, RowsInv
(* NextId is there when a row is left. *)
LEMMA NextIdIsUnused ==
  ASSUME RecordsAssumption, NEW rs, Unused(rs) # {}
  PROVE  NextId(rs) \in Ids /\ rs[NextId(rs)] = NoRow
<1>1. Unused(rs) \in SUBSET Nat /\ Unused(rs) \subseteq Ids
  BY DEF Unused, Ids
<1>2. NextId(rs) \in Unused(rs)
  <2>1. \E g \in Unused(rs) : \A h \in Unused(rs) : g <= h
    BY <1>1, LeastExists
  <2> QED
    BY <2>1 DEF NextId
<1> QED
  BY <1>1, <1>2, RecordsAssumption DEF Unused, Ids

HasSpace(rs, m) == (m.db # None /\ (m.async \/ ~Reopen)) \/ Unused(rs) # {}

LEMMA TargetIs ==
  ASSUME RecordsAssumption, NEW rs, NEW us, NEW ms, NEW r \in Rooms, NEW m, NEW l,
         AtWork(rs, ms, r, m, l), ~m.resultSaved, HasSpace(rs, m), NEW g, g = Target(World(rs, us, m), r)
  PROVE  /\ IsTarget(rs, r, m, g)
         /\ rs[g] = NoRow \/ g \in ActiveRows(rs, r)
         /\ ActiveRows(rs, r) # {} => g \in ActiveRows(rs, r)
<1>1. GameFits(rs, m, r, l) /\ RowsApart(rs) /\ m.db \in Ids \cup {None} /\ r # None
  BY RecordsAssumption DEF AtWork, RowsInv, RoomRecord
<1>2. g = IF ActiveRows(rs, r) # {} THEN CHOOSE h \in ActiveRows(rs, r) : TRUE ELSE NextId(rs)
  BY DEF Target, World
<1>3. CASE m.db = None
  <2>1. ActiveRows(rs, r) = {} /\ Unused(rs) # {}
    BY <1>1, <1>3 DEF ActiveRows, GameFits, HasSpace
  <2>2. g \in Ids /\ rs[g] = NoRow
    BY <1>2, <2>1, NextIdIsUnused
  <2> QED
    BY <1>3, <2>1, <2>2 DEF IsTarget
<1>4. CASE m.db # None /\ (m.async \/ ~Reopen)
  <2>1. m.db \in Ids /\ rs[m.db].room = r /\ rs[m.db].status = "active" /\ ~rs[m.db].state.over
        /\ rs[m.db].async = m.async
    BY <1>1, <1>4 DEF GameFits, Unrecorded
  <2>2. ASSUME NEW h \in Ids, rs[h].room = r
        PROVE  h = m.db
    BY <1>1, <1>4, <2>1, <2>2 DEF RowsApart
  <2>3. ActiveRows(rs, r) = {m.db}
    BY <2>1, <2>2 DEF ActiveRows
  <2>4. g = m.db
    BY <1>2, <2>3
  <2> QED
    BY <1>4, <2>1, <2>3, <2>4 DEF IsTarget
<1>5. CASE m.db # None /\ ~m.async /\ Reopen
  <2>1. CASE ActiveRows(rs, r) # {}
    <3>1. g \in ActiveRows(rs, r)
      BY <1>2, <2>1
    <3> QED
      BY <1>5, <3>1 DEF IsTarget, ActiveRows
  <2>2. CASE ActiveRows(rs, r) = {}
    <3>1. g \in Ids /\ rs[g] = NoRow
      BY <1>2, <1>5, <2>2, NextIdIsUnused DEF HasSpace
    <3> QED
      BY <1>5, <2>2, <3>1 DEF IsTarget
  <2> QED
    BY <2>1, <2>2
<1> QED
  BY <1>3, <1>4, <1>5, RecordsAssumption

(* The fields that saving leaves alone. *)
SameGame(m2, m) ==
  m2.stage = m.stage /\ m2.async = m.async /\ m2.game = m.game /\ m2.moves = m.moves /\ m2.sig = m.sig

(* What saving a game does, first without the log's transaction. *)
GameSaved(rs, new, r, m, m2, g) ==
  /\ RowsSaved(rs, new, r, m, g) /\ new[g].log = rs[g].log
  /\ m2 \in RoomRecord /\ SameGame(m2, m) /\ m2.db = g /\ m2.resultSaved = m.game.over /\ m2.logged = m.logged

LEMMA SaveGameSaves ==
  ASSUME RecordsAssumption, NEW rs \in [Ids -> RowRecord], RowsApart(rs), NEW us, NEW m \in RoomRecord,
         NEW r \in Rooms, ~m.game.over, ~m.resultSaved, NEW g \in Ids, g = Target(World(rs, us, m), r),
         ActiveRows(rs, r) # {} => g \in ActiveRows(rs, r)
  PROVE  \E new, m2 : SaveGame(World(rs, us, m), r) = World(new, us, m2) /\ GameSaved(rs, new, r, m, m2, g)
<1> DEFINE saved(row) == [row EXCEPT !.async = row.async \/ m.async, !.status = "active", !.room = r,
                                     !.state = m.game, !.bots = m.bots]
           written == ActiveRows(rs, r) \cup {g}
           new == [h \in Ids |-> IF h \in written THEN saved(rs[h]) ELSE rs[h]]
           m2 == [m EXCEPT !.db = g]
<1>1. SaveGame(World(rs, us, m), r) = World(new, us, m2)
  <2>1. World(rs, us, m).rows = rs /\ World(rs, us, m).users = us /\ World(rs, us, m).room = m
    BY DEF World
  <2> QED
    BY <2>1, Zenon DEF SaveGame
<1>2. m.game \in GameRecord /\ m.bots \in BOOLEAN /\ m.async \in BOOLEAN
  BY DEF RoomRecord
<1>3. ASSUME NEW row \in RowRecord
      PROVE  /\ saved(row) \in RowRecord /\ saved(row).room = r /\ saved(row).state = m.game /\ saved(row).log = row.log
             /\ saved(row).status = "active" /\ saved(row).async = (row.async \/ m.async) /\ saved(row).at = row.at
  BY <1>2 DEF RowRecord
<1>4. \A h \in Ids : new[h] = IF h \in written THEN saved(rs[h]) ELSE rs[h]
  OBVIOUS
<1>5. m2 \in RoomRecord /\ SameGame(m2, m) /\ m2.db = g /\ m2.resultSaved = m.resultSaved /\ m2.logged = m.logged
  BY DEF RoomRecord, SameGame
<1>6. m.game.over = FALSE /\ m.resultSaved = FALSE
  BY <1>2 DEF RoomRecord, GameRecord
<1> HIDE DEF saved, m2
<1>7. new \in [Ids -> RowRecord]
  <2>1. \A h \in Ids : (IF h \in written THEN saved(rs[h]) ELSE rs[h]) \in RowRecord
    BY <1>3
  <2> HIDE DEF written
  <2> QED
    BY <2>1
<1> HIDE DEF new
<1>8. \A h \in written : h \in Ids /\ new[h].log = rs[h].log /\ Overwritten(rs, new, r, m, h)
  <2> SUFFICES ASSUME NEW h \in written
               PROVE  h \in Ids /\ new[h].log = rs[h].log /\ Overwritten(rs, new, r, m, h)
    OBVIOUS
  <2>1. h \in Ids /\ rs[h] \in RowRecord
    BY DEF ActiveRows
  <2>2. new[h] = saved(rs[h])
    BY <1>4, <2>1
  <2> HIDE DEF written
  <2> QED
    BY <1>3, <1>6, <2>1, <2>2 DEF Overwritten
<1>9. ASSUME NEW h \in Ids, h # g, new[h] # rs[h]
      PROVE  Reopen /\ rs[h].room = r /\ rs[h].status = "active" /\ Overwritten(rs, new, r, m, h)
  <2>1. h \in written
    BY <1>4, <1>9, Zenon
  <2>2. rs[h].room = r /\ rs[g].room = r /\ rs[h].status = "active"
    BY <1>9, <2>1 DEF ActiveRows
  <2> QED
    BY <1>8, <1>9, <2>1, <2>2, RecordsAssumption DEF RowsApart
<1>10. RowsSaved(rs, new, r, m, g)
  BY <1>6, <1>7, <1>8, <1>9 DEF RowsSaved
<1>11. new[g].log = rs[g].log
  BY <1>8
<1> HIDE DEF written
<1>12. GameSaved(rs, new, r, m, m2, g)
  BY <1>5, <1>6, <1>10, <1>11 DEF GameSaved
<1> QED
  BY <1>1, <1>12

LEMMA FinishGameSaves ==
  ASSUME NEW rs \in [Ids -> RowRecord], NEW us, NEW m \in RoomRecord, NEW r \in Rooms, NEW t \in Nat,
         m.game.over, NEW g \in Ids, g = Target(World(rs, us, m), r)
  PROVE  \E new, m2 : /\ FinishGame(World(rs, us, m), r, t) = World(new, RatedBy(us, m.game.result, m.bots), m2)
                      /\ GameSaved(rs, new, r, m, m2, g) /\ new[g].at = t /\ new[g].bots = m.bots
<1> DEFINE n == [rs[g] EXCEPT !.status = "finished", !.room = r, !.state = m.game, !.bots = m.bots, !.at = t]
           new == [rs EXCEPT ![g] = n]
           us2 == RatedBy(us, m.game.result, m.bots)
           m2 == [m EXCEPT !.db = g, !.resultSaved = TRUE]
<1>1. FinishGame(World(rs, us, m), r, t) = World(new, us2, m2)
  <2>1. World(rs, us, m).rows = rs /\ World(rs, us, m).users = us /\ World(rs, us, m).room = m
    BY DEF World
  <2> QED
    BY <2>1, Zenon DEF FinishGame, RatedBy
<1>2. rs[g] \in RowRecord /\ m.game \in GameRecord /\ m.bots \in BOOLEAN /\ m.async \in BOOLEAN
  BY DEF RoomRecord
<1>3. n \in RowRecord /\ n.room = r /\ n.state = m.game /\ n.log = rs[g].log /\ n.status = "finished"
      /\ n.async = rs[g].async /\ n.at = t /\ n.bots = m.bots
  BY <1>2 DEF RowRecord
<1>4. m2 \in RoomRecord /\ SameGame(m2, m) /\ m2.db = g /\ m2.resultSaved = TRUE /\ m2.logged = m.logged
  BY DEF RoomRecord, SameGame
<1>5. m.game.over = TRUE /\ rs[g].async \in BOOLEAN
  BY <1>2 DEF GameRecord, RowRecord
<1> HIDE DEF n
<1>6. new \in [Ids -> RowRecord] /\ new[g] = n /\ \A h \in Ids : h # g => new[h] = rs[h]
  BY <1>3
<1> HIDE DEF new, m2, us2
<1>7. Overwritten(rs, new, r, m, g)
  BY <1>3, <1>5, <1>6 DEF Overwritten
<1>8. GameSaved(rs, new, r, m, m2, g)
  BY <1>3, <1>4, <1>5, <1>6, <1>7 DEF GameSaved, RowsSaved
<1>9. new[g].at = t /\ new[g].bots = m.bots
  BY <1>3, <1>6
<1> QED
  BY <1>1, <1>8, <1>9 DEF us2

(* The log's transaction writes the row once more. *)
LogWritten(w, rs, us, g, m) ==
  \E new, m2 :
    /\ w = World(new, us, m2)
    /\ new \in [Ids -> RowRecord] /\ \A h \in Ids \ {g} : new[h] = rs[h]
    /\ new[g].room = rs[g].room /\ new[g].state = rs[g].state /\ new[g].status = rs[g].status
    /\ new[g].async = rs[g].async /\ new[g].at = rs[g].at /\ new[g].bots = rs[g].bots
    /\ new[g].log = rs[g].log + (m.moves - m.logged)
    /\ m2 \in RoomRecord /\ SameGame(m2, m) /\ m2.db = g /\ m2.resultSaved = m.resultSaved
    /\ m2.logged = m.moves

LEMMA MovesAdded ==
  ASSUME NEW rs \in [Ids -> RowRecord], NEW us, NEW g \in Ids, NEW m \in RoomRecord, m.db = g
  PROVE  LogWritten(AddGameMoves(World(rs, us, m)), rs, us, g, m)
<1> DEFINE n == [rs[g] EXCEPT !.log = rs[g].log + (m.moves - m.logged)]
           m2 == [m EXCEPT !.logged = m.moves]
           new == [rs EXCEPT ![g] = n]
<1>1. rs[g] \in RowRecord /\ rs[g].log \in Int /\ m.moves \in Int /\ m.logged \in Int
  BY DEF RowRecord, RoomRecord
<1>2. n \in RowRecord /\ n.room = rs[g].room /\ n.state = rs[g].state /\ n.status = rs[g].status
      /\ n.async = rs[g].async /\ n.at = rs[g].at /\ n.bots = rs[g].bots /\ n.log = rs[g].log + (m.moves - m.logged)
  BY <1>1 DEF RowRecord
<1>3. m2 \in RoomRecord /\ SameGame(m2, m) /\ m2.db = g /\ m2.resultSaved = m.resultSaved /\ m2.logged = m.moves
  BY <1>1 DEF RoomRecord, SameGame
<1>4. AddGameMoves(World(rs, us, m)) = World(new, us, m2)
  <2>1. World(rs, us, m).rows = rs /\ World(rs, us, m).users = us /\ World(rs, us, m).room = m
    BY DEF World
  <2>2. AddGameMoves(World(rs, us, m)) = World([rs EXCEPT ![m.db].log = @ + (m.moves - m.logged)], us, m2)
    BY <2>1, Zenon DEF AddGameMoves
  <2>3. [rs EXCEPT ![m.db].log = @ + (m.moves - m.logged)] = new
    OBVIOUS
  <2> QED
    BY <2>2, <2>3
<1> HIDE DEF n
<1>5. new \in [Ids -> RowRecord] /\ new[g] = n /\ \A h \in Ids \ {g} : new[h] = rs[h]
  BY <1>2
<1> HIDE DEF new, m2
<1> QED
  BY <1>2, <1>3, <1>4, <1>5 DEF LogWritten

(* A save keeps what is known of the room's rows and, unless its first      *)
(* transaction fails, stores the game.                                      *)
SavedWorld(w, ms, r, m, f, k) ==
  /\ AtWork(w.rows, ms, r, w.room, k) /\ SameGame(w.room, m)
  /\ w.room.async => HasSpace(w.rows, w.room)
  /\ f # "row" => Stored(w.rows, w.room)

LEMMA SaveKeeps ==
  ASSUME RecordsAssumption, NEW rs, NEW us, NEW ms, NEW r \in Rooms, NEW m, NEW l,
         AtWork(rs, ms, r, m, l), HasSpace(rs, m), NEW t \in Nat, NEW f
  PROVE  SavedWorld(SaveToDb(World(rs, us, m), r, t, f), ms, r, m, f, l \/ f # "none")
<1> DEFINE k == l \/ f # "none"
           w == World(rs, us, m)
           g == Target(w, r)
<1>1. l \in BOOLEAN /\ k \in BOOLEAN /\ (l => k) /\ rs \in [Ids -> RowRecord] /\ RowsApart(rs) /\ m \in RoomRecord
      /\ m.stage = "game" /\ GameFits(rs, m, r, l)
  BY DEF AtWork, RowsInv
<1>2. w.rows = rs /\ w.users = us /\ w.room = m
  BY DEF World
<1>3. AtWork(rs, ms, r, m, k)
  BY <1>1, MoreLost
<1>4. CASE AlreadySaved(m) \/ f = "row"
  <2>1. SaveToDb(w, r, t, f) = w
    BY <1>2, <1>4 DEF SaveToDb
  <2>2. SameGame(m, m)
    BY DEF SameGame
  <2>3. f # "row" => Stored(rs, m)
    BY <1>1, <1>4 DEF AlreadySaved, GameFits
  <2> HIDE DEF w, k
  <2> QED
    BY <1>2, <1>3, <2>1, <2>2, <2>3 DEF SavedWorld, w, k
<1>5. CASE ~(AlreadySaved(m) \/ f = "row")
  <2> DEFINE saved == IF m.game.over THEN FinishGame(w, r, t) ELSE SaveGame(w, r)
  <2>1. SaveToDb(w, r, t, f) = (IF f = "moves" THEN saved ELSE AddGameMoves(saved)) /\ ~m.resultSaved
    BY <1>1, <1>2, <1>5 DEF SaveToDb, AlreadySaved, GameFits
  <2>2. IsTarget(rs, r, m, g) /\ g \in Ids /\ (ActiveRows(rs, r) # {} => g \in ActiveRows(rs, r))
    <3>1. HasSpace(rs, m) /\ ~m.resultSaved /\ g = Target(World(rs, us, m), r)
      BY <2>1
    <3> HIDE DEF g
    <3>2. IsTarget(rs, r, m, g) /\ (ActiveRows(rs, r) # {} => g \in ActiveRows(rs, r))
      BY <3>1, TargetIs
    <3> QED
      BY <3>2 DEF IsTarget
  <2>3. \E new, m1, us1 : saved = World(new, us1, m1) /\ GameSaved(rs, new, r, m, m1, g)
                         /\ IF m.game.over THEN /\ us1 = RatedBy(us, m.game.result, m.bots)
                                                /\ new[g].at = t /\ new[g].bots = m.bots
                            ELSE us1 = us
    <3>1. CASE m.game.over
      BY <1>1, <2>2, <3>1, FinishGameSaves
    <3>2. CASE ~m.game.over
      BY <1>1, <2>1, <2>2, <3>2, SaveGameSaves
    <3> QED
      BY <3>1, <3>2
  <2> HIDE DEF saved, g, k, w
  <2>4. PICK new, m1, us1 : saved = World(new, us1, m1) /\ GameSaved(rs, new, r, m, m1, g)
                            /\ IF m.game.over THEN /\ us1 = RatedBy(us, m.game.result, m.bots)
                                                   /\ new[g].at = t /\ new[g].bots = m.bots
                               ELSE us1 = us
    BY <2>3
  <2>5. RowsSaved(rs, new, r, m, g) /\ new[g].log = rs[g].log
        /\ m1 \in RoomRecord /\ SameGame(m1, m) /\ m1.db = g /\ m1.resultSaved = m.game.over /\ m1.logged = m.logged
    BY <2>4 DEF GameSaved
  <2>6. m1.stage = "game" /\ m1.game = m.game /\ m1.moves = m.moves
    BY <2>5, <1>1 DEF SameGame
  <2>7. Exact(k) => m.logged = rs[g].log
    <3>1. NoRow.log = 0
      BY DEF NoRow
    <3>2. Exact(k) => Exact(l) /\ ~Reopen
      BY <1>1 DEF Exact
    <3> QED
      BY <1>1, <2>2, <3>1, <3>2 DEF GameFits, IsTarget
  <2>8. \A new2, m2 : RowsSaved(rs, new2, r, m, g)
                      /\ m2 \in RoomRecord /\ SameGame(m2, m) /\ m2.db = g /\ m2.resultSaved = m.game.over
                      /\ (Exact(k) => new2[g].log = m.moves /\ m2.logged = m.moves)
                      => AtWork(new2, ms, r, m2, k) /\ (m2.async => HasSpace(new2, m2)) /\ SameGame(m2, m)
                         /\ Stored(new2, m2)
    <3> TAKE new2, m2
    <3> HAVE RowsSaved(rs, new2, r, m, g)
             /\ m2 \in RoomRecord /\ SameGame(m2, m) /\ m2.db = g /\ m2.resultSaved = m.game.over
             /\ (Exact(k) => new2[g].log = m.moves /\ m2.logged = m.moves)
    <3>1. m2.stage = "game" /\ m2.game = m.game /\ m2.moves = m.moves /\ m2.async = m.async
      BY <1>1 DEF SameGame
    <3>2. AtWork(new2, ms, r, m2, k) /\ Stored(new2, m2)
      <4>1. k \in BOOLEAN /\ (l => k) /\ ~m.resultSaved
        BY <1>1, <2>1
      <4> QED
        BY <4>1, <2>2, <3>1, RowWritten
    <3>3. m2.async => HasSpace(new2, m2)
      BY <2>2, RecordsAssumption DEF HasSpace
    <3> QED
      BY <3>2, <3>3
  <2>9. CASE f = "moves"
    <3>1. ~Exact(k)
      BY <2>9 DEF k, Exact
    <3>2. AtWork(new, ms, r, m1, k) /\ (m1.async => HasSpace(new, m1)) /\ SameGame(m1, m) /\ Stored(new, m1)
      BY <2>5, <2>8, <3>1
    <3>3. SaveToDb(w, r, t, f) = World(new, us1, m1)
      BY <2>1, <2>4, <2>9
    <3>4. World(new, us1, m1).rows = new /\ World(new, us1, m1).room = m1
      BY DEF World
    <3>5. SavedWorld(SaveToDb(w, r, t, f), ms, r, m, f, k)
      BY <3>2, <3>3, <3>4 DEF SavedWorld
    <3> QED
      BY <3>5 DEF k, w
  <2>10. CASE f # "moves"
    <3>1. LogWritten(AddGameMoves(saved), new, us1, g, m1)
      <4>1. new \in [Ids -> RowRecord] /\ g \in Ids
        BY <2>2, <2>5 DEF RowsSaved
      <4>2. LogWritten(AddGameMoves(World(new, us1, m1)), new, us1, g, m1)
        BY <4>1, <2>5, MovesAdded
      <4> QED
        BY <2>4, <4>2
    <3>2. PICK new2, m2 :
            /\ AddGameMoves(saved) = World(new2, us1, m2)
            /\ new2 \in [Ids -> RowRecord] /\ \A h \in Ids \ {g} : new2[h] = new[h]
            /\ new2[g].room = new[g].room /\ new2[g].state = new[g].state /\ new2[g].status = new[g].status
            /\ new2[g].async = new[g].async /\ new2[g].at = new[g].at /\ new2[g].bots = new[g].bots
            /\ new2[g].log = new[g].log + (m1.moves - m1.logged)
            /\ m2 \in RoomRecord /\ SameGame(m2, m1) /\ m2.db = g /\ m2.resultSaved = m1.resultSaved
            /\ m2.logged = m1.moves
      BY <3>1 DEF LogWritten
    <3>3. Exact(k) => new2[g].log = m.moves /\ m2.logged = m.moves
      <4>1. m.moves \in Int /\ m.logged \in Int
        BY <1>1 DEF RoomRecord
      <4> QED
        BY <2>5, <2>6, <2>7, <3>2, <4>1
    <3>4. SameGame(m2, m)
      BY <2>5, <3>2 DEF SameGame
    <3>5. RowsSaved(rs, new2, r, m, g)
      BY <2>2, <2>5, <3>2 DEF RowsSaved, Overwritten
    <3>6. AtWork(new2, ms, r, m2, k) /\ (m2.async => HasSpace(new2, m2)) /\ SameGame(m2, m) /\ Stored(new2, m2)
      BY <2>5, <2>8, <3>2, <3>3, <3>4, <3>5
    <3>7. SaveToDb(w, r, t, f) = World(new2, us1, m2)
      BY <2>1, <2>10, <3>2
    <3>8. World(new2, us1, m2).rows = new2 /\ World(new2, us1, m2).room = m2
      BY DEF World
    <3>9. SavedWorld(SaveToDb(w, r, t, f), ms, r, m, f, k)
      BY <3>6, <3>7, <3>8 DEF SavedWorld
    <3> QED
      BY <3>9 DEF k, w
  <2> QED
    BY <2>9, <2>10
<1> QED
  BY <1>4, <1>5

(* Sending the state: whatever was changed, a correspondence game is        *)
(* durable again.  Two states with one signature are stored alike.          *)
LEMMA PersistKeeps ==
  ASSUME RecordsAssumption, NEW rs, NEW us, NEW ms, NEW r \in Rooms, NEW m, NEW l,
         AtWork(rs, ms, r, m, l),
         m.async /\ m.sig # Signature(m) => HasSpace(rs, m),
         m.async /\ m.sig = Signature(m) /\ ~l => Stored(rs, m), NEW t \in Nat, NEW f
  PROVE  LET w == PersistAsync(World(rs, us, m), r, t, f)
             k == l \/ f # "none"
         IN AtWork(w.rows, ms, r, w.room, k) /\ Durable(w.rows, w.room, k)
<1> DEFINE k == l \/ f # "none"
           w == World(rs, us, m)
           m1 == [m EXCEPT !.sig = Signature(m)]
<1>1. l \in BOOLEAN /\ k \in BOOLEAN /\ (l => k) /\ m \in RoomRecord /\ m.stage = "game" /\ GameFits(rs, m, r, l)
  BY DEF AtWork
<1>2. w.rows = rs /\ w.users = us /\ w.room = m
  BY DEF World
<1>3. CASE ~m.async \/ m.sig = Signature(m)
  <2>1. PersistAsync(w, r, t, f) = w
    BY <1>2, <1>3 DEF PersistAsync
  <2>2. AtWork(rs, ms, r, m, k)
    BY <1>1, MoreLost
  <2>3. Durable(rs, m, k)
    BY <1>3 DEF Durable
  <2> HIDE DEF w, k
  <2> QED
    BY <1>2, <2>1, <2>2, <2>3 DEF w, k
<1>4. CASE m.async /\ m.sig # Signature(m)
  <2>1. PersistAsync(w, r, t, f) = SaveToDb(World(rs, us, m1), r, t, f)
    BY <1>2, <1>4, Zenon DEF PersistAsync
  <2>2. m1 \in RoomRecord /\ m1.stage = "game" /\ m1.db = m.db /\ m1.logged = m.logged /\ m1.moves = m.moves
        /\ m1.resultSaved = m.resultSaved /\ m1.game = m.game /\ m1.sig = Signature(m) /\ m1.async = m.async
    <3>1. Signature(m) \in SignatureRecord
      BY <1>1 DEF Signature, SignatureRecord, RoomRecord, GameRecord
    <3> HIDE DEF m1
    <3> QED
      BY <1>1, <3>1 DEF RoomRecord, m1
  <2>3. AtWork(rs, ms, r, m1, l)
    BY <1>1, <2>2, GameChanged DEF GameFits
  <2>4. HasSpace(rs, m1)
    BY <1>4, <2>2 DEF HasSpace
  <2> DEFINE x == SaveToDb(World(rs, us, m1), r, t, f)
  <2>5. SavedWorld(x, ms, r, m1, f, k)
    BY <2>3, <2>4, SaveKeeps
  <2> HIDE DEF x, m1, w
  <2>6. Durable(x.rows, x.room, k)
    <3>1. SameGame(x.room, m1) /\ (f # "row" => Stored(x.rows, x.room))
      BY <2>5 DEF SavedWorld
    <3>2. x.room.sig = Signature(x.room)
      BY <2>2, <3>1 DEF SameGame, Signature
    <3>3. ~k => Stored(x.rows, x.room)
      BY <3>1
    <3> QED
      BY <3>2, <3>3 DEF Durable
  <2>7. AtWork(x.rows, ms, r, x.room, k)
    BY <2>5 DEF SavedWorld
  <2> QED
    BY <2>1, <2>6, <2>7 DEF x, w
<1> QED
  BY <1>3, <1>4

(* A save leaves the archive alone, or adds the game's result to it and to  *)
(* the players' rows.                                                       *)
RatesSaved(rs, us, x, m, t) ==
  KeepsRatings(rs, us, x.rows, x.users, t) /\ (~m.game.over => SameResults(rs, x.rows) /\ x.users = us)

LEMMA NothingRated ==
  ASSUME NEW rs, NEW us, NEW w, w.rows = rs, w.users = us, NEW m, NEW t
  PROVE  RatesSaved(rs, us, w, m, t)
BY DEF RatesSaved, KeepsRatings, SameResults, SameResult

LEMMA SaveRates ==
  ASSUME RecordsAssumption, NEW rs, NEW us, NEW ms, NEW r \in Rooms, NEW m, NEW l,
         AtWork(rs, ms, r, m, l), HasSpace(rs, m), NEW t \in Nat, NEW f
  PROVE  RatesSaved(rs, us, SaveToDb(World(rs, us, m), r, t, f), m, t)
<1> DEFINE w == World(rs, us, m)
           g == Target(w, r)
<1>1. rs \in [Ids -> RowRecord] /\ RowsApart(rs) /\ m \in RoomRecord /\ GameFits(rs, m, r, l)
      /\ m.game \in GameRecord /\ m.bots \in BOOLEAN
  BY DEF AtWork, RowsInv, RoomRecord
<1>2. w.rows = rs /\ w.users = us /\ w.room = m
  BY DEF World
<1>3. CASE AlreadySaved(m) \/ f = "row"
  <2>1. SaveToDb(w, r, t, f) = w
    BY <1>2, <1>3 DEF SaveToDb
  <2> HIDE DEF w
  <2>2. RatesSaved(rs, us, w, m, t)
    BY <1>2, NothingRated
  <2> QED
    BY <2>1, <2>2 DEF w
<1>4. CASE ~(AlreadySaved(m) \/ f = "row")
  <2> DEFINE saved == IF m.game.over THEN FinishGame(w, r, t) ELSE SaveGame(w, r)
  <2>1. SaveToDb(w, r, t, f) = (IF f = "moves" THEN saved ELSE AddGameMoves(saved)) /\ ~m.resultSaved
    BY <1>1, <1>2, <1>4 DEF SaveToDb, AlreadySaved, GameFits
  <2>2. g \in Ids /\ rs[g].status # "finished" /\ (ActiveRows(rs, r) # {} => g \in ActiveRows(rs, r))
    <3>1. HasSpace(rs, m) /\ ~m.resultSaved /\ g = Target(World(rs, us, m), r)
      BY <2>1
    <3> HIDE DEF g
    <3>2. IsTarget(rs, r, m, g) /\ (rs[g] = NoRow \/ g \in ActiveRows(rs, r))
          /\ (ActiveRows(rs, r) # {} => g \in ActiveRows(rs, r))
      BY <3>1, TargetIs
    <3> QED
      BY <3>2, NoRoomFits DEF IsTarget, ActiveRows
  <2>3. \E new, m1, us1 :
          /\ saved = World(new, us1, m1) /\ GameSaved(rs, new, r, m, m1, g)
          /\ IF m.game.over THEN /\ us1 = RatedBy(us, m.game.result, m.bots)
                                 /\ new[g].at = t /\ new[g].bots = m.bots
             ELSE us1 = us
    <3>1. CASE m.game.over
      BY <1>1, <2>2, <3>1, FinishGameSaves
    <3>2. CASE ~m.game.over
      BY <1>1, <2>1, <2>2, <3>2, SaveGameSaves
    <3> QED
      BY <3>1, <3>2
  <2> HIDE DEF saved, g, w
  <2>4. PICK new, m1, us1 :
          /\ saved = World(new, us1, m1) /\ GameSaved(rs, new, r, m, m1, g)
          /\ IF m.game.over THEN /\ us1 = RatedBy(us, m.game.result, m.bots)
                                 /\ new[g].at = t /\ new[g].bots = m.bots
             ELSE us1 = us
    BY <2>3
  <2>5. RowsSaved(rs, new, r, m, g) /\ m1 \in RoomRecord /\ m1.db = g /\ new \in [Ids -> RowRecord]
    BY <2>4 DEF GameSaved, RowsSaved
  <2>6. KeepsRatings(rs, us, new, us1, t) /\ (~m.game.over => SameResults(rs, new))
    <3>1. CASE m.game.over
      <4>1. m.game.result \in Results
        BY <1>1, <3>1, GameRecordIs
      <4>2. Recorded(rs, new, g, m.game.result, m.bots, t)
        BY <2>2, <2>4, <2>5, <3>1 DEF Recorded, RowsSaved, Overwritten, SameResult
      <4>3. KeepsRatings(rs, us, new, RatedBy(us, m.game.result, m.bots), t)
        BY <1>1, <2>2, <2>5, <4>1, <4>2, ResultKeepsRatings
      <4> QED
        BY <2>4, <3>1, <4>3
    <3>2. CASE ~m.game.over
      <4>1. SameResults(rs, new)
        BY <2>2, <2>5, <3>2 DEF SameResults, SameResult, RowsSaved, Overwritten
      <4> QED
        BY <2>4, <2>5, <3>2, <4>1, SameRecomputed
    <3> QED
      BY <3>1, <3>2
  <2>7. \A new2, m2 : new2 \in [Ids -> RowRecord] /\ SameResults(new, new2)
                      => RatesSaved(rs, us, World(new2, us1, m2), m, t)
    <3> TAKE new2, m2
    <3> HAVE new2 \in [Ids -> RowRecord] /\ SameResults(new, new2)
    <3>1. KeepsRatings(new, us1, new2, us1, t)
      BY SameRecomputed
    <3>2. KeepsRatings(rs, us, new2, us1, t)
      BY <2>6, <3>1, KeepsMore
    <3>3. ~m.game.over => SameResults(rs, new2) /\ us1 = us
      BY <2>4, <2>6 DEF SameResults, SameResult
    <3>4. World(new2, us1, m2).rows = new2 /\ World(new2, us1, m2).users = us1
      BY DEF World
    <3> QED
      BY <3>2, <3>3, <3>4 DEF RatesSaved
  <2>8. CASE f = "moves"
    <3>1. SameResults(new, new)
      BY DEF SameResults, SameResult
    <3>2. SaveToDb(w, r, t, f) = World(new, us1, m1)
      BY <2>1, <2>4, <2>8
    <3> QED
      BY <2>5, <2>7, <3>1, <3>2 DEF w
  <2>9. CASE f # "moves"
    <3>1. LogWritten(AddGameMoves(World(new, us1, m1)), new, us1, g, m1)
      BY <2>2, <2>5, MovesAdded
    <3>2. PICK new2, m2 :
            /\ AddGameMoves(saved) = World(new2, us1, m2)
            /\ new2 \in [Ids -> RowRecord] /\ \A h \in Ids \ {g} : new2[h] = new[h]
            /\ new2[g].state = new[g].state /\ new2[g].status = new[g].status
            /\ new2[g].at = new[g].at /\ new2[g].bots = new[g].bots
      BY <2>4, <3>1 DEF LogWritten
    <3>3. SameResults(new, new2)
      BY <3>2 DEF SameResults, SameResult
    <3>4. SaveToDb(w, r, t, f) = World(new2, us1, m2)
      BY <2>1, <2>9, <3>2
    <3> QED
      BY <2>7, <3>2, <3>3, <3>4 DEF w
  <2> QED
    BY <2>8, <2>9
<1> QED
  BY <1>3, <1>4

LEMMA PersistRates ==
  ASSUME RecordsAssumption, NEW rs, NEW us, NEW ms, NEW r \in Rooms, NEW m, NEW l,
         AtWork(rs, ms, r, m, l), m.async /\ m.sig # Signature(m) => HasSpace(rs, m), NEW t \in Nat, NEW f
  PROVE  RatesSaved(rs, us, PersistAsync(World(rs, us, m), r, t, f), m, t)
<1> DEFINE w == World(rs, us, m)
           m1 == [m EXCEPT !.sig = Signature(m)]
<1>1. m \in RoomRecord /\ m.stage = "game" /\ GameFits(rs, m, r, l)
  BY DEF AtWork
<1>2. w.rows = rs /\ w.users = us /\ w.room = m
  BY DEF World
<1>3. CASE ~m.async \/ m.sig = Signature(m)
  <2>1. PersistAsync(w, r, t, f) = w
    BY <1>2, <1>3 DEF PersistAsync
  <2> HIDE DEF w
  <2>2. RatesSaved(rs, us, w, m, t)
    BY <1>2, NothingRated
  <2> QED
    BY <2>1, <2>2 DEF w
<1>4. CASE m.async /\ m.sig # Signature(m)
  <2>1. PersistAsync(w, r, t, f) = SaveToDb(World(rs, us, m1), r, t, f)
    BY <1>2, <1>4, Zenon DEF PersistAsync
  <2>2. m1 \in RoomRecord /\ m1.stage = "game" /\ m1.db = m.db /\ m1.logged = m.logged /\ m1.moves = m.moves
        /\ m1.resultSaved = m.resultSaved /\ m1.game = m.game /\ m1.async = m.async
    <3>1. Signature(m) \in SignatureRecord
      BY <1>1 DEF Signature, SignatureRecord, RoomRecord, GameRecord
    <3> HIDE DEF m1
    <3> QED
      BY <1>1, <3>1 DEF RoomRecord, m1
  <2> HIDE DEF m1
  <2>3. AtWork(rs, ms, r, m1, l)
    BY <1>1, <2>2, GameChanged DEF GameFits
  <2>4. HasSpace(rs, m1)
    BY <1>4, <2>2 DEF HasSpace
  <2>5. RatesSaved(rs, us, SaveToDb(World(rs, us, m1), r, t, f), m1, t)
    BY <2>3, <2>4, SaveRates
  <2> QED
    BY <2>1, <2>2, <2>5 DEF RatesSaved
<1> QED
  BY <1>3, <1>4

-----------------------------------------------------------------------------
(* Rows that get another status, or go; rooms loaded from their rows. *)

Restatused(rs, rs2, gs) ==
  /\ rs2 \in [Ids -> RowRecord]
  /\ \A g \in Ids :
       IF g \in gs
       THEN /\ rs[g].status \notin NotPlayed /\ rs2[g].status \notin NotPlayed
            /\ rs2[g].room = rs[g].room /\ rs2[g].state = rs[g].state
            /\ rs2[g].log = rs[g].log /\ rs2[g].async = rs[g].async
            /\ rs[g].state.over => rs2[g].status \in {"finished", "voided"}
       ELSE rs2[g] = rs[g]

LEMMA StatusesChanged ==
  ASSUME RecordsAssumption, NEW rs, NEW ms, NEW l, WorldFits(rs, ms, l), NEW rs2, NEW gs \in SUBSET Ids,
         Restatused(rs, rs2, gs),
         \A r \in Rooms : ms[r].stage = "game" /\ ms[r].db \in gs =>
           ms[r].resultSaved \/ (Reopen /\ ~ms[r].async /\ rs2[ms[r].db].status = "abandoned")
  PROVE  WorldFits(rs2, ms, l)
<1>1. rs \in [Ids -> RowRecord] /\ RowsFit(rs, l) /\ RowsApart(rs) /\ ms \in [Rooms -> RoomRecord] /\ l \in BOOLEAN
  BY DEF WorldFits, RowsInv
<1>2. \A g \in Ids : /\ rs2[g].room = rs[g].room /\ rs2[g].state = rs[g].state /\ rs2[g].async = rs[g].async
                     /\ rs2[g].log = rs[g].log /\ (rs2[g].status \in NotPlayed <=> rs[g].status \in NotPlayed)
                     /\ (g \notin gs => rs2[g] = rs[g])
  BY DEF Restatused
<1>3. RowsFit(rs2, l)
  BY <1>1, <1>2 DEF RowsFit, Restatused, NotPlayed
<1>4. RowsApart(rs2)
  BY <1>1, <1>2 DEF RowsApart
<1>5. ASSUME NEW r \in Rooms
      PROVE  RoomFits(rs2, ms, ms[r], r, l)
  <2>1. RoomFits(rs, ms, ms[r], r, l) /\ ms[r] \in RoomRecord
    BY <1>1 DEF WorldFits
  <2>2. CASE ms[r].stage = "lobby"
    <3>1. LobbyFits(rs, ms, ms[r], r, l)
      BY <2>1, <2>2 DEF RoomFits
    <3>2. ms[r].save.id \in Ids
      BY <2>1, <3>1 DEF LobbyFits, RoomRecord, SaveRecord
    <3>3. \A g \in Ids : rs2[g].room # r
      BY <1>2, <3>1 DEF LobbyFits
    <3> DEFINE row == rs[ms[r].save.id]
               row2 == rs2[ms[r].save.id]
    <3>4. row2.room = row.room /\ row2.state = row.state /\ row2.async = row.async
          /\ (row2.status \in NotPlayed <=> row.status \in NotPlayed) /\ (row.status \in NotPlayed => row2 = row)
      BY <1>2, <3>2 DEF Restatused
    <3>5. row2.status # "none" /\ (row.status # "deleted" => row2.status # "deleted")
      BY <3>1, <3>4 DEF LobbyFits, NotPlayed
    <3>6. LobbyFits(rs2, ms, ms[r], r, l)
      BY <3>1, <3>3, <3>4, <3>5 DEF LobbyFits
    <3> QED
      BY <2>2, <3>6 DEF RoomFits
  <2>3. CASE ms[r].stage = "game"
    <3>1. GameFits(rs, ms[r], r, l) /\ Durable(rs, ms[r], l) /\ ms[r].db \in Ids \cup {None}
      BY <2>1, <2>3 DEF RoomFits, RoomRecord
    <3>2. ms[r].db # None => rs2[ms[r].db].room = rs[ms[r].db].room /\ rs2[ms[r].db].state = rs[ms[r].db].state
                             /\ rs2[ms[r].db].log = rs[ms[r].db].log
                             /\ (\/ ms[r].resultSaved \/ rs2[ms[r].db] = rs[ms[r].db]
                                 \/ Reopen /\ ~ms[r].async /\ rs2[ms[r].db].status = "abandoned")
      BY <1>2, <2>3, <3>1
    <3>3. ms[r].db = None => \A g \in Ids : rs2[g].room # r
      BY <1>2, <3>1 DEF GameFits
    <3>4. Stored(rs, ms[r]) <=> Stored(rs2, ms[r])
      BY <3>2 DEF Stored
    <3>5. \A g \in Ids : rs2[g].room = rs[g].room /\ rs2[g].state = rs[g].state /\ rs2[g].async = rs[g].async
      BY <1>2
    <3>6. GameFits(rs2, ms[r], r, l) /\ Durable(rs2, ms[r], l)
      BY <3>1, <3>2, <3>3, <3>4, <3>5 DEF GameFits, Durable, Unrecorded
    <3> QED
      BY <2>3, <3>6 DEF RoomFits
  <2> QED
    BY <2>1, <2>2, <2>3 DEF RoomFits
<1> QED
  BY <1>1, <1>3, <1>4, <1>5 DEF WorldFits, RowsInv, Restatused

(* The room of a row that is live is the row's. *)
LEMMA LiveRow ==
  ASSUME RecordsAssumption, NEW rs, NEW ms, NEW l, WorldFits(rs, ms, l), NEW r \in Rooms, ms[r].db # None
  PROVE  ms[r].stage = "game" /\ ms[r].db \in Ids /\ rs[ms[r].db].room = r /\ GameFits(rs, ms[r], r, l)
<1>1. RoomFits(rs, ms, ms[r], r, l) /\ ms[r] \in RoomRecord
  BY DEF WorldFits
<1>2. ms[r].stage = "game" /\ ms[r].db \in Ids
  BY <1>1, NoRoomFits DEF RoomFits, LobbyFits, RoomRecord
<1> QED
  BY <1>1, <1>2 DEF RoomFits, GameFits

LEMMA ActiveRow ==
  ASSUME RecordsAssumption, NEW rs, NEW l, RowsInv(rs, l), NEW g \in Ids, rs[g].status \notin NotPlayed
  PROVE  rs[g].room \in Rooms /\ rs[g] \in RowRecord /\ (rs[g].status = "active" => ~rs[g].state.over)
         /\ (Exact(l) => rs[g].log = rs[g].state.turns)
BY DEF RowsInv, RowsFit, RowRecord

(* delete_game takes the row of a game that no room plays. *)
LEMMA RowDeleted ==
  ASSUME RecordsAssumption, NEW rs, NEW ms, NEW l, WorldFits(rs, ms, l), NEW g \in Ids,
         rs[g].status \notin NotPlayed, \A r \in Rooms : ms[r].db # g, NEW n, n = [NoRow EXCEPT !.status = "deleted"],
         NEW k \in BOOLEAN, l => k, \A r \in Rooms : ms[r].save # None /\ ms[r].save.id = g => k
  PROVE  WorldFits([rs EXCEPT ![g] = n], ms, k)
<1> DEFINE rs2 == [rs EXCEPT ![g] = n]
<1>1. rs \in [Ids -> RowRecord] /\ RowsFit(rs, l) /\ RowsApart(rs) /\ ms \in [Rooms -> RoomRecord] /\ l \in BOOLEAN
  BY DEF WorldFits, RowsInv
<1>2. n \in RowRecord /\ n.status = "deleted" /\ n.room = None /\ ~n.async /\ ~n.state.over
  BY NoRoomFits DEF RowRecord, NoRow, NewGame
<1>3. rs2 \in [Ids -> RowRecord] /\ rs2[g] = n /\ \A h \in Ids : h # g => rs2[h] = rs[h]
  BY <1>1, <1>2
<1> HIDE DEF rs2
<1>4. RowsFit(rs2, k)
  BY <1>1, <1>2, <1>3 DEF RowsFit, NotPlayed, Exact
<1>5. RowsApart(rs2)
  <2> SUFFICES ASSUME NEW a \in Ids, NEW b \in Ids, a # b, rs2[a].room # None, rs2[a].room = rs2[b].room
               PROVE  /\ Reopen /\ ~rs2[a].async /\ ~rs2[b].async
                      /\ ~(rs2[a].state.over /\ rs2[b].state.over)
    BY DEF RowsApart
  <2>1. rs2[a] = rs[a] /\ rs2[b] = rs[b]
    BY <1>2, <1>3
  <2> QED
    BY <1>1, <2>1 DEF RowsApart
<1>6. ASSUME NEW r \in Rooms
      PROVE  RoomFits(rs2, ms, ms[r], r, k)
  <2>1. RoomFits(rs, ms, ms[r], r, l) /\ ms[r] \in RoomRecord /\ ms[r].db # g
    BY <1>1 DEF WorldFits
  <2>2. (\A h \in Ids : rs[h].room # r) => \A h \in Ids : rs2[h].room # r
    BY <1>2, <1>3, RecordsAssumption
  <2>3. CASE ms[r].stage = "lobby"
    <3>1. LobbyFits(rs, ms, ms[r], r, l)
      BY <2>1, <2>3 DEF RoomFits
    <3>2. ms[r].save.id \in Ids
      BY <2>1, <3>1 DEF LobbyFits, RoomRecord, SaveRecord
    <3>3. CASE ms[r].save.id = g
      <4>1. rs2[ms[r].save.id] = n /\ k /\ n.status # "none"
        BY <1>2, <1>3, <3>1, <3>3 DEF LobbyFits
      <4>2. LobbyFits(rs2, ms, ms[r], r, k)
        BY <1>2, <2>2, <3>1, <4>1 DEF LobbyFits, Exact
      <4> QED
        BY <2>3, <4>2 DEF RoomFits
    <3>4. CASE ms[r].save.id # g
      <4>1. rs2[ms[r].save.id] = rs[ms[r].save.id]
        BY <1>3, <3>2, <3>4
      <4>2. LobbyFits(rs2, ms, ms[r], r, k)
        BY <2>2, <3>1, <4>1 DEF LobbyFits, Exact
      <4> QED
        BY <2>3, <4>2 DEF RoomFits
    <3> QED
      BY <3>3, <3>4
  <2>4. CASE ms[r].stage = "game"
    <3>1. GameFits(rs, ms[r], r, l) /\ Durable(rs, ms[r], l) /\ ms[r].db \in Ids \cup {None}
      BY <2>1, <2>4 DEF RoomFits, RoomRecord
    <3>2. ms[r].db # None => rs2[ms[r].db] = rs[ms[r].db]
      BY <1>3, <2>1, <3>1
    <3>3. Stored(rs, ms[r]) <=> Stored(rs2, ms[r])
      BY <3>2 DEF Stored
    <3>4. \A h \in Ids : rs2[h].room = r => rs2[h] = rs[h]
      BY <1>2, <1>3, RecordsAssumption
    <3>5. GameFits(rs2, ms[r], r, k) /\ Durable(rs2, ms[r], k)
      BY <2>2, <3>1, <3>2, <3>3, <3>4 DEF GameFits, Durable, Unrecorded, Exact
    <3> QED
      BY <2>4, <3>5 DEF RoomFits
  <2> QED
    BY <2>1, <2>3, <2>4 DEF RoomFits
<1>7. WorldFits(rs2, ms, k)
  BY <1>1, <1>3, <1>4, <1>5, <1>6 DEF WorldFits, RowsInv
<1> QED
  BY <1>7 DEF rs2

(* load_async_room makes of an active row the room that wrote it. *)
LEMMA LoadedFits ==
  ASSUME RecordsAssumption, NEW l, RowsInv(rows, l), NEW g \in Ids, ActiveAsync(g)
  PROVE  LoadedRoom(g) \in RoomRecord /\ LoadedRoom(g).stage = "game"
         /\ GameFits(rows, LoadedRoom(g), rows[g].room, l) /\ Durable(rows, LoadedRoom(g), l)
<1> DEFINE m == LoadedRoom(g)
<1>1. rows[g].room \in Rooms /\ rows[g] \in RowRecord /\ ~rows[g].state.over /\ rows[g].status = "active"
      /\ (Exact(l) => rows[g].log = rows[g].state.turns) /\ rows[g].async = TRUE
  BY ActiveRow DEF NotPlayed, ActiveAsync, RowRecord
<1>2. rows[g].log \in Int /\ rows[g].state \in GameRecord /\ rows[g].state.over \in BOOLEAN /\ rows[g].state.turns \in Nat
  BY <1>1 DEF RowRecord, GameRecord
<1>3. <<rows[g].log, rows[g].state.over, rows[g].state.turns>> \in SignatureRecord
  BY <1>2 DEF SignatureRecord
<1>4. m.stage = "game" /\ m.async = TRUE /\ m.game = rows[g].state /\ m.db = g /\ m.moves = rows[g].log /\ m.logged = rows[g].log
      /\ m.sig = <<rows[g].log, rows[g].state.over, rows[g].state.turns>> /\ ~m.resultSaved
  BY DEF LoadedRoom, NoRoom
<1>5. m \in RoomRecord
  BY <1>2, <1>3, NoRoomFits DEF LoadedRoom, RoomRecord
<1> HIDE DEF m
<1>6. g # None
  BY RecordsAssumption
<1>7. Stored(rows, m)
  BY <1>4, <1>6 DEF Stored
<1>8. GameFits(rows, m, rows[g].room, l)
  <2>1. \A h \in Ids : rows[h].room = rows[g].room => h = g
    BY <1>1, RecordsAssumption DEF RowsInv, RowsApart
  <2>2. m.async = TRUE
    BY <1>4
  <2> QED
    BY <1>1, <1>4, <1>6, <2>1, <2>2 DEF GameFits, Unrecorded
<1>9. Durable(rows, m, l)
  BY <1>4, <1>7 DEF Durable, Signature
<1> QED
  BY <1>4, <1>5, <1>8, <1>9 DEF m

LEMMA RoomForFits ==
  ASSUME RecordsAssumption, WorldFits(rows, rooms, lost), NEW g \in Ids, ActiveAsync(g)
  PROVE  /\ rows[g].room \in Rooms /\ AtWork(rows, rooms, rows[g].room, RoomFor(g), lost)
         /\ Durable(rows, RoomFor(g), lost)
<1> DEFINE loaded == {r \in Rooms : rooms[r].async /\ rooms[r].db = g}
<1>1. RowsInv(rows, lost) /\ g # None /\ rows[g].status = "active" /\ rows[g].async
  BY RecordsAssumption DEF WorldFits, ActiveAsync
<1>2. rows[g].room \in Rooms
  BY <1>1, ActiveRow DEF NotPlayed
<1>3. CASE loaded # {}
  <2>1. PICK r \in loaded : RoomFor(g) = rooms[r]
    BY <1>3 DEF RoomFor
  <2>2. r \in Rooms /\ rooms[r].db = g
    BY <2>1
  <2>3. rooms[r].stage = "game" /\ rows[g].room = r
    BY <1>1, <2>2, LiveRow
  <2> QED
    BY <1>2, <2>1, <2>2, <2>3, TakenUp
<1>4. CASE loaded = {}
  <2>1. RoomFor(g) = LoadedRoom(g)
    BY <1>4 DEF RoomFor
  <2>2. Free(rows, rooms, rows[g].room)
    <3> SUFFICES ASSUME ~Reopen, NEW q \in Rooms, rooms[q].stage = "lobby", rows[rooms[q].save.id].room = rows[g].room
                 PROVE  FALSE
      BY DEF Free
    <3>1. LobbyFits(rows, rooms, rooms[q], q, lost) /\ rooms[q] \in RoomRecord
      BY DEF WorldFits, RoomFits
    <3>2. rooms[q].save.id \in Ids
      BY <3>1 DEF LobbyFits, RoomRecord, SaveRecord
    <3>3. rooms[q].save.id = g
      BY <1>1, <1>2, <3>2, RecordsAssumption DEF RowsInv, RowsApart
    <3> QED
      BY <1>1, <3>1, <3>3 DEF LobbyFits
  <2>3. OthersFit(rows, rooms, rows[g].room, lost) /\ rooms \in [Rooms -> RoomRecord] /\ lost \in BOOLEAN
    BY DEF WorldFits, OthersFit
  <2> QED
    BY <1>1, <1>2, <2>1, <2>2, <2>3, LoadedFits DEF AtWork
<1> QED
  BY <1>3, <1>4
-----------------------------------------------------------------------------
(* The handlers of a room. *)

LEMMA OneFailure ==
  ASSUME NEW f, Failed(<<f>>), lost \in BOOLEAN
  PROVE  lost' = (lost \/ f # "none")
<1>1. lost' = (lost \/ \E i \in DOMAIN <<f>> : <<f>>[i] # "none")
  BY Zenon DEF Failed
<1> QED
  BY <1>1

LEMMA TwoFailures ==
  ASSUME NEW f, NEW h, Failed(<<f, h>>), lost \in BOOLEAN
  PROVE  lost' = (lost \/ f # "none" \/ h # "none")
<1>1. lost' = (lost \/ \E i \in DOMAIN <<f, h>> : <<f, h>>[i] # "none")
  BY Zenon DEF Failed
<1> QED
  BY <1>1

(* A handler that ends with a room at work, or without it. *)
LEMMA HandlerEnds ==
  ASSUME RecordsAssumption, NEW r \in Rooms, NEW w, NEW k, NEW t,
         WorldFits(rows, rooms, lost), Written(r, w), lost' = k,
         AtWork(w.rows, rooms, r, w.room, k), Durable(w.rows, w.room, k),
         KeepsRatings(rows, users, w.rows, w.users, t)
  PROVE  WorldFits(rows', rooms', lost') /\ KeepsRatings(rows, users, rows', users', t)
<1>1. rows' = w.rows /\ users' = w.users /\ rooms' = [rooms EXCEPT ![r] = w.room]
  BY DEF Written
<1>2. WorldFits(w.rows, [rooms EXCEPT ![r] = w.room], k)
  BY PutDown
<1> QED
  BY <1>1, <1>2

LEMMA AtWorkClosed ==
  ASSUME RecordsAssumption, NEW rs, NEW ms, NEW l, NEW r \in Rooms, NEW m, AtWork(rs, ms, r, m, l)
  PROVE  WorldFits(rs, [ms EXCEPT ![r] = NoRoom], l)
BY RoomClosed DEF AtWork

LEMMA FitsClosed ==
  ASSUME RecordsAssumption, NEW rs, NEW ms, NEW l, NEW r \in Rooms, WorldFits(rs, ms, l)
  PROVE  WorldFits(rs, [ms EXCEPT ![r] = NoRoom], l)
<1>1. RowsInv(rs, l) /\ ms \in [Rooms -> RoomRecord] /\ l \in BOOLEAN /\ OthersFit(rs, ms, r, l)
  BY DEF WorldFits, OthersFit
<1> QED
  BY <1>1, RoomClosed

(* A new game's room. *)
LEMMA NewRoomAtWork ==
  ASSUME RecordsAssumption, NEW rs, NEW ms, NEW l, NEW r \in Rooms,
         RowsInv(rs, l), ms \in [Rooms -> RoomRecord], l \in BOOLEAN, OthersFit(rs, ms, r, l), Free(rs, ms, r),
         \A g \in Ids : rs[g].room # r,
         NEW m \in RoomRecord, m.stage = "game", m.db = None, ~m.resultSaved, m.logged = 0,
         Exact(l) => m.moves = m.game.turns
  PROVE  AtWork(rs, ms, r, m, l)
BY DEF AtWork, GameFits, Unrecorded

LEMMA StartGameKeeps ==
  ASSUME RecordsAssumption, WorldFits(rows, rooms, lost), now \in Nat,
         NEW r \in Rooms, NEW async \in BOOLEAN, NEW bots \in BOOLEAN, StartGame(r, async, bots)
  PROVE  WorldFits(rows', rooms', lost') /\ KeepsRatings(rows, users, rows', users', now)
<1> DEFINE m == [NoRoom EXCEPT !.stage = "game", !.async = async, !.bots = bots, !.seen = TRUE]
           w == Here(m)
<1>1. PICK f \in Failures : /\ Written(r, IF async THEN PersistAsync(w, r, now, f) ELSE SaveToDb(w, r, now, f))
                            /\ Failed(<<f>>)
  BY Zenon DEF StartGame
<1>2. (\A g \in Ids : rows[g].room # r) /\ Unused(rows) # {} /\ rooms[r] = NoRoom
  BY DEF StartGame, RoomUnused, SpaceLeft
<1>3. RowsInv(rows, lost) /\ rooms \in [Rooms -> RoomRecord] /\ lost \in BOOLEAN /\ OthersFit(rows, rooms, r, lost)
  BY DEF WorldFits, OthersFit
<1>4. Free(rows, rooms, r)
  <2> SUFFICES ASSUME NEW q \in Rooms, rooms[q].stage = "lobby"
               PROVE  rows[rooms[q].save.id].room # r
    BY DEF Free
  <2>1. LobbyFits(rows, rooms, rooms[q], q, lost) /\ rooms[q] \in RoomRecord
    BY DEF WorldFits, RoomFits
  <2>2. rooms[q].save.id \in Ids
    BY <2>1 DEF LobbyFits, RoomRecord, SaveRecord
  <2> QED
    BY <1>2, <2>2
<1>5. m \in RoomRecord /\ m.stage = "game" /\ m.async = async /\ m.db = None /\ ~m.resultSaved /\ m.logged = 0
      /\ m.moves = 0 /\ m.game.turns = 0 /\ m.sig = None
  <2>1. NoRoom.db = None /\ ~NoRoom.resultSaved /\ NoRoom.logged = 0 /\ NoRoom.moves = 0
        /\ NoRoom.game.turns = 0 /\ NoRoom.sig = None
    BY DEF NoRoom, NewGame
  <2>2. NoRoom \in RoomRecord
    BY NoRoomFits
  <2>3. m \in RoomRecord
    BY <2>2 DEF RoomRecord
  <2>4. m.stage = "game" /\ m.async = async /\ m.db = NoRoom.db /\ m.resultSaved = NoRoom.resultSaved
        /\ m.logged = NoRoom.logged /\ m.moves = NoRoom.moves /\ m.game = NoRoom.game /\ m.sig = NoRoom.sig
    BY <2>2 DEF RoomRecord
  <2> QED
    BY <2>1, <2>3, <2>4
<1> HIDE DEF m
<1>6. AtWork(rows, rooms, r, m, lost) /\ HasSpace(rows, m)
  BY <1>2, <1>3, <1>4, <1>5, NewRoomAtWork DEF HasSpace
<1>7. lost' = (lost \/ f # "none")
  BY <1>1, <1>3, OneFailure
<1>8. w = World(rows, users, m)
  BY DEF Here
<1> HIDE DEF w
<1>9. CASE async
  <2>1. m.sig # Signature(m)
    <3>1. Signature(m) \in SignatureRecord
      BY <1>5 DEF Signature, SignatureRecord, RoomRecord, GameRecord
    <3> QED
      BY <3>1, <1>5, RecordsAssumption
  <2> DEFINE x == PersistAsync(w, r, now, f)
  <2>2. AtWork(x.rows, rooms, r, x.room, lost \/ f # "none") /\ Durable(x.rows, x.room, lost \/ f # "none")
    BY <1>6, <1>8, <2>1, PersistKeeps
  <2>4. RatesSaved(rows, users, x, m, now)
    BY <1>6, <1>8, PersistRates
  <2> HIDE DEF x
  <2>3. Written(r, x)
    BY <1>1, <1>9 DEF x
  <2> QED
    BY <1>7, <2>2, <2>3, <2>4, HandlerEnds DEF RatesSaved
<1>10. CASE ~async
  <2> DEFINE x == SaveToDb(w, r, now, f)
  <2>1. SavedWorld(x, rooms, r, m, f, lost \/ f # "none")
    BY <1>6, <1>8, SaveKeeps
  <2>5. RatesSaved(rows, users, x, m, now)
    BY <1>6, <1>8, SaveRates
  <2> HIDE DEF x
  <2>2. AtWork(x.rows, rooms, r, x.room, lost \/ f # "none") /\ ~x.room.async
    BY <1>5, <1>10, <2>1 DEF SavedWorld, SameGame
  <2>3. Durable(x.rows, x.room, lost \/ f # "none")
    BY <2>2 DEF Durable
  <2>4. Written(r, x)
    BY <1>1, <1>10 DEF x
  <2> QED
    BY <1>7, <2>2, <2>3, <2>4, <2>5, HandlerEnds DEF RatesSaved
<1> QED
  BY <1>9, <1>10

LEMMA TurnFits ==
  ASSUME NEW m \in RoomRecord
  PROVE  /\ Turn(m) \in RoomRecord /\ Turn(m).stage = m.stage /\ Turn(m).async = m.async /\ Turn(m).db = m.db
         /\ Turn(m).logged = m.logged /\ Turn(m).resultSaved = m.resultSaved /\ Turn(m).sig = m.sig
         /\ Turn(m).seen = m.seen /\ Turn(m).moves = m.moves + 1 /\ Turn(m).game.turns = m.game.turns + 1
         /\ Turn(m).game.over = m.game.over
<1> DEFINE game == [m.game EXCEPT !.turns = @ + 1]
<1>1. m.game \in GameRecord /\ m.moves \in Int
  BY DEF RoomRecord
<1>2. game \in GameRecord /\ game.turns = m.game.turns + 1 /\ game.over = m.game.over
  <2>1. game \in [turns : Nat, over : BOOLEAN, result : Results \cup {None}, due : Nat]
        /\ game.turns = m.game.turns + 1 /\ game.over = m.game.over /\ game.result = m.game.result
    BY <1>1, GameRecordIs
  <2>2. game.over => game.result \in Results
    BY <1>1, <2>1, GameRecordIs
  <2> HIDE DEF game
  <2> QED
    BY <2>1, <2>2, GameRecordIs
<1>3. Turn(m) = [m EXCEPT !.game = game, !.moves = m.moves + 1]
  BY DEF Turn, RoomRecord
<1> DEFINE x == Turn(m)
<1> HIDE DEF game
<1>4. x.game = game /\ x.stage = m.stage /\ x.async = m.async /\ x.db = m.db /\ x.logged = m.logged
      /\ x.resultSaved = m.resultSaved /\ x.sig = m.sig /\ x.seen = m.seen /\ x.moves = m.moves + 1
  BY <1>3 DEF RoomRecord
<1>5. m.moves + 1 \in Int
  BY <1>1
<1>6. x \in RoomRecord
  BY <1>2, <1>3, <1>5 DEF RoomRecord
<1> QED
  BY <1>2, <1>4, <1>6

LEMMA EndedFits ==
  ASSUME NEW m \in RoomRecord, NEW result \in Results
  PROVE  LET x == Ended(m, result)
         IN /\ x \in RoomRecord /\ x.stage = m.stage /\ x.async = m.async /\ x.db = m.db
            /\ x.logged = m.logged /\ x.resultSaved = m.resultSaved /\ x.sig = m.sig /\ x.seen = m.seen
            /\ x.moves = m.moves /\ x.game.turns = m.game.turns /\ x.game.over
<1> DEFINE game == [m.game EXCEPT !.over = TRUE, !.result = result]
<1>1. m.game \in GameRecord
  BY DEF RoomRecord
<1>2. game \in GameRecord /\ game.turns = m.game.turns /\ game.over
  BY <1>1 DEF GameRecord
<1>3. Ended(m, result) = [m EXCEPT !.game = game]
  BY DEF Ended, RoomRecord
<1> DEFINE x == Ended(m, result)
<1> HIDE DEF game
<1>4. x.game = game /\ x.stage = m.stage /\ x.async = m.async /\ x.db = m.db /\ x.logged = m.logged
      /\ x.resultSaved = m.resultSaved /\ x.sig = m.sig /\ x.seen = m.seen /\ x.moves = m.moves
  BY <1>3 DEF RoomRecord
<1>5. x \in RoomRecord
  BY <1>2, <1>3 DEF RoomRecord
<1> QED
  BY <1>2, <1>4, <1>5

(* A room whose game goes on has not saved its result. *)
LEMMA RunningAtWork ==
  ASSUME RecordsAssumption, WorldFits(rows, rooms, lost), NEW r \in Rooms, Running(rooms[r])
  PROVE  /\ AtWork(rows, rooms, r, rooms[r], lost) /\ Durable(rows, rooms[r], lost)
         /\ rooms[r] \in RoomRecord /\ rooms[r].stage = "game" /\ ~rooms[r].game.over /\ ~rooms[r].resultSaved
         /\ lost \in BOOLEAN
         /\ (Exact(lost) => rooms[r].moves = rooms[r].game.turns) /\ rooms[r].moves \in Int /\ rooms[r].game.turns \in Nat
<1>1. AtWork(rows, rooms, r, rooms[r], lost) /\ Durable(rows, rooms[r], lost)
  BY TakenUp DEF Running
<1> QED
  BY <1>1 DEF AtWork, GameFits, Running, RoomRecord, GameRecord

LEMMA PlayTurnKeeps ==
  ASSUME RecordsAssumption, WorldFits(rows, rooms, lost), now \in Nat, NEW r \in Rooms, PlayTurn(r)
  PROVE  WorldFits(rows', rooms', lost') /\ KeepsRatings(rows, users, rows', users', now)
<1> DEFINE m == Turn(rooms[r])
<1>1. PICK f \in Failures : Written(r, PersistAsync(Here(m), r, now, f)) /\ Failed(<<f>>)
  BY DEF PlayTurn
<1>2. Running(rooms[r]) /\ Unused(rows) # {}
  BY DEF PlayTurn, SpaceLeft
<1>3. lost' = (lost \/ f # "none")
  BY <1>1, OneFailure DEF WorldFits
<1>4. Here(m) = World(rows, users, m)
  BY DEF Here
<1>5. AtWork(rows, rooms, r, m, lost)
  <2>1. Exact(lost) => m.moves = m.game.turns
    BY <1>2, RunningAtWork, TurnFits
  <2> QED
    BY <1>2, <2>1, RunningAtWork, TurnFits, GameChanged
<1>6. m.async /\ m.sig = Signature(m) => FALSE
  <2> SUFFICES ASSUME m.async
               PROVE  m.sig # Signature(m)
    OBVIOUS
  <2>1. rooms[r].async /\ rooms[r].sig = Signature(rooms[r])
    BY <1>2, RunningAtWork, TurnFits DEF Durable
  <2>2. m.sig = rooms[r].sig /\ m.moves = rooms[r].moves + 1 /\ rooms[r].moves \in Int
    BY <1>2, RunningAtWork, TurnFits
  <2> QED
    BY <2>1, <2>2 DEF Signature
<1>7. HasSpace(rows, m)
  BY <1>2 DEF HasSpace
<1> DEFINE x == PersistAsync(World(rows, users, m), r, now, f)
<1>8. AtWork(x.rows, rooms, r, x.room, lost \/ f # "none") /\ Durable(x.rows, x.room, lost \/ f # "none")
  BY <1>5, <1>6, <1>7, PersistKeeps
<1>9. RatesSaved(rows, users, x, m, now)
  BY <1>5, <1>7, PersistRates
<1> HIDE DEF x, m
<1>10. Written(r, x)
  BY <1>1, <1>4 DEF x
<1> QED
  BY <1>3, <1>8, <1>10, <1>9, HandlerEnds DEF RatesSaved
LEMMA SaveToDbIsWorld ==
  ASSUME NEW rs, NEW us, NEW m, NEW r, NEW t, NEW f
  PROVE  LET x == SaveToDb(World(rs, us, m), r, t, f) IN x = World(x.rows, x.users, x.room)
<1> DEFINE w == World(rs, us, m)
           IsWorld(x) == \E a, b, c : x = World(a, b, c)
<1>1. IsWorld(w)
  OBVIOUS
<1>2. \A x : IsWorld(AddGameMoves(x))
  BY Zenon DEF AddGameMoves
<1>3. IsWorld(FinishGame(w, r, t)) /\ IsWorld(SaveGame(w, r))
  BY Zenon DEF FinishGame, SaveGame
<1> HIDE DEF w, IsWorld
<1>4. IsWorld(SaveToDb(w, r, t, f))
  BY <1>1, <1>2, <1>3 DEF SaveToDb
<1>5. \A x : IsWorld(x) => x = World(x.rows, x.users, x.room)
  BY DEF IsWorld, World
<1> QED
  BY <1>4, <1>5 DEF w

LEMMA EndWithSaveKeeps ==
  ASSUME RecordsAssumption, WorldFits(rows, rooms, lost), NEW r \in Rooms, NEW result \in Results, NEW t \in Nat,
         EndWithSave(r, result, t)
  PROVE  WorldFits(rows', rooms', lost') /\ KeepsRatings(rows, users, rows', users', t)
<1> DEFINE last == IF rooms[r].game.turns < MaxTurns THEN Turn(rooms[r]) ELSE rooms[r]
           m == Ended(last, result)
           saved(f) == SaveToDb(Here(m), r, t, f)
<1>1. PICK f, again \in Failures : Written(r, PersistAsync(saved(f), r, t, again)) /\ Failed(<<f, again>>)
  BY DEF EndWithSave
<1>2. Running(rooms[r]) /\ Unused(rows) # {}
  BY DEF EndWithSave, SpaceLeft
<1>3. lost' = (lost \/ f # "none" \/ again # "none") /\ lost \in BOOLEAN
  BY <1>1, TwoFailures DEF WorldFits
<1>4. Here(m) = World(rows, users, m)
  BY DEF Here
<1>5. last \in RoomRecord /\ last.stage = "game" /\ last.db = rooms[r].db /\ last.logged = rooms[r].logged
      /\ last.async = rooms[r].async
      /\ last.resultSaved = rooms[r].resultSaved /\ (Exact(lost) => last.moves = last.game.turns)
  BY <1>2, RunningAtWork, TurnFits
<1> HIDE DEF last
<1>6. AtWork(rows, rooms, r, m, lost)
  <2>1. m \in RoomRecord /\ m.stage = "game" /\ m.db = rooms[r].db /\ m.logged = rooms[r].logged
        /\ m.async = rooms[r].async
        /\ m.resultSaved = rooms[r].resultSaved /\ ~rooms[r].resultSaved /\ (Exact(lost) => m.moves = m.game.turns)
    BY <1>2, <1>5, EndedFits, RunningAtWork
  <2> HIDE DEF m
  <2> QED
    BY <1>2, <2>1, RunningAtWork, GameChanged
<1>7. HasSpace(rows, m)
  BY <1>2 DEF HasSpace
<1> HIDE DEF m
<1> DEFINE x == SaveToDb(World(rows, users, m), r, t, f)
           k == lost \/ f # "none"
           y == PersistAsync(World(x.rows, x.users, x.room), r, t, again)
<1>8. SavedWorld(x, rooms, r, m, f, k)
  BY <1>6, <1>7, SaveKeeps
<1>9. RatesSaved(rows, users, x, m, t)
  BY <1>6, <1>7, SaveRates
<1>10. x = World(x.rows, x.users, x.room)
  BY SaveToDbIsWorld
<1> HIDE DEF x
<1>11. AtWork(x.rows, rooms, r, x.room, k) /\ (x.room.async => HasSpace(x.rows, x.room)) /\ (~k => Stored(x.rows, x.room))
  BY <1>8 DEF SavedWorld
<1>12. AtWork(y.rows, rooms, r, y.room, k \/ again # "none") /\ Durable(y.rows, y.room, k \/ again # "none")
  <2> HIDE DEF k
  <2> QED
    BY <1>11, PersistKeeps
<1>13. RatesSaved(x.rows, x.users, y, x.room, t)
  BY <1>11, PersistRates
<1>14. Written(r, y)
  BY <1>1, <1>4, <1>10 DEF x
<1>15. lost' = (k \/ again # "none")
  BY <1>3
<1> HIDE DEF y, k
<1>16. KeepsRatings(rows, users, y.rows, y.users, t)
  BY <1>9, <1>13, KeepsMore DEF RatesSaved
<1> QED
  BY <1>12, <1>14, <1>15, <1>16, HandlerEnds

LEMMA EndWithStateKeeps ==
  ASSUME RecordsAssumption, WorldFits(rows, rooms, lost), NEW r \in Rooms, NEW result \in Results, NEW t \in Nat,
         EndWithState(r, result, t)
  PROVE  WorldFits(rows', rooms', lost') /\ KeepsRatings(rows, users, rows', users', t)
<1> DEFINE m == Ended(rooms[r], result)
           sent(f) == PersistAsync(Here(m), r, t, f)
<1>1. PICK f \in Failures :
        /\ Written(r, World(sent(f).rows, sent(f).users, IF rooms[r].seen THEN sent(f).room ELSE NoRoom))
        /\ Failed(<<f>>)
  BY DEF EndWithState
<1>2. Running(rooms[r]) /\ Unused(rows) # {} /\ rooms[r].async
  BY DEF EndWithState, SpaceLeft
<1> DEFINE k == lost \/ f # "none"
           x == PersistAsync(World(rows, users, m), r, t, f)
<1>3. lost' = k
  BY <1>1, OneFailure DEF WorldFits
<1>4. Here(m) = World(rows, users, m)
  BY DEF Here
<1>5. m \in RoomRecord /\ m.stage = "game" /\ m.db = rooms[r].db /\ m.logged = rooms[r].logged /\ m.sig = rooms[r].sig
      /\ m.async = rooms[r].async
      /\ m.resultSaved = rooms[r].resultSaved /\ ~rooms[r].resultSaved /\ (Exact(lost) => m.moves = m.game.turns) /\ m.game.over
  <2>1. rooms[r] \in RoomRecord /\ rooms[r].stage = "game" /\ ~rooms[r].resultSaved
        /\ (Exact(lost) => rooms[r].moves = rooms[r].game.turns)
    BY <1>2, RunningAtWork
  <2>2. m \in RoomRecord /\ m.stage = rooms[r].stage /\ m.async = rooms[r].async /\ m.db = rooms[r].db
        /\ m.logged = rooms[r].logged /\ m.resultSaved = rooms[r].resultSaved /\ m.sig = rooms[r].sig
        /\ m.moves = rooms[r].moves /\ m.game.turns = rooms[r].game.turns /\ m.game.over
    BY <2>1, EndedFits
  <2> HIDE DEF m
  <2> QED
    BY <2>1, <2>2
<1>6. m.sig # Signature(m)
  <2>1. rooms[r].sig = Signature(rooms[r]) /\ ~rooms[r].game.over
    BY <1>2, RunningAtWork DEF Durable
  <2> HIDE DEF m
  <2>2. Signature(rooms[r])[2] = rooms[r].game.over /\ Signature(m)[2] = m.game.over
    BY DEF Signature
  <2>3. rooms[r].game.over # m.game.over
    BY <1>5, <2>1
  <2> QED
    BY <1>5, <2>1, <2>2, <2>3
<1> HIDE DEF m
<1>7. AtWork(rows, rooms, r, m, lost)
  BY <1>2, <1>5, RunningAtWork, GameChanged
<1>8. HasSpace(rows, m)
  BY <1>2 DEF HasSpace
<1>9. AtWork(x.rows, rooms, r, x.room, k) /\ Durable(x.rows, x.room, k)
  BY <1>6, <1>7, <1>8, PersistKeeps
<1>10. RatesSaved(rows, users, x, m, t)
  BY <1>7, <1>8, PersistRates
<1> HIDE DEF x, k
<1>11. rows' = x.rows /\ users' = x.users /\ rooms' = [rooms EXCEPT ![r] = IF rooms[r].seen THEN x.room ELSE NoRoom]
  BY <1>1, <1>4 DEF Written, World, x
<1>12. KeepsRatings(rows, users, rows', users', t)
  BY <1>11, <1>10 DEF RatesSaved
<1>13. CASE rooms[r].seen
  BY <1>3, <1>9, <1>11, <1>13, <1>12, PutDown
<1>14. CASE ~rooms[r].seen
  BY <1>3, <1>9, <1>11, <1>14, <1>12, AtWorkClosed
<1> QED
  BY <1>13, <1>14

(* What a save of a running game leaves. *)
LEMMA RunningSaved ==
  ASSUME RecordsAssumption, WorldFits(rows, rooms, lost), now \in Nat, NEW r \in Rooms, Running(rooms[r]), SpaceLeft, NEW f
  PROVE  LET x == SaveToDb(Here(rooms[r]), r, now, f)
             k == lost \/ f # "none"
         IN /\ AtWork(x.rows, rooms, r, x.room, k) /\ Durable(x.rows, x.room, k)
            /\ RatesSaved(rows, users, x, rooms[r], now) /\ SameResults(rows, x.rows)
            /\ f = "none" => x.room.db # None
            /\ x.room.db # None => x.room.db \in Ids /\ x.rows[x.room.db].room = r /\ ~x.rows[x.room.db].state.over
                                   /\ x.rows[x.room.db].status \in {"active", "abandoned"}
<1> DEFINE m == rooms[r]
           x == SaveToDb(World(rows, users, m), r, now, f)
           k == lost \/ f # "none"
<1>1. AtWork(rows, rooms, r, m, lost) /\ Durable(rows, m, lost) /\ HasSpace(rows, m) /\ ~m.game.over
  BY RunningAtWork DEF SpaceLeft, HasSpace
<1>2. SavedWorld(x, rooms, r, m, f, k)
  BY <1>1, SaveKeeps
<1>3. RatesSaved(rows, users, x, m, now)
  BY <1>1, SaveRates
<1>4. SameResults(rows, x.rows)
  BY <1>1, <1>3 DEF RatesSaved
<1>5. SaveToDb(Here(rooms[r]), r, now, f) = x
  BY DEF Here
<1> HIDE DEF m, x, k
<1>6. AtWork(x.rows, rooms, r, x.room, k) /\ SameGame(x.room, m) /\ (f # "row" => Stored(x.rows, x.room))
  BY <1>2 DEF SavedWorld
<1>7. Durable(x.rows, x.room, k)
  <2>1. m.async => x.room.sig = Signature(x.room)
    BY <1>1, <1>6 DEF Durable, SameGame, Signature
  <2> QED
    BY <1>6, <2>1 DEF Durable, SameGame, k
<1>8. f = "none" => x.room.db # None
  BY <1>6 DEF Stored
<1>9. x.room.db # None => x.room.db \in Ids /\ x.rows[x.room.db].room = r /\ ~x.rows[x.room.db].state.over
                          /\ x.rows[x.room.db].status \in {"active", "abandoned"}
  <2>1. GameFits(x.rows, x.room, r, k) /\ RowsFit(x.rows, k) /\ ~x.room.game.over /\ x.room \in RoomRecord
    BY <1>1, <1>6 DEF AtWork, RowsInv, SameGame
  <2>2. x.room.db # None => x.room.db \in Ids /\ x.rows[x.room.db].room = r
    BY <2>1 DEF GameFits, RoomRecord
  <2>3. Unrecorded(x.rows, r)
    BY <2>1 DEF GameFits
  <2>4. r # None
    BY RecordsAssumption
  <2> QED
    BY <2>1, <2>2, <2>3, <2>4 DEF GameFits, Unrecorded
<1> QED
  BY <1>1, <1>5, <1>6, <1>7, <1>8, <1>9, <1>3, <1>4 DEF k, m

LEMMA ManualSaveKeeps ==
  ASSUME RecordsAssumption, WorldFits(rows, rooms, lost), now \in Nat, NEW r \in Rooms, ManualSave(r)
  PROVE  WorldFits(rows', rooms', lost') /\ KeepsRatings(rows, users, rows', users', now)
<1> DEFINE x(f) == SaveToDb(Here(rooms[r]), r, now, f)
<1>1. PICK f \in Failures : /\ Written(r, World(x(f).rows, x(f).users, [x(f).room EXCEPT !.manual = @ \/ f = "none"]))
                            /\ Failed(<<f>>)
  BY DEF ManualSave
<1> DEFINE m == [x(f).room EXCEPT !.manual = x(f).room.manual \/ f = "none"]
           k == lost \/ f # "none"
<1>2. Running(rooms[r]) /\ SpaceLeft
  BY DEF ManualSave
<1>3. AtWork(x(f).rows, rooms, r, x(f).room, k) /\ Durable(x(f).rows, x(f).room, k)
  BY <1>2, RunningSaved
<1>4. RatesSaved(rows, users, x(f), rooms[r], now)
  BY <1>2, RunningSaved
<1>5. lost' = k
  BY <1>1, OneFailure DEF WorldFits
<1>6. rows' = x(f).rows /\ users' = x(f).users /\ rooms' = [rooms EXCEPT ![r] = m]
  BY <1>1 DEF Written, World
<1> HIDE DEF x, k
<1>7. x(f).room \in RoomRecord /\ x(f).room.stage = "game" /\ GameFits(x(f).rows, x(f).room, r, k)
  BY <1>3 DEF AtWork
<1>8. m \in RoomRecord /\ m.stage = "game" /\ m.db = x(f).room.db /\ m.logged = x(f).room.logged
      /\ m.resultSaved = x(f).room.resultSaved /\ m.game = x(f).room.game /\ m.moves = x(f).room.moves
      /\ m.async = x(f).room.async /\ m.sig = x(f).room.sig
  BY <1>7 DEF RoomRecord
<1> HIDE DEF m
<1>9. AtWork(x(f).rows, rooms, r, m, k)
  BY <1>3, <1>7, <1>8, GameChanged DEF GameFits
<1>10. Durable(x(f).rows, m, k)
  BY <1>3, <1>8 DEF Durable, Signature, Stored
<1> QED
  BY <1>5, <1>6, <1>9, <1>10, <1>4, PutDown DEF RatesSaved
(* One row gets another status, for a reason. *)
LEMMA OneRestatused ==
  ASSUME RecordsAssumption, NEW rs, NEW ms, NEW l, WorldFits(rs, ms, l), NEW g \in Ids, rs[g].status \notin NotPlayed,
         NEW s \in {"active", "finished", "abandoned", "voided"}, rs[g].state.over => s \in {"finished", "voided"},
         \A r \in Rooms : ms[r].stage = "game" /\ ms[r].db = g => ms[r].resultSaved,
         NEW rs2, rs2 = [rs EXCEPT ![g].status = s]
  PROVE  /\ WorldFits(rs2, ms, l) /\ rs2 \in [Ids -> RowRecord] /\ \A h \in Ids : rs2[h].at = rs[h].at
         /\ rs[g].status # "finished" /\ s # "finished" => SameResults(rs, rs2)
<1>1. rs \in [Ids -> RowRecord]
  BY DEF WorldFits, RowsInv
<1>2. rs2 \in [Ids -> RowRecord] /\ (\A h \in Ids : h # g => rs2[h] = rs[h])
      /\ rs2[g].status = s /\ rs2[g].room = rs[g].room /\ rs2[g].state = rs[g].state
      /\ rs2[g].log = rs[g].log /\ rs2[g].async = rs[g].async /\ rs2[g].at = rs[g].at
  <2> DEFINE n == [rs[g] EXCEPT !.status = s]
  <2>1. rs2 = [rs EXCEPT ![g] = n]
    BY <1>1
  <2>2. n \in RowRecord /\ n.status = s /\ n.room = rs[g].room /\ n.state = rs[g].state /\ n.log = rs[g].log
        /\ n.async = rs[g].async /\ n.at = rs[g].at
    BY <1>1 DEF RowRecord
  <2> HIDE DEF n
  <2> QED
    BY <1>1, <2>1, <2>2
<1>3. Restatused(rs, rs2, {g})
  BY <1>2 DEF Restatused, NotPlayed
<1>4. WorldFits(rs2, ms, l)
  BY <1>3, StatusesChanged
<1>5. rs[g].status # "finished" /\ s # "finished" => SameResults(rs, rs2)
  BY <1>2 DEF SameResults, SameResult
<1>6. \A h \in Ids : rs2[h].at = rs[h].at
  BY <1>2
<1> QED
  BY <1>2, <1>4, <1>5, <1>6

LEMMA AbandonedFits ==
  ASSUME RecordsAssumption, NEW ms, NEW l, WorldFits(rows, ms, l), NEW gs \in SUBSET Ids,
         \A g \in gs : rows[g].status = "active" => ms[rows[g].room].stage # "game" \/ (Reopen /\ ~rows[g].async)
  PROVE  /\ WorldFits(Abandoned(gs), ms, l) /\ Abandoned(gs) \in [Ids -> RowRecord]
         /\ SameResults(rows, Abandoned(gs))
<1> DEFINE left == {g \in gs : rows[g].status = "active"}
<1>1. rows \in [Ids -> RowRecord] /\ RowsFit(rows, l)
  BY DEF WorldFits, RowsInv
<1>2. \A g \in Ids : Abandoned(gs)[g] = IF g \in left THEN [rows[g] EXCEPT !.status = "abandoned"] ELSE rows[g]
  BY DEF Abandoned
<1>3. ASSUME NEW row \in RowRecord
      PROVE  LET n == [row EXCEPT !.status = "abandoned"]
             IN n \in RowRecord /\ n.status = "abandoned" /\ n.room = row.room /\ n.state = row.state
                /\ n.log = row.log /\ n.async = row.async /\ n.at = row.at
  BY DEF RowRecord
<1>4. Abandoned(gs) \in [Ids -> RowRecord]
  <2>1. Abandoned(gs) = [g \in Ids |-> Abandoned(gs)[g]]
    BY DEF Abandoned
  <2> QED
    BY <1>1, <1>2, <1>3, <2>1
<1>5. Restatused(rows, Abandoned(gs), left)
  <2>1. \A g \in Ids : rows[g].status = "active" => ~rows[g].state.over
    BY <1>1 DEF RowsFit
  <2>2. ASSUME NEW g \in left
        PROVE  LET n == Abandoned(gs)[g]
               IN n.status = "abandoned" /\ n.room = rows[g].room /\ n.state = rows[g].state
                  /\ n.log = rows[g].log /\ n.async = rows[g].async
    <3>1. Abandoned(gs)[g] = [rows[g] EXCEPT !.status = "abandoned"] /\ rows[g] \in RowRecord
      BY <1>1, <1>2
    <3> QED
      BY <1>3, <3>1
  <2>3. \A g \in Ids : g \notin left => Abandoned(gs)[g] = rows[g]
    BY <1>2
  <2>4. \A g \in left : g \in Ids /\ rows[g].status = "active"
    OBVIOUS
  <2> HIDE DEF left
  <2> QED
    BY <1>4, <2>1, <2>2, <2>3, <2>4 DEF Restatused, NotPlayed
<1>6. \A r \in Rooms : ms[r].stage = "game" /\ ms[r].db \in left =>
        ms[r].resultSaved \/ (Reopen /\ ~ms[r].async /\ Abandoned(gs)[ms[r].db].status = "abandoned")
  <2> SUFFICES ASSUME NEW r \in Rooms, ms[r].stage = "game", ms[r].db \in left
               PROVE  Reopen /\ ~ms[r].async /\ Abandoned(gs)[ms[r].db].status = "abandoned"
    OBVIOUS
  <2>1. rows[ms[r].db].room = r /\ GameFits(rows, ms[r], r, l) /\ ms[r].db \in Ids
    BY LiveRow, RecordsAssumption
  <2>2. Reopen /\ ~rows[ms[r].db].async
    BY <2>1
  <2>3. ~rows[ms[r].db].state.over
    BY <1>1, <2>1 DEF RowsFit
  <2>4. Abandoned(gs)[ms[r].db].status = "abandoned"
    BY <1>1, <1>2, <2>1 DEF RowRecord
  <2> QED
    BY <2>1, <2>2, <2>3, <2>4 DEF GameFits
<1>7. SameResults(rows, Abandoned(gs))
  <2>1. \A g \in left : Abandoned(gs)[g].status = "abandoned" /\ Abandoned(gs)[g].at = rows[g].at /\ rows[g].status = "active"
    <3> SUFFICES ASSUME NEW g \in left
                 PROVE  Abandoned(gs)[g].status = "abandoned" /\ Abandoned(gs)[g].at = rows[g].at /\ rows[g].status = "active"
      OBVIOUS
    <3>1. Abandoned(gs)[g] = [rows[g] EXCEPT !.status = "abandoned"] /\ rows[g] \in RowRecord /\ rows[g].status = "active"
      BY <1>1, <1>2
    <3> QED
      BY <1>3, <3>1
  <2>2. \A g \in Ids : g \notin left => Abandoned(gs)[g] = rows[g]
    BY <1>2
  <2> HIDE DEF left
  <2> QED
    BY <2>1, <2>2 DEF SameResults, SameResult
<1> HIDE DEF left
<1>8. left \in SUBSET Ids
  BY DEF left
<1> QED
  BY <1>4, <1>5, <1>6, <1>8, <1>7, StatusesChanged

LEMMA ArchiveKept ==
  ASSUME RecordsAssumption, now \in Nat, users' = users, rows' \in [Ids -> RowRecord], SameResults(rows, rows')
  PROVE  KeepsRatings(rows, users, rows', users', now)
BY SameRecomputed

LEMMA ClosedIs ==
  ASSUME NEW r \in Rooms, rooms \in [Rooms -> RoomRecord]
  PROVE  LET closed == [rooms EXCEPT ![r] = NoRoom]
         IN closed[r] = NoRoom /\ \A q \in Rooms : q # r => closed[q] = rooms[q]
OBVIOUS

LEMMA RoomGoesKeeps ==
  ASSUME RecordsAssumption, WorldFits(rows, rooms, lost), now \in Nat, NEW r \in Rooms, RoomGoes(r)
  PROVE  WorldFits(rows', rooms', lost') /\ KeepsRatings(rows, users, rows', users', now)
<1> DEFINE gs == IF rooms[r].db # None THEN {rooms[r].db} ELSE ActiveRows(rows, r)
           closed == [rooms EXCEPT ![r] = NoRoom]
<1>1. rooms' = closed /\ lost' = lost /\ users' = users
      /\ rows' = (IF Running(rooms[r]) /\ ~rooms[r].manual THEN Abandoned(gs) ELSE rows)
  BY DEF RoomGoes, Closed
<1>2. WorldFits(rows, closed, lost)
  BY FitsClosed
<1>3. gs \in SUBSET Ids /\ \A g \in gs : rows[g].room = r
  BY LiveRow DEF ActiveRows
<1>4. closed[r].stage # "game"
  BY ClosedIs, NoRoomFits DEF WorldFits
<1> HIDE DEF gs, closed
<1>5. WorldFits(Abandoned(gs), closed, lost) /\ Abandoned(gs) \in [Ids -> RowRecord] /\ SameResults(rows, Abandoned(gs))
  BY <1>2, <1>3, <1>4, AbandonedFits
<1>6. rows' \in [Ids -> RowRecord] /\ SameResults(rows, rows')
  BY <1>1, <1>5 DEF WorldFits, RowsInv, SameResults, SameResult
<1> QED
  BY <1>1, <1>2, <1>5, <1>6, ArchiveKept

LEMMA OwnerLostKeeps ==
  ASSUME RecordsAssumption, WorldFits(rows, rooms, lost), now \in Nat, NEW r \in Rooms, OwnerLost(r)
  PROVE  WorldFits(rows', rooms', lost') /\ KeepsRatings(rows, users, rows', users', now)
<1> DEFINE x(f) == SaveToDb(Here(rooms[r]), r, now, f)
           g(f) == x(f).room.db
           closed == [rooms EXCEPT ![r] = NoRoom]
<1>1. PICK f \in Failures :
        /\ rows' = (IF (f = "none" \/ rooms[r].manual) \/ g(f) = None
                    THEN x(f).rows ELSE [x(f).rows EXCEPT ![g(f)].status = "abandoned"])
        /\ Failed(<<f>>)
  BY DEF OwnerLost
<1> DEFINE k == lost \/ f # "none"
<1>2. lost' = k /\ rooms' = closed /\ users' = users
  BY <1>1, OneFailure DEF WorldFits, OwnerLost, Closed
<1>3. Running(rooms[r]) /\ SpaceLeft
  BY DEF OwnerLost
<1>4. AtWork(x(f).rows, rooms, r, x(f).room, k)
      /\ SameResults(rows, x(f).rows)
      /\ (g(f) # None => g(f) \in Ids /\ x(f).rows[g(f)].room = r /\ ~x(f).rows[g(f)].state.over
                          /\ x(f).rows[g(f)].status \in {"active", "abandoned"})
  BY <1>3, RunningSaved
<1> HIDE DEF x, k
<1>5. WorldFits(x(f).rows, closed, k)
  BY <1>4, AtWorkClosed
<1>6. closed[r] = NoRoom
  BY ClosedIs DEF WorldFits
<1> HIDE DEF closed, g
<1>7. g(f) # None => /\ WorldFits([x(f).rows EXCEPT ![g(f)].status = "abandoned"], closed, k)
                     /\ [x(f).rows EXCEPT ![g(f)].status = "abandoned"] \in [Ids -> RowRecord]
                     /\ SameResults(x(f).rows, [x(f).rows EXCEPT ![g(f)].status = "abandoned"])
  <2> SUFFICES ASSUME g(f) # None
               PROVE  /\ WorldFits([x(f).rows EXCEPT ![g(f)].status = "abandoned"], closed, k)
                      /\ [x(f).rows EXCEPT ![g(f)].status = "abandoned"] \in [Ids -> RowRecord]
                      /\ SameResults(x(f).rows, [x(f).rows EXCEPT ![g(f)].status = "abandoned"])
    OBVIOUS
  <2>1. g(f) \in Ids /\ x(f).rows[g(f)].room = r
    BY <1>4
  <2>2. ~x(f).rows[g(f)].state.over /\ x(f).rows[g(f)].status \notin NotPlayed /\ x(f).rows[g(f)].status # "finished"
    BY <1>4 DEF NotPlayed
  <2>3. \A q \in Rooms : closed[q].db # g(f)
    <3> SUFFICES ASSUME NEW q \in Rooms, closed[q].db = g(f)
                 PROVE  FALSE
      OBVIOUS
    <3>1. closed[q].stage = "game" /\ q = r
      BY <1>5, <2>1, LiveRow
    <3> QED
      BY <1>6, <3>1, NoRoomFits
  <2>4. WorldFits([x(f).rows EXCEPT ![g(f)].status = "abandoned"], closed, k)
    BY <1>5, <2>1, <2>2, <2>3, OneRestatused
  <2>5. [x(f).rows EXCEPT ![g(f)].status = "abandoned"] \in [Ids -> RowRecord]
    BY <2>4 DEF WorldFits, RowsInv
  <2>6. SameResults(x(f).rows, [x(f).rows EXCEPT ![g(f)].status = "abandoned"])
    BY <1>5, <2>1, <2>2, <2>3, OneRestatused
  <2> QED
    BY <2>4, <2>5, <2>6
<1>8. x(f).rows \in [Ids -> RowRecord]
  BY <1>4 DEF AtWork, RowsInv
<1>9. WorldFits(rows', closed, k) /\ rows' \in [Ids -> RowRecord] /\ SameResults(x(f).rows, rows')
  <2>1. CASE rows' = x(f).rows
    BY <1>5, <1>8, <2>1 DEF SameResults, SameResult
  <2>2. CASE g(f) # None /\ rows' = [x(f).rows EXCEPT ![g(f)].status = "abandoned"]
    BY <1>7, <2>2
  <2> QED
    BY <1>1, <2>1, <2>2
<1>10. SameResults(rows, rows')
  BY <1>4, <1>9 DEF SameResults, SameResult
<1> QED
  BY <1>2, <1>9, <1>10, ArchiveKept

LEMMA VoidRoomKeeps ==
  ASSUME RecordsAssumption, WorldFits(rows, rooms, lost), now \in Nat, NEW r \in Rooms, VoidRoom(r)
  PROVE  WorldFits(rows', rooms', lost') /\ KeepsRatings(rows, users, rows', users', now)
<1> DEFINE x == SaveToDb(Here(rooms[r]), r, now, "none")
           g == x.room.db
           closed == [rooms EXCEPT ![r] = NoRoom]
<1>1. rows' = [x.rows EXCEPT ![g].status = "voided"] /\ rooms' = closed /\ lost' = lost
      /\ users' = users
  BY DEF VoidRoom, Closed
<1>2. Running(rooms[r]) /\ SpaceLeft
  BY DEF VoidRoom
<1>3. lost = (lost \/ "none" # "none")
  BY DEF WorldFits
<1>4. AtWork(x.rows, rooms, r, x.room, lost) /\ g \in Ids /\ x.rows[g].room = r
      /\ x.rows[g].status \in {"active", "abandoned"} /\ SameResults(rows, x.rows)
  <2>1. AtWork(x.rows, rooms, r, x.room, lost \/ "none" # "none") /\ g # None
        /\ SameResults(rows, x.rows)
        /\ (g # None => g \in Ids /\ x.rows[g].room = r /\ x.rows[g].status \in {"active", "abandoned"})
    BY <1>2, RunningSaved
  <2> HIDE DEF x
  <2> QED
    BY <1>3, <2>1
<1> HIDE DEF x
<1>5. WorldFits(x.rows, closed, lost)
  BY <1>4, AtWorkClosed
<1>6. closed[r] = NoRoom
  BY ClosedIs DEF WorldFits
<1> HIDE DEF closed, g
<1>7. \A q \in Rooms : closed[q].db # g
  <2> SUFFICES ASSUME NEW q \in Rooms, closed[q].db = g
               PROVE  FALSE
    OBVIOUS
  <2>1. g # None
    BY <1>4, RecordsAssumption
  <2>2. closed[q].stage = "game" /\ q = r
    BY <1>4, <1>5, <2>1, LiveRow
  <2> QED
    BY <1>6, <2>2, NoRoomFits
<1>8. /\ WorldFits([x.rows EXCEPT ![g].status = "voided"], closed, lost)
      /\ [x.rows EXCEPT ![g].status = "voided"] \in [Ids -> RowRecord]
      /\ SameResults(x.rows, [x.rows EXCEPT ![g].status = "voided"])
  <2>1. x.rows[g].status \notin NotPlayed /\ x.rows[g].status # "finished"
    BY <1>4 DEF NotPlayed
  <2>2. WorldFits([x.rows EXCEPT ![g].status = "voided"], closed, lost)
    BY <1>4, <1>5, <1>7, <2>1, OneRestatused
  <2>3. [x.rows EXCEPT ![g].status = "voided"] \in [Ids -> RowRecord]
    BY <2>2 DEF WorldFits, RowsInv
  <2>4. SameResults(x.rows, [x.rows EXCEPT ![g].status = "voided"])
    BY <1>4, <1>5, <1>7, <2>1, OneRestatused
  <2> QED
    BY <2>2, <2>3, <2>4
<1>9. SameResults(rows, rows')
  BY <1>1, <1>4, <1>8 DEF SameResults, SameResult
<1> QED
  BY <1>1, <1>8, <1>9, ArchiveKept

LEMMA AbandonGameKeeps ==
  ASSUME RecordsAssumption, WorldFits(rows, rooms, lost), now \in Nat, NEW g \in Ids, AbandonGame(g)
  PROVE  WorldFits(rows', rooms', lost') /\ KeepsRatings(rows, users, rows', users', now)
<1> DEFINE r == rows[g].room
           closed == [rooms EXCEPT ![r] = NoRoom]
<1>1. rooms' = closed /\ rows' = Abandoned({g}) /\ lost' = lost /\ users' = users /\ rows[g].status = "active"
  BY DEF AbandonGame
<1>2. r \in Rooms
  BY <1>1, ActiveRow DEF WorldFits, NotPlayed
<1>3. WorldFits(rows, closed, lost)
  BY <1>2, FitsClosed
<1>4. closed[r].stage # "game"
  BY <1>2, ClosedIs, NoRoomFits DEF WorldFits
<1> HIDE DEF closed
<1>5. WorldFits(Abandoned({g}), closed, lost) /\ Abandoned({g}) \in [Ids -> RowRecord] /\ SameResults(rows, Abandoned({g}))
  BY <1>3, <1>4, AbandonedFits
<1> QED
  BY <1>1, <1>5, ArchiveKept

LEMMA AsyncVoidKeeps ==
  ASSUME RecordsAssumption, WorldFits(rows, rooms, lost), now \in Nat, NEW g \in Ids, AsyncVoid(g)
  PROVE  WorldFits(rows', rooms', lost') /\ KeepsRatings(rows, users, rows', users', now)
<1> DEFINE r == rows[g].room
           closed == [rooms EXCEPT ![r] = NoRoom]
<1>1. rooms' = closed /\ rows' = [rows EXCEPT ![g].status = "voided"] /\ lost' = lost /\ users' = users
      /\ rows[g].status = "active"
  BY DEF AsyncVoid, ActiveAsync
<1>2. r \in Rooms /\ rows[g].status \notin NotPlayed
  BY <1>1, ActiveRow DEF WorldFits, NotPlayed
<1>3. WorldFits(rows, closed, lost)
  BY <1>2, FitsClosed
<1>4. closed[r] = NoRoom
  BY <1>2, ClosedIs DEF WorldFits
<1> HIDE DEF closed
<1>5. \A q \in Rooms : closed[q].db # g
  <2> SUFFICES ASSUME NEW q \in Rooms, closed[q].db = g
               PROVE  FALSE
    OBVIOUS
  <2>1. g # None
    BY RecordsAssumption
  <2>2. closed[q].stage = "game" /\ q = r
    BY <1>3, <2>1, LiveRow
  <2> QED
    BY <1>4, <2>2, NoRoomFits
<1>6. /\ WorldFits([rows EXCEPT ![g].status = "voided"], closed, lost)
      /\ [rows EXCEPT ![g].status = "voided"] \in [Ids -> RowRecord]
      /\ SameResults(rows, [rows EXCEPT ![g].status = "voided"])
  <2>1. WorldFits([rows EXCEPT ![g].status = "voided"], closed, lost)
    BY <1>2, <1>3, <1>5, OneRestatused
  <2>2. [rows EXCEPT ![g].status = "voided"] \in [Ids -> RowRecord]
    BY <2>1 DEF WorldFits, RowsInv
  <2>3. SameResults(rows, [rows EXCEPT ![g].status = "voided"])
    <3>1. WorldFits(rows, closed, lost) /\ rows[g].status \notin NotPlayed /\ rows[g].status # "finished"
      BY <1>1, <1>2, <1>3
    <3> QED
      BY <1>2, <1>5, <3>1, OneRestatused
  <2> QED
    BY <2>1, <2>2, <2>3
<1> QED
  BY <1>1, <1>6, ArchiveKept
LEMMA RestoreGameKeeps ==
  ASSUME RecordsAssumption, WorldFits(rows, rooms, lost), now \in Nat, NEW r \in Rooms, NEW g \in Ids, RestoreGame(r, g)
  PROVE  WorldFits(rows', rooms', lost') /\ KeepsRatings(rows, users, rows', users', now)
<1> DEFINE m == [NoRoom EXCEPT !.stage = "lobby", !.bots = rows[g].bots, !.save = [id |-> g, state |-> rows[g].state]]
           new == [rooms EXCEPT ![r] = m]
<1>1. rooms' = new /\ rows' = rows /\ lost' = lost /\ rows[g].status = "active" /\ ~rows[g].async
      /\ (Reopen \/ rooms[rows[g].room].stage = "none") /\ \A h \in Ids : rows[h].room # r
  BY DEF RestoreGame, RoomUnused
<1>2. RowsInv(rows, lost) /\ rooms \in [Rooms -> RoomRecord] /\ lost \in BOOLEAN /\ rows \in [Ids -> RowRecord]
  BY DEF WorldFits, RowsInv
<1>3. rows[g].room \in Rooms /\ rows[g] \in RowRecord /\ ~rows[g].state.over
  BY <1>1, <1>2, ActiveRow DEF NotPlayed
<1>4. [id |-> g, state |-> rows[g].state] \in SaveRecord /\ rows[g].bots \in BOOLEAN
  BY <1>3 DEF SaveRecord, RowRecord
<1>5. m \in RoomRecord
  BY <1>4, NoRoomFits DEF RoomRecord
<1>6. m.stage = "lobby" /\ ~m.async /\ m.db = None /\ m.save = [id |-> g, state |-> rows[g].state]
  BY DEF NoRoom
<1> HIDE DEF m
<1>7. new \in [Rooms -> RoomRecord] /\ new[r] = m /\ \A q \in Rooms : q # r => new[q] = rooms[q]
  BY <1>2, <1>5
<1> HIDE DEF new
<1>8. LobbyFits(rows, new, m, r, lost)
  <2>1. m.save.id = g /\ m.save.state = rows[g].state /\ m.save # None
    BY <1>4, <1>6, RecordsAssumption
  <2>2. Reopen \/ new[rows[g].room].stage = "none"
    BY <1>1, <1>3, <1>7
  <2> QED
    BY <1>1, <1>3, <1>6, <2>1, <2>2 DEF LobbyFits
<1>9. Free(rows, rooms, r)
  <2> SUFFICES ASSUME NEW q \in Rooms, rooms[q].stage = "lobby"
               PROVE  rows[rooms[q].save.id].room # r
    BY DEF Free
  <2>1. LobbyFits(rows, rooms, rooms[q], q, lost) /\ rooms[q] \in RoomRecord
    BY <1>2 DEF WorldFits, RoomFits
  <2>2. rooms[q].save.id \in Ids
    BY <2>1 DEF LobbyFits, RoomRecord, SaveRecord
  <2> QED
    BY <1>1, <2>2
<1>10. ASSUME NEW q \in Rooms
       PROVE  RoomFits(rows, new, new[q], q, lost)
  <2>1. CASE q = r
    BY <1>6, <1>7, <1>8, <2>1 DEF RoomFits
  <2>2. CASE q # r
    <3>1. RoomFits(rows, rooms, rooms[q], q, lost)
      BY DEF WorldFits
    <3>2. RoomFits(rows, [rooms EXCEPT ![r] = m], rooms[q], q, lost)
      BY <1>2, <1>5, <1>9, <2>2, <3>1, RoomChanged
    <3> QED
      BY <1>7, <2>2, <3>2 DEF new
  <2> QED
    BY <2>1, <2>2
<1>11. users' = users /\ rows' \in [Ids -> RowRecord] /\ SameResults(rows, rows')
  BY <1>1, <1>2 DEF RestoreGame, SameResults, SameResult
<1> QED
  BY <1>1, <1>2, <1>7, <1>10, <1>11, ArchiveKept DEF WorldFits

LEMMA RestoreStartKeeps ==
  ASSUME RecordsAssumption, WorldFits(rows, rooms, lost), now \in Nat, NEW r \in Rooms, RestoreStart(r)
  PROVE  WorldFits(rows', rooms', lost') /\ KeepsRatings(rows, users, rows', users', now)
<1> DEFINE g == rooms[r].save.id
           m == [NoRoom EXCEPT !.stage = "game", !.bots = rooms[r].bots, !.game = rooms[r].save.state, !.seen = TRUE,
                               !.moves = rows[g].log]
           left == Abandoned({g})
           x(f) == SaveToDb(World(left, users, m), r, now, f)
<1>1. PICK f \in Failures : Written(r, x(f)) /\ Failed(<<f>>)
  BY DEF RestoreStart
<1>2. rooms[r].stage = "lobby" /\ Unused(rows) # {}
  BY DEF RestoreStart, SpaceLeft
<1>3. LobbyFits(rows, rooms, rooms[r], r, lost) /\ rooms[r] \in RoomRecord /\ rows \in [Ids -> RowRecord]
      /\ RowsFit(rows, lost) /\ lost \in BOOLEAN /\ rooms \in [Rooms -> RoomRecord]
  BY <1>2 DEF WorldFits, RoomFits, RowsInv
<1>4. g \in Ids /\ rooms[r].save.state \in GameRecord /\ rooms[r].bots \in BOOLEAN
  BY <1>3 DEF LobbyFits, RoomRecord, SaveRecord
<1>5. rows[g] \in RowRecord /\ rows[g].log \in Int
  BY <1>3, <1>4 DEF RowRecord
<1>6. m \in RoomRecord /\ m.stage = "game" /\ m.db = None /\ ~m.resultSaved /\ m.logged = 0 /\ ~m.async
      /\ m.moves = rows[g].log /\ m.game = rooms[r].save.state
  <2>1. NoRoom.db = None /\ ~NoRoom.resultSaved /\ NoRoom.logged = 0 /\ ~NoRoom.async /\ NoRoom \in RoomRecord
    BY NoRoomFits DEF NoRoom
  <2> HIDE DEF g
  <2> QED
    BY <2>1, <1>4, <1>5 DEF RoomRecord
<1> HIDE DEF m
<1>7. Exact(lost) => m.moves = m.game.turns
  BY <1>3, <1>4, <1>6 DEF LobbyFits, RowsFit, NotPlayed
<1>8. WorldFits(left, rooms, lost) /\ left \in [Ids -> RowRecord] /\ SameResults(rows, left)
  <2>1. rows[g].status = "active" => rooms[rows[g].room].stage # "game" \/ (Reopen /\ ~rows[g].async)
    BY <1>3, <1>4 DEF LobbyFits, RowsFit, NotPlayed
  <2> QED
    BY <1>4, <2>1, AbandonedFits
<1>9. Unused(left) # {}
  <2>1. PICK h \in Unused(rows) : TRUE
    BY <1>2
  <2>2. h \in Ids /\ \A i \in h .. MaxRows : rows[i] = NoRow
    BY <2>1 DEF Unused
  <2>3. \A i \in h .. MaxRows : i \in Ids
    BY <2>2, RecordsAssumption DEF Ids
  <2>4. \A i \in h .. MaxRows : left[i] = NoRow
    BY <2>2, <2>3, NoRoomFits DEF Abandoned
  <2> QED
    BY <2>2, <2>4 DEF Unused
<1> HIDE DEF left, g
<1>10. AtWork(left, rooms, r, m, lost)
  <2>1. LobbyFits(left, rooms, rooms[r], r, lost)
    BY <1>2, <1>8 DEF WorldFits, RoomFits
  <2>2. \A h \in Ids : left[h].room # r
    BY <2>1 DEF LobbyFits
  <2>3. Free(left, rooms, r)
    <3> SUFFICES ASSUME NEW q \in Rooms, rooms[q].stage = "lobby"
                 PROVE  left[rooms[q].save.id].room # r
      BY DEF Free
    <3>1. LobbyFits(left, rooms, rooms[q], q, lost)
      BY <1>8 DEF WorldFits, RoomFits
    <3>2. rooms[q].save.id \in Ids
      BY <1>3, <3>1 DEF LobbyFits, RoomRecord, SaveRecord
    <3> QED
      BY <2>2, <3>2
  <2>4. RowsInv(left, lost) /\ OthersFit(left, rooms, r, lost)
    BY <1>8 DEF WorldFits, OthersFit
  <2> QED
    BY <1>3, <1>6, <1>7, <2>2, <2>3, <2>4, NewRoomAtWork
<1>11. SavedWorld(x(f), rooms, r, m, f, lost \/ f # "none")
  BY <1>9, <1>10, SaveKeeps DEF HasSpace
<1>12. RatesSaved(left, users, x(f), m, now)
  BY <1>9, <1>10, SaveRates DEF HasSpace
<1>13. lost' = (lost \/ f # "none")
  BY <1>1, <1>3, OneFailure
<1> HIDE DEF x
<1>14. AtWork(x(f).rows, rooms, r, x(f).room, lost \/ f # "none") /\ Durable(x(f).rows, x(f).room, lost \/ f # "none")
  BY <1>6, <1>11 DEF SavedWorld, SameGame, Durable
<1>15. KeepsRatings(rows, users, x(f).rows, x(f).users, now)
  <2>1. KeepsRatings(rows, users, left, users, now)
    BY <1>8, SameRecomputed
  <2> QED
    BY <1>12, <2>1, KeepsMore DEF RatesSaved
<1> QED
  BY <1>1, <1>13, <1>14, <1>15, HandlerEnds

LEMMA OpenAsyncKeeps ==
  ASSUME RecordsAssumption, WorldFits(rows, rooms, lost), now \in Nat, NEW g \in Ids, NEW looks \in BOOLEAN,
         OpenAsync(g, looks)
  PROVE  WorldFits(rows', rooms', lost') /\ KeepsRatings(rows, users, rows', users', now)
<1> DEFINE m == RoomFor(g)
           m2 == [m EXCEPT !.seen = m.seen \/ looks]
<1>1. ActiveAsync(g) /\ rooms' = [rooms EXCEPT ![rows[g].room] = m2] /\ rows' = rows /\ lost' = lost
  BY DEF OpenAsync
<1>2. rows[g].room \in Rooms /\ AtWork(rows, rooms, rows[g].room, m, lost) /\ Durable(rows, m, lost)
  BY <1>1, RoomForFits
<1> HIDE DEF m
<1>3. m \in RoomRecord /\ m.stage = "game" /\ (Exact(lost) => m.moves = m.game.turns)
  BY <1>2 DEF AtWork, GameFits
<1>4. m2 \in RoomRecord /\ m2.stage = "game" /\ m2.db = m.db /\ m2.logged = m.logged /\ m2.resultSaved = m.resultSaved
      /\ m2.game = m.game /\ m2.moves = m.moves /\ m2.async = m.async /\ m2.sig = m.sig
  BY <1>3 DEF RoomRecord
<1> HIDE DEF m2
<1>5. AtWork(rows, rooms, rows[g].room, m2, lost)
  BY <1>2, <1>3, <1>4, GameChanged
<1>6. Durable(rows, m2, lost)
  BY <1>2, <1>4 DEF Durable, Signature, Stored
<1>7. users' = users /\ rows' \in [Ids -> RowRecord] /\ SameResults(rows, rows')
  BY <1>1 DEF OpenAsync, WorldFits, RowsInv, SameResults, SameResult
<1> QED
  BY <1>1, <1>2, <1>5, <1>6, <1>7, PutDown, ArchiveKept

LEMMA CloseViewKeeps ==
  ASSUME RecordsAssumption, WorldFits(rows, rooms, lost), now \in Nat, NEW r \in Rooms, CloseView(r)
  PROVE  WorldFits(rows', rooms', lost') /\ KeepsRatings(rows, users, rows', users', now)
<1> DEFINE m == rooms[r]
           m2 == [m EXCEPT !.seen = FALSE]
<1>1. m.async /\ rooms' = [rooms EXCEPT ![r] = IF m.game.over THEN NoRoom ELSE m2] /\ rows' = rows /\ lost' = lost
  BY DEF CloseView, WorldFits
<1>2. users' = users /\ rows' \in [Ids -> RowRecord] /\ SameResults(rows, rows')
  BY <1>1 DEF CloseView, WorldFits, RowsInv, SameResults, SameResult
<1>3. KeepsRatings(rows, users, rows', users', now)
  BY <1>2, ArchiveKept
<1>4. CASE m.game.over
  BY <1>1, <1>4, <1>3, FitsClosed
<1>5. CASE ~m.game.over
  <2>1. m.stage = "game"
    BY <1>1, NoRoomFits DEF WorldFits, RoomFits, LobbyFits, RoomRecord
  <2>2. AtWork(rows, rooms, r, m, lost) /\ Durable(rows, m, lost)
    BY <2>1, TakenUp
  <2>3. rooms' = [rooms EXCEPT ![r] = m2]
    BY <1>1, <1>5
  <2> HIDE DEF m
  <2>4. m \in RoomRecord /\ m.stage = "game" /\ (Exact(lost) => m.moves = m.game.turns)
    BY <2>2 DEF AtWork, GameFits
  <2>5. m2 \in RoomRecord /\ m2.stage = "game" /\ m2.db = m.db /\ m2.logged = m.logged /\ m2.resultSaved = m.resultSaved
        /\ m2.game = m.game /\ m2.moves = m.moves /\ m2.async = m.async /\ m2.sig = m.sig
    BY <2>4 DEF RoomRecord
  <2> HIDE DEF m2
  <2>6. AtWork(rows, rooms, r, m2, lost)
    BY <2>2, <2>4, <2>5, GameChanged
  <2>7. Durable(rows, m2, lost)
    BY <2>2, <2>5 DEF Durable, Signature, Stored
  <2>8. WorldFits(rows, [rooms EXCEPT ![r] = m2], lost)
    BY <2>6, <2>7, PutDown
  <2>9. rows' = rows /\ lost' = lost
    BY <1>1
  <2> QED
    BY <1>3, <2>3, <2>8, <2>9
<1> QED
  BY <1>4, <1>5

LEMMA AsyncUnloadKeeps ==
  ASSUME RecordsAssumption, WorldFits(rows, rooms, lost), now \in Nat, NEW g \in Ids, AsyncUnload(g)
  PROVE  WorldFits(rows', rooms', lost') /\ KeepsRatings(rows, users, rows', users', now)
<1>1. PICK r \in Rooms : rooms' = [rooms EXCEPT ![r] = NoRoom]
  BY DEF AsyncUnload, Closed
<1>2. users' = users /\ rows' = rows /\ lost' = lost
  BY DEF AsyncUnload
<1>3. rows' \in [Ids -> RowRecord] /\ SameResults(rows, rows')
  BY <1>2 DEF WorldFits, RowsInv, SameResults, SameResult
<1> QED
  BY <1>1, <1>2, <1>3, FitsClosed, ArchiveKept

LEMMA AsyncExtendKeeps ==
  ASSUME RecordsAssumption, WorldFits(rows, rooms, lost), now \in Nat, NEW g \in Ids, AsyncExtend(g)
  PROVE  WorldFits(rows', rooms', lost') /\ KeepsRatings(rows, users, rows', users', now)
<1> DEFINE m == RoomFor(g)
           m2 == [m EXCEPT !.game.due = 1]
           r == rows[g].room
<1>1. PICK f \in Failures : Written(r, PersistAsync(Here(m2), r, now, f)) /\ Failed(<<f>>)
  BY DEF AsyncExtend
<1>2. ActiveAsync(g) /\ ~m.game.over
  BY DEF AsyncExtend
<1>3. r \in Rooms /\ AtWork(rows, rooms, r, m, lost) /\ Durable(rows, m, lost)
  BY <1>2, RoomForFits
<1>4. lost' = (lost \/ f # "none")
  BY <1>1, OneFailure DEF WorldFits
<1>5. Here(m2) = World(rows, users, m2)
  BY DEF Here
<1> HIDE DEF m, r
<1>6. m \in RoomRecord /\ m.stage = "game" /\ (Exact(lost) => m.moves = m.game.turns) /\ ~m.resultSaved
  BY <1>2, <1>3 DEF AtWork, GameFits
<1>7. m2 \in RoomRecord /\ m2.stage = "game" /\ m2.db = m.db /\ m2.logged = m.logged /\ m2.resultSaved = m.resultSaved
      /\ m2.moves = m.moves /\ m2.async = m.async /\ m2.sig = m.sig
      /\ m2.game.turns = m.game.turns /\ m2.game.over = m.game.over
  <2> DEFINE game == [m.game EXCEPT !.due = 1]
  <2>1. game \in GameRecord /\ game.turns = m.game.turns /\ game.over = m.game.over
    BY <1>6 DEF RoomRecord, GameRecord
  <2>2. m2 = [m EXCEPT !.game = game]
    BY <1>6 DEF RoomRecord
  <2> HIDE DEF game, m2
  <2> QED
    BY <1>6, <2>1, <2>2 DEF RoomRecord
<1> HIDE DEF m2
<1>8. AtWork(rows, rooms, r, m2, lost)
  BY <1>3, <1>6, <1>7, GameChanged
<1>9. Durable(rows, m2, lost)
  BY <1>3, <1>7 DEF Durable, Signature, Stored
<1> DEFINE x == PersistAsync(World(rows, users, m2), r, now, f)
<1>10. AtWork(x.rows, rooms, r, x.room, lost \/ f # "none") /\ Durable(x.rows, x.room, lost \/ f # "none")
  BY <1>3, <1>8, <1>9, PersistKeeps DEF Durable
<1>11. RatesSaved(rows, users, x, m2, now)
  BY <1>3, <1>8, <1>9, PersistRates DEF Durable
<1> HIDE DEF x
<1>12. Written(r, x)
  BY <1>1, <1>5 DEF x
<1> QED
  BY <1>3, <1>4, <1>10, <1>12, <1>11, HandlerEnds DEF RatesSaved
-----------------------------------------------------------------------------
(* The archive and a restart. *)

(* What has a recorded result may be reviewed while its room is still       *)
(* there; the row of a room whose game goes on is not reviewed.             *)
LEMMA ReviewKeeps ==
  ASSUME RecordsAssumption, WorldFits(rows, rooms, lost), now \in Nat, NEW g \in Ids, VoidGame(g) \/ UnvoidGame(g)
  PROVE  /\ WorldFits(rows', rooms', lost')
         /\ RatingsFit(rows, users, adjustments, now) => RatingsFit(rows', users', adjustments', now)
<1>1. PICK s \in {"finished", "voided"} :
        rows' = [rows EXCEPT ![g].status = s] /\ rooms' = rooms /\ lost' = lost /\ rows[g].status \in {"finished", "voided"}
  BY DEF VoidGame, UnvoidGame, Reviewed
<1>2. \A r \in Rooms : rooms[r].stage = "game" /\ rooms[r].db = g => rooms[r].resultSaved
  <2> SUFFICES ASSUME NEW r \in Rooms, rooms[r].db = g
               PROVE  rooms[r].resultSaved
    OBVIOUS
  <2>1. g # None
    BY RecordsAssumption
  <2>2. GameFits(rows, rooms[r], r, lost)
    BY <2>1, LiveRow
  <2> QED
    BY <1>1, <2>1, <2>2 DEF GameFits
<1>3. /\ WorldFits([rows EXCEPT ![g].status = s], rooms, lost) /\ [rows EXCEPT ![g].status = s] \in [Ids -> RowRecord]
      /\ \A h \in Ids : [rows EXCEPT ![g].status = s][h].at = rows[h].at
  <2>1. rows[g].status \notin NotPlayed
    BY <1>1 DEF NotPlayed
  <2>2. WorldFits([rows EXCEPT ![g].status = s], rooms, lost)
    BY <1>1, <1>2, <2>1, OneRestatused
  <2>3. [rows EXCEPT ![g].status = s] \in [Ids -> RowRecord]
    BY <1>1, <1>2, <2>1, OneRestatused
  <2>4. \A h \in Ids : [rows EXCEPT ![g].status = s][h].at = rows[h].at
    BY <1>1, <1>2, <2>1, OneRestatused
  <2> QED
    BY <2>2, <2>3, <2>4
<1>4. users' = Recomputed(rows', adjustments) /\ adjustments' = adjustments
  BY DEF VoidGame, UnvoidGame, Reviewed, Refreshed
<1>5. RatingsFit(rows, users, adjustments, now) => RatingsFit(rows', Recomputed(rows', adjustments), adjustments, now)
  BY <1>1, <1>3, RecomputedKeeps
<1> QED
  BY <1>1, <1>3, <1>4, <1>5

LEMMA SetStatusKeeps ==
  ASSUME RecordsAssumption, WorldFits(rows, rooms, lost), now \in Nat, NEW g \in Ids, SetStatus(g)
  PROVE  WorldFits(rows', rooms', lost') /\ KeepsRatings(rows, users, rows', users', now)
<1>1. PICK s \in {"active", "abandoned"} : rows' = [rows EXCEPT ![g].status = s]
  BY DEF SetStatus
<1>2. rooms' = rooms /\ lost' = lost /\ users' = users
      /\ rows[g].status \in {"active", "abandoned"} /\ \A r \in Rooms : rooms[r].db # g
  BY DEF SetStatus, LiveGames
<1>3. ~rows[g].state.over /\ rows[g].status \notin NotPlayed
  BY <1>2 DEF WorldFits, RowsInv, RowsFit, NotPlayed
<1>4. /\ WorldFits([rows EXCEPT ![g].status = s], rooms, lost) /\ [rows EXCEPT ![g].status = s] \in [Ids -> RowRecord]
      /\ SameResults(rows, [rows EXCEPT ![g].status = s])
  <2>1. \A r \in Rooms : rooms[r].stage = "game" /\ rooms[r].db = g => rooms[r].resultSaved
    BY <1>2
  <2>2. rows[g].state.over => s \in {"finished", "voided"}
    BY <1>3
  <2>3. WorldFits([rows EXCEPT ![g].status = s], rooms, lost)
    BY <1>3, <2>1, <2>2, OneRestatused
  <2>4. [rows EXCEPT ![g].status = s] \in [Ids -> RowRecord]
    BY <1>3, <2>1, <2>2, OneRestatused
  <2>5. SameResults(rows, [rows EXCEPT ![g].status = s])
    BY <1>2, <1>3, <2>1, <2>2, OneRestatused
  <2> QED
    BY <2>3, <2>4, <2>5
<1> QED
  BY <1>1, <1>2, <1>4, ArchiveKept

LEMMA DeleteGameKeeps ==
  ASSUME RecordsAssumption, WorldFits(rows, rooms, lost), now \in Nat, NEW g \in Ids, DeleteGame(g)
  PROVE  /\ WorldFits(rows', rooms', lost')
         /\ RatingsFit(rows, users, adjustments, now) => RatingsFit(rows', users', adjustments', now)
<1> DEFINE n == [NoRow EXCEPT !.status = "deleted"]
           k == lost \/ \E r \in Rooms : rooms[r].save # None /\ rooms[r].save.id = g
<1>1. rows' = [rows EXCEPT ![g] = n] /\ rooms' = rooms
  BY DEF DeleteGame, Reviewed
<1>2. lost' = k /\ rows[g].status \notin NotPlayed /\ \A r \in Rooms : rooms[r].db # g
  BY DEF DeleteGame, LiveGames, NotPlayed
<1>3. k \in BOOLEAN /\ (lost => k) /\ \A r \in Rooms : rooms[r].save # None /\ rooms[r].save.id = g => k
  BY DEF WorldFits
<1>4. n = [NoRow EXCEPT !.status = "deleted"]
  OBVIOUS
<1> HIDE DEF k, n
<1>5. WorldFits([rows EXCEPT ![g] = n], rooms, k)
  BY <1>2, <1>3, <1>4, RowDeleted
<1>6. rows \in [Ids -> RowRecord] /\ n \in RowRecord /\ n.status = "deleted" /\ n.at = 0
  BY <1>4, NoRoomFits DEF WorldFits, RowsInv, RowRecord, NoRow
<1>7. rows' \in [Ids -> RowRecord] /\ rows'[g] = n /\ \A h \in Ids : h # g => rows'[h] = rows[h]
  BY <1>1, <1>6
<1>8. RatingsFit(rows, users, adjustments, now) => RatingsFit(rows', users', adjustments', now)
  <2> SUFFICES ASSUME RatingsFit(rows, users, adjustments, now)
               PROVE  RatingsFit(rows', users', adjustments', now)
    OBVIOUS
  <2>1. CASE rows[g].status \in {"finished", "voided"}
    <3>1. users' = Recomputed(rows', adjustments) /\ adjustments' = adjustments
      BY <2>1 DEF DeleteGame, Reviewed, Refreshed
    <3>2. \A h \in Ids : rows'[h].at \in {rows[h].at, 0}
      BY <1>6, <1>7
    <3>3. RatingsFit(rows', Recomputed(rows', adjustments), adjustments, now)
      BY <1>7, <3>2, RecomputedKeeps
    <3> QED
      BY <3>1, <3>3
  <2>2. CASE rows[g].status \notin {"finished", "voided"}
    <3>1. users' = users /\ adjustments' = adjustments
      BY <2>2 DEF DeleteGame
    <3>2. SameResults(rows, rows')
      BY <1>6, <1>7, <2>2 DEF SameResults, SameResult
    <3>3. KeepsRatings(rows, users, rows', users', now)
      BY <1>7, <3>1, <3>2, ArchiveKept
    <3> QED
      BY <3>1, <3>3 DEF KeepsRatings
  <2> QED
    BY <2>1, <2>2
<1> QED
  BY <1>1, <1>2, <1>5, <1>8

(* A restart finds no active row with a result: finish_game has closed it.  *)
LEMMA RestartKeeps ==
  ASSUME RecordsAssumption, WorldFits(rows, rooms, lost), now \in Nat, Restart
  PROVE  WorldFits(rows', rooms', lost') /\ KeepsRatings(rows, users, rows', users', now)
<1> DEFINE closed == [g \in Ids |-> IF rows[g].status = "active" /\ rows[g].state.over
                                    THEN [rows[g] EXCEPT !.status = "finished", !.at = now, !.bots = FALSE] ELSE rows[g]]
           game(r) == {g \in Ids : closed[g].status = "active" /\ closed[g].async /\ closed[g].room = r}
           loaded == [r \in Rooms |-> IF game(r) = {} THEN NoRoom ELSE LoadedRoom(CHOOSE g \in game(r) : TRUE)]
<1>1. rows' = closed /\ rooms' = loaded /\ lost' = lost /\ users' = users
  <2>1. rows' = closed /\ rooms' = loaded
    BY Zenon DEF Restart
  <2>2. UNCHANGED <<users, adjustments, now, faults, lost>>
    BY Zenon DEF Restart
  <2> HIDE DEF closed, loaded
  <2> QED
    BY <2>1, <2>2
<1>2. RowsInv(rows, lost) /\ rows \in [Ids -> RowRecord] /\ lost \in BOOLEAN
  BY DEF WorldFits, RowsInv
<1>3. closed = rows
  <2>1. \A g \in Ids : ~(rows[g].status = "active" /\ rows[g].state.over)
    BY <1>2 DEF RowsInv, RowsFit
  <2>2. \A g \in Ids : closed[g] = rows[g]
    BY <2>1
  <2>3. closed = [g \in Ids |-> closed[g]]
    OBVIOUS
  <2> HIDE DEF closed
  <2> QED
    BY <1>2, <2>2, <2>3
<1> HIDE DEF closed
<1>4. ASSUME NEW r \in Rooms
      PROVE  loaded[r] \in RoomRecord /\ RoomFits(rows, loaded, loaded[r], r, lost)
  <2>1. CASE game(r) = {}
    BY <2>1, NoRoomFits
  <2>2. CASE game(r) # {}
    <3>1. PICK g \in game(r) : loaded[r] = LoadedRoom(g)
      BY <2>2
    <3>2. g \in Ids /\ ActiveAsync(g) /\ rows[g].room = r
      BY <1>3, <3>1 DEF ActiveAsync
    <3> HIDE DEF loaded, game
    <3>3. LoadedRoom(g) \in RoomRecord /\ LoadedRoom(g).stage = "game"
          /\ GameFits(rows, LoadedRoom(g), r, lost) /\ Durable(rows, LoadedRoom(g), lost)
      BY <1>2, <3>2, LoadedFits
    <3> QED
      BY <3>1, <3>3 DEF RoomFits
  <2> QED
    BY <2>1, <2>2
<1>5. loaded \in [Rooms -> RoomRecord]
  BY <1>4
<1> HIDE DEF loaded
<1>6. rows' \in [Ids -> RowRecord] /\ SameResults(rows, rows')
  BY <1>1, <1>2, <1>3 DEF SameResults, SameResult
<1> QED
  BY <1>1, <1>2, <1>3, <1>4, <1>5, <1>6, ArchiveKept DEF WorldFits

-----------------------------------------------------------------------------

LEMMA NothingComputed ==
  ASSUME RecordsAssumption, NEW rs, NEW adj, ArchiveFits(rs, adj), Events(rs, adj) = {}
  PROVE  ComputedRatings(rs, adj) = Start
<1>1. PICK f : RatingsFold(f, rs, adj) /\ ComputedRatings(rs, adj) = f[{}]
  BY RatingsAreFold
<1>2. f[{}] = Start
  BY <1>1 DEF RatingsFold, Fold
<1> QED
  BY <1>1, <1>2

LEMMA NothingCounted ==
  ASSUME NEW rs, Finished(rs) = {}, NEW u
  PROVE  /\ ComputedCounters(rs, u).played = 0 /\ ComputedCounters(rs, u).won = 0
         /\ ComputedCounters(rs, u).score = 0
<1> DEFINE mine == Finished(rs)
           wins == {g \in mine : rs[g].state.over /\ u \in Winners(rs[g].state.result)}
           scores == [g \in mine |-> ResultOf(rs[g]).score[u]]
<1>1. ComputedCounters(rs, u) = [played |-> Cardinality(mine), won |-> Cardinality(wins), score |-> SumFunction(scores)]
  BY Zenon DEF ComputedCounters
<1>2. mine = {} /\ wins = {} /\ scores \in [{} -> Int]
  OBVIOUS
<1> HIDE DEF mine, wins, scores
<1>3. IsFiniteSet({}) /\ Cardinality({}) = 0
  BY FS_EmptySet
<1>4. SumFunction(scores) = 0
  <2>1. PICK f : Fold(f, {}, Int, 0, Chosen({}), Adding(scores)) /\ SumFunction(scores) = f[{}]
    BY <1>2, <1>3, SumIsFold
  <2> QED
    BY <2>1 DEF Fold
<1> QED
  BY <1>1, <1>2, <1>3, <1>4

(* The inductive invariant: rows and rooms fit each other, and the players' *)
(* rows the archive.                                                        *)
RecordsInv ==
  now \in Nat /\ WorldFits(rows, rooms, lost) /\ RatingsFit(rows, users, adjustments, now)

LEMMA SameTime ==
  ASSUME RecordsInv, now' = now, adjustments' = adjustments, WorldFits(rows', rooms', lost'),
         KeepsRatings(rows, users, rows', users', now)
  PROVE  RecordsInv'
BY DEF RecordsInv, KeepsRatings

LEMMA RatingsStart == RecordsAssumption /\ Init => RatingsFit(rows, users, adjustments, now)
<1> SUFFICES ASSUME RecordsAssumption, Init
             PROVE  RatingsFit(rows, users, adjustments, now)
  OBVIOUS
<1>1. rows = [g \in Ids |-> NoRow] /\ adjustments = <<>> /\ now = 0
      /\ users = [u \in Users |-> [rating |-> Initial, rated |-> 0, played |-> 0, won |-> 0, score |-> 0]]
  BY DEF Init
<1>2. ArchiveFits(rows, adjustments) /\ Until(rows, adjustments, now)
  BY <1>1, NoRoomFits DEF ArchiveFits, Until, NoRow
<1>3. UsersFit(users)
  BY <1>1, RecordsAssumption DEF UsersFit, UserRecord
<1>4. Finished(rows) = {} /\ Events(rows, adjustments) = {}
  BY <1>1, NoRoomFits DEF Finished, Events
<1>5. Core(users) = ComputedRatings(rows, adjustments)
  <2>1. ComputedRatings(rows, adjustments) = Start
    BY <1>2, <1>4, NothingComputed
  <2>2. Core(users) = Start
    BY <1>1, CoreIs DEF Start, Core
  <2> QED
    BY <2>1, <2>2
<1>6. ASSUME NEW u \in Users
      PROVE  /\ users[u].played = ComputedCounters(rows, u).played
             /\ users[u].won = ComputedCounters(rows, u).won
             /\ users[u].score = ComputedCounters(rows, u).score
  BY <1>1, <1>4, NothingCounted
<1> QED
  BY <1>2, <1>3, <1>5, <1>6 DEF RatingsFit, Shown, CountersShown

LEMMA RecordsStart == RecordsAssumption /\ Init => RecordsInv
<1> SUFFICES ASSUME RecordsAssumption, Init
             PROVE  RecordsInv
  OBVIOUS
<1>1. rows = [g \in Ids |-> NoRow] /\ rooms = [r \in Rooms |-> NoRoom] /\ now = 0 /\ lost = FALSE
  BY DEF Init
<1>2. rows \in [Ids -> RowRecord] /\ rooms \in [Rooms -> RoomRecord]
  BY <1>1, NoRoomFits
<1>3. RowsFit(rows, lost)
  BY <1>1, NoRoomFits DEF RowsFit, NotPlayed
<1>4. RowsApart(rows)
  BY <1>1, NoRoomFits DEF RowsApart
<1>5. \A r \in Rooms : RoomFits(rows, rooms, rooms[r], r, lost)
  BY <1>1, NoRoomFits
<1> QED
  BY <1>1, <1>2, <1>3, <1>4, <1>5, RatingsStart DEF RecordsInv, WorldFits, RowsInv

LEMMA RecordsStep == RecordsAssumption /\ RecordsInv /\ [Next]_vars => RecordsInv'
<1> SUFFICES ASSUME RecordsAssumption, RecordsInv, [Next]_vars
             PROVE  RecordsInv'
  OBVIOUS
<1>1. now \in Nat /\ WorldFits(rows, rooms, lost) /\ RatingsFit(rows, users, adjustments, now)
  BY DEF RecordsInv
<1>2. CASE UNCHANGED vars
  BY <1>1, <1>2 DEF vars, RecordsInv
<1>3. ASSUME NEW r \in Rooms, NEW async \in BOOLEAN, NEW bots \in BOOLEAN, StartGame(r, async, bots)
      PROVE  RecordsInv'
  <2>1. now' = now /\ adjustments' = adjustments
    BY <1>3 DEF StartGame
  <2> QED
    BY <1>1, <1>3, <2>1, StartGameKeeps, SameTime
<1>4. ASSUME NEW r \in Rooms, PlayTurn(r)
      PROVE  RecordsInv'
  <2>1. now' = now /\ adjustments' = adjustments
    BY <1>4 DEF PlayTurn
  <2> QED
    BY <1>1, <1>4, <2>1, PlayTurnKeeps, SameTime
<1>5. ASSUME NEW r \in Rooms, ManualSave(r)
      PROVE  RecordsInv'
  <2>1. now' = now /\ adjustments' = adjustments
    BY <1>5 DEF ManualSave
  <2> QED
    BY <1>1, <1>5, <2>1, ManualSaveKeeps, SameTime
<1>6. ASSUME NEW r \in Rooms, RoomGoes(r)
      PROVE  RecordsInv'
  <2>1. now' = now /\ adjustments' = adjustments
    BY <1>6 DEF RoomGoes
  <2> QED
    BY <1>1, <1>6, <2>1, RoomGoesKeeps, SameTime
<1>7. ASSUME NEW r \in Rooms, OwnerLost(r)
      PROVE  RecordsInv'
  <2>1. now' = now /\ adjustments' = adjustments
    BY <1>7 DEF OwnerLost
  <2> QED
    BY <1>1, <1>7, <2>1, OwnerLostKeeps, SameTime
<1>8. ASSUME NEW r \in Rooms, RestoreStart(r)
      PROVE  RecordsInv'
  <2>1. now' = now /\ adjustments' = adjustments
    BY <1>8 DEF RestoreStart
  <2> QED
    BY <1>1, <1>8, <2>1, RestoreStartKeeps, SameTime
<1>9. ASSUME NEW r \in Rooms, CloseView(r)
       PROVE  RecordsInv'
  <2>1. now' = now /\ adjustments' = adjustments
    BY <1>9 DEF CloseView
  <2> QED
    BY <1>1, <1>9, <2>1, CloseViewKeeps, SameTime
<1>10. ASSUME NEW r \in Rooms, VoidRoom(r)
       PROVE  RecordsInv'
  <2>1. now' = now /\ adjustments' = adjustments
    BY <1>10 DEF VoidRoom
  <2> QED
    BY <1>1, <1>10, <2>1, VoidRoomKeeps, SameTime
<1>11. ASSUME NEW r \in Rooms, NEW g \in Ids, RestoreGame(r, g)
       PROVE  RecordsInv'
  <2>1. now' = now /\ adjustments' = adjustments
    BY <1>11 DEF RestoreGame
  <2> QED
    BY <1>1, <1>11, <2>1, RestoreGameKeeps, SameTime
<1>12. ASSUME NEW r \in Rooms, NEW result \in Results, NEW t \in {now, now + 1} \cap 0 .. MaxTime,
              EndWithSave(r, result, t) \/ EndWithState(r, result, t)
       PROVE  RecordsInv'
  <2>1. t \in Nat /\ now <= t /\ now' = t /\ adjustments' = adjustments
    BY <1>1, <1>12 DEF EndWithSave, EndWithState
  <2>2. WorldFits(rows', rooms', lost') /\ KeepsRatings(rows, users, rows', users', t)
    BY <1>1, <1>12, <2>1, EndWithSaveKeeps, EndWithStateKeeps
  <2>3. RatingsFit(rows, users, adjustments, t)
    BY <1>1, <2>1, LaterFits
  <2> QED
    BY <2>1, <2>2, <2>3 DEF RecordsInv, KeepsRatings
<1>13. ASSUME NEW g \in Ids, AbandonGame(g)
       PROVE  RecordsInv'
  <2>1. now' = now /\ adjustments' = adjustments
    BY <1>13 DEF AbandonGame
  <2> QED
    BY <1>1, <1>13, <2>1, AbandonGameKeeps, SameTime
<1>14. ASSUME NEW g \in Ids, AsyncUnload(g)
       PROVE  RecordsInv'
  <2>1. now' = now /\ adjustments' = adjustments
    BY <1>14 DEF AsyncUnload
  <2> QED
    BY <1>1, <1>14, <2>1, AsyncUnloadKeeps, SameTime
<1>15. ASSUME NEW g \in Ids, AsyncExtend(g)
       PROVE  RecordsInv'
  <2>1. now' = now /\ adjustments' = adjustments
    BY <1>15 DEF AsyncExtend
  <2> QED
    BY <1>1, <1>15, <2>1, AsyncExtendKeeps, SameTime
<1>16. ASSUME NEW g \in Ids, AsyncVoid(g)
       PROVE  RecordsInv'
  <2>1. now' = now /\ adjustments' = adjustments
    BY <1>16 DEF AsyncVoid
  <2> QED
    BY <1>1, <1>16, <2>1, AsyncVoidKeeps, SameTime
<1>17. ASSUME NEW g \in Ids, VoidGame(g) \/ UnvoidGame(g)
       PROVE  RecordsInv'
  <2>1. now' = now /\ adjustments' = adjustments
    BY <1>17 DEF VoidGame, UnvoidGame, Reviewed
  <2> QED
    BY <1>1, <1>17, <2>1, ReviewKeeps DEF RecordsInv
<1>18. ASSUME NEW g \in Ids, SetStatus(g)
       PROVE  RecordsInv'
  <2>1. now' = now /\ adjustments' = adjustments
    BY <1>18 DEF SetStatus
  <2> QED
    BY <1>1, <1>18, <2>1, SetStatusKeeps, SameTime
<1>19. ASSUME NEW g \in Ids, DeleteGame(g)
       PROVE  RecordsInv'
  <2>1. now' = now /\ adjustments' = adjustments
    BY <1>19 DEF DeleteGame, Reviewed
  <2> QED
    BY <1>1, <1>19, <2>1, DeleteGameKeeps DEF RecordsInv
<1>20. ASSUME NEW g \in Ids, NEW looks \in BOOLEAN, OpenAsync(g, looks)
       PROVE  RecordsInv'
  <2>1. now' = now /\ adjustments' = adjustments
    BY <1>20 DEF OpenAsync
  <2> QED
    BY <1>1, <1>20, <2>1, OpenAsyncKeeps, SameTime
<1>21. ASSUME NEW u \in Users, NEW rating \in {Initial}, NEW t \in {now, now + 1} \cap 0 .. MaxTime, SetRating(u, rating, t)
       PROVE  RecordsInv'
  <2>1. users' = [users EXCEPT ![u].rating = rating] /\ now' = t /\ rows' = rows /\ rooms' = rooms /\ lost' = lost
        /\ adjustments' = Append(adjustments, [user |-> u, delta |-> rating - users[u].rating, at |-> t])
    BY <1>21 DEF SetRating
  <2>2. t \in Nat /\ now <= t /\ rating \in Int
    BY <1>1, RecordsAssumption
  <2>3. RatingsFit(rows, users, adjustments, t)
    BY <1>1, <2>2, LaterFits
  <2>4. RatingsFit(rows, [users EXCEPT ![u].rating = rating],
                   Append(adjustments, [user |-> u, delta |-> rating - users[u].rating, at |-> t]), t)
    BY <2>2, <2>3, AdjustKeeps
  <2> QED
    BY <1>1, <2>1, <2>2, <2>4 DEF RecordsInv
<1>22. CASE RatingsApply
  <2> DEFINE q == ComputedRatings(rows, adjustments)
             us == [u \in Users |-> [users[u] EXCEPT !.rating = q[u].rating, !.rated = q[u].rated]]
  <2>1. UNCHANGED <<rows, adjustments, rooms, now, faults, lost>>
    BY <1>22, Zenon DEF RatingsApply
  <2>2. users' = us
    BY <1>22, Zenon DEF RatingsApply
  <2>3. RatingsFit(rows, us, adjustments, now)
    <3>1. us = Rerated(users, q)
      BY Zenon DEF Rerated
    <3>2. q = ComputedRatings(rows, adjustments)
      OBVIOUS
    <3> HIDE DEF q, us
    <3> QED
      BY <1>1, <3>1, <3>2, ApplyKeeps
  <2> HIDE DEF us
  <2> QED
    BY <1>1, <2>1, <2>2, <2>3 DEF RecordsInv
<1>23. CASE Restart
  <2>1. now' = now /\ adjustments' = adjustments
    <3>1. UNCHANGED <<users, adjustments, now, faults, lost>>
      BY <1>23, Zenon DEF Restart
    <3> QED
      BY <3>1
  <2> QED
    BY <1>1, <1>23, <2>1, RestartKeeps, SameTime
<1> QED
  BY <1>2, <1>3, <1>4, <1>5, <1>6, <1>7, <1>8, <1>9, <1>10, <1>11, <1>12, <1>13, <1>14, <1>15, <1>16,
     <1>17, <1>18, <1>19, <1>20, <1>21, <1>22, <1>23 DEF Next

LEMMA RecordsAlwaysFit == Spec => []RecordsInv
<1>1. RecordsInv /\ [Next]_vars => RecordsInv'
  BY RecordsAssumption, RecordsStep
<1>2. Init => RecordsInv
  BY RecordsAssumption, RecordsStart
<1> QED
  BY <1>1, <1>2, PTL DEF Spec

(* Nothing records the result of a room's game a second time, whatever is   *)
(* saved, fails, is reloaded, reviewed or restarted after it (result_saved  *)
(* of save_game_to_db and the row that finish_game closes): for any number  *)
(* of rooms, rows and failures.                                             *)
THEOREM ResultsAreRecordedOnce == Spec => []OneResultPerRoom
<1>1. RecordsInv => OneResultPerRoom
  <2> SUFFICES ASSUME RecordsInv, NEW g \in Ids, NEW h \in Ids, g # h, rows[g].state.over, rows[h].state.over
               PROVE  rows[g].room # rows[h].room
    BY DEF OneResultPerRoom
  <2>1. RowsFit(rows, lost) /\ RowsApart(rows)
    BY DEF RecordsInv, WorldFits, RowsInv
  <2>2. rows[g].room # None
    BY <2>1 DEF RowsFit, NotPlayed
  <2> QED
    BY <2>1, <2>2 DEF RowsApart
<1> QED
  BY <1>1, RecordsAlwaysFit, PTL

(* The replay of a saved game has every move once as long as no write has   *)
(* failed and no save is restored that a room still plays                   *)
(* (last_saved_move_count, add_game_moves, restore_start).                  *)
THEOREM ReplaysAreComplete ==
  ASSUME ~Reopen
  PROVE  Spec => []ReplayIsComplete
<1>1. RecordsInv => ReplayIsComplete
  BY DEF RecordsInv, WorldFits, RowsInv, RowsFit, ReplayIsComplete, NotPlayed, Exact
<1> QED
  BY <1>1, RecordsAlwaysFit, PTL

(* A loaded correspondence game may be unloaded, or the server stopped, at  *)
(* any moment: the database has its turns and its end, unless a write has   *)
(* failed (persist_async, load_async_room, unload_async_room).              *)
THEOREM AsyncGamesAreDurable == Spec => []AsyncIsDurable
<1>1. RecordsInv => AsyncIsDurable
  <2> SUFFICES ASSUME RecordsInv, NEW r \in Rooms, rooms[r].async, ~lost
               PROVE  LET row == rows[rooms[r].db] IN
                      /\ row.state.turns = rooms[r].game.turns /\ row.state.over = rooms[r].game.over
                      /\ row.status \in (IF row.state.over THEN {"finished", "voided"} ELSE {"active"})
    BY DEF AsyncIsDurable
  <2>1. RoomFits(rows, rooms, rooms[r], r, lost) /\ rooms[r] \in RoomRecord /\ RowsFit(rows, lost)
    BY DEF RecordsInv, WorldFits, RowsInv
  <2>2. rooms[r].stage = "game"
    BY <2>1, NoRoomFits, RecordsAssumption DEF RoomFits, LobbyFits, RoomRecord
  <2>3. GameFits(rows, rooms[r], r, lost) /\ Stored(rows, rooms[r])
    BY <2>1, <2>2 DEF RoomFits, Durable
  <2>4. rooms[r].db \in Ids
    BY <2>1, <2>3 DEF Stored, RoomRecord
  <2> QED
    BY <2>1, <2>3, <2>4 DEF GameFits, Stored, RowsFit
<1> QED
  BY <1>1, RecordsAlwaysFit, PTL

(* What the players see is what the archive says, for any number of games   *)
(* and adjustments: finish_game, which rates a result when it is recorded,  *)
(* agrees with compute_ratings and compute_counters, which start from       *)
(* nothing, through voids, unvoids, deletions, failures and restarts.       *)
THEOREM RatingsAreReproducible == Spec => []RatingsReproducible
<1>1. RecordsInv => RatingsReproducible
  <2> SUFFICES ASSUME RecordsInv, DistinctTimes(Events(rows, adjustments))
               PROVE  users = Recomputed(rows, adjustments)
    BY DEF RatingsReproducible
  <2>1. RatingsFit(rows, users, adjustments, now)
    BY DEF RecordsInv
  <2>2. ArchiveFits(rows, adjustments) /\ UsersFit(users) /\ Shown(users, rows, adjustments)
    BY <2>1 DEF RatingsFit
  <2> QED
    BY <2>2, RecordsAssumption, ShownIs
<1> QED
  BY <1>1, RecordsAlwaysFit, PTL

=============================================================================
