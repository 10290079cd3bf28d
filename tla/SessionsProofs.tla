--------------------------- MODULE SessionsProofs ---------------------------
(* Connections, tokens, grace periods and seats, for any number of          *)
(* connections, people and rooms.  A connection that left a running game    *)
(* and still has a seat there enters no other room first (MovesOn).         *)
EXTENDS Sessions, FiniteSetTheorems, WellFoundedInduction, TLAPS

SeatRecord == [sid: Sids \cup {None}, who: People, away: BOOLEAN]
RoomRecord ==
  [kind: {"none", "normal", "restored", "async"}, stage: {"none", "waiting", "running", "over"},
   seats: Seq(SeatRecord), owner: Sids \cup {None}, ownerToken: Tokens \cup {None}, late: SUBSET People]
TokenRecord == [room: Rooms, sid: Sids, who: People]

SessionsTypeOK ==
  /\ conn \in [Sids -> {"free", "open", "closing"}]
  /\ auth \in [Sids -> People \cup {None}]
  /\ at \in [Sids -> Rooms \cup {None}]
  /\ token \in [Tokens -> TokenRecord \cup {NoToken}]
  /\ mine \in [Sids -> Tokens \cup {None}]
  /\ \A t \in Tokens : grace[t] # NoGrace => grace[t].room \in Rooms /\ grace[t].sid \in Sids
  /\ grace = [t \in Tokens |-> grace[t]]
  /\ rooms \in [Rooms -> RoomRecord]

(* The seats of a room: nobody has two, and a connection that is not lost   *)
(* has no second one anywhere.                                              *)
Distinct(seats) == \A i, j \in DOMAIN seats : seats[i].who = seats[j].who => i = j

SeatsApart ==
  /\ \A r \in Rooms : Distinct(rooms[r].seats)
  /\ \A r, q \in Rooms : \A x \in SeatsOf(r), y \in SeatsOf(q) :
       x.sid = y.sid /\ x.sid # None => r = q /\ x = y

RoomsFit ==
  \A r \in Rooms :
    /\ rooms[r].stage = "none" \/ rooms[r].kind = "none" => rooms[r] = NoRoom
    /\ rooms[r].kind = "restored" => \A x \in SeatsOf(r) : x.who \in Saved
    /\ rooms[r].late # {} => rooms[r].kind = "restored" /\ rooms[r].stage \in {"running", "over"}
    /\ \A x \in SeatsOf(r) : x.who \in rooms[r].late => x.sid = None

(* player_rooms against the seats *)
Seated ==
  /\ \A s \in Sids : at[s] # None =>
       /\ auth[s] # None /\ conn[s] # "free"
       /\ \E x \in SeatsOf(at[s]) : x.sid = s /\ ~x.away
  /\ \A r \in Rooms : \A x \in SeatsOf(r) :
       /\ ~x.away /\ rooms[r].kind # "restored" => x.sid # None /\ at[x.sid] = r
       /\ x.sid # None /\ auth[x.sid] # None => x.who = auth[x.sid]

(* the person a token leads to *)
OwnerOf(t) == IF t \in Users THEN t ELSE token[t].who

TokensFit ==
  /\ \A t \in Tokens : token[t] # NoToken =>
       /\ IF t \in Users THEN token[t].who = t ELSE token[t].who \in Guests
       /\ mine[token[t].sid] = t
       /\ auth[token[t].sid] # None => auth[token[t].sid] = token[t].who
  /\ \A s \in Sids : mine[s] \in GuestTokens => token[mine[s]] # NoToken /\ token[mine[s]].sid = s
  /\ \A t \in GuestTokens : token[t] # NoToken => grace[t] # NoGrace \/ at[token[t].sid] # None
  /\ \A s \in Sids : mine[s] # None /\ at[s] # None =>
       \A x \in SeatsOf(at[s]) : x.sid = s => x.who = OwnerOf(mine[s])

GraceFits ==
  \A t \in Tokens : grace[t] # NoGrace =>
    /\ mine[grace[t].sid] = t /\ at[grace[t].sid] = None
    /\ \E x \in SeatsOf(grace[t].room) :
         /\ x.sid = grace[t].sid /\ x.who = OwnerOf(t)
         /\ x.away \/ rooms[grace[t].room].kind = "restored"

SessionsInv ==
  SessionsTypeOK /\ SeatsApart /\ RoomsFit /\ Seated /\ TokensFit /\ GraceFits /\ OwnerSits

-----------------------------------------------------------------------------
(* The seats as a set.                                                      *)

(* Among some places of a list there is a first one. *)
LEMMA SmallestIs ==
  ASSUME NEW n \in Nat, NEW I \in SUBSET (1 .. n), I # {}
  PROVE  Min(I) \in I /\ \A j \in I : Min(I) <= j
<1> DEFINE R == StrictSubsetOrdering(1 .. n)
           F == FiniteSubsetsOf(1 .. n)
           T == {1 .. i : i \in I}
<1>1. T \in SUBSET F /\ T # {}
  <2>1. \A i \in I : 1 .. i \subseteq 1 .. n /\ IsFiniteSet(1 .. i)
    BY FS_Interval
  <2> QED
    BY <2>1 DEF FiniteSubsetsOf
<1>2. PICK X \in T : \A Y \in T : <<Y, X>> \notin R
  <2>1. IsWellFoundedOn(R, F)
    BY FS_StrictSubsetOrderingWellFounded
  <2> HIDE DEF R, F, T
  <2> QED
    BY <1>1, <2>1, WFMin
<1>3. PICK i \in I : X = 1 .. i
  BY <1>2
<1>4. ASSUME NEW j \in I
      PROVE  i <= j
  <2> SUFFICES ASSUME j < i
               PROVE  FALSE
    OBVIOUS
  <2>1. 1 .. j \subseteq 1 .. i /\ 1 .. j # 1 .. i /\ 1 .. i \subseteq 1 .. n /\ 1 .. j \subseteq 1 .. n
    <3>1. i \in 1 .. i /\ i \notin 1 .. j
      OBVIOUS
    <3> QED
      BY <3>1
  <2>2. <<1 .. j, 1 .. i>> \in R
    BY <2>1 DEF StrictSubsetOrdering
  <2> QED
    BY <1>2, <1>3, <2>2
<1>5. \E x \in I : \A y \in I : x <= y
  BY <1>4
<1> QED
  BY <1>5 DEF Min

(* The place of a connection is that of one of its seats.                   *)
LEMMA IndexPoints ==
  ASSUME NEW seats \in Seq(SeatRecord), NEW s
  PROVE  \/ IndexOf(seats, s) = 0 /\ \A i \in DOMAIN seats : seats[i].sid # s
         \/ IndexOf(seats, s) \in DOMAIN seats /\ seats[IndexOf(seats, s)].sid = s
<1> DEFINE I == {i \in 1 .. Len(seats) : seats[i].sid = s}
<1>1. IndexOf(seats, s) = IF I # {} THEN Min(I) ELSE 0
  BY DEF IndexOf, SelectInSeq
<1>2. I # {} => Min(I) \in I
  <2>1. I \in SUBSET (1 .. Len(seats)) /\ Len(seats) \in Nat
    OBVIOUS
  <2> HIDE DEF I
  <2> QED
    BY <2>1, SmallestIs
<1> QED
  BY <1>1, <1>2

(* Seat i goes to somebody's other connection, or to nobody's. *)
Given(seats, i, y) == [seats EXCEPT ![i] = y]

LEMMA OneSeat ==
  ASSUME NEW seats \in Seq(SeatRecord), Distinct(seats), NEW i \in DOMAIN seats, NEW y \in SeatRecord,
         y.who = seats[i].who
  PROVE  LET new == Given(seats, i, y) IN
         /\ new \in Seq(SeatRecord) /\ Distinct(new)
         /\ ToSet(new) = (ToSet(seats) \ {seats[i]}) \cup {y}
<1> DEFINE new == Given(seats, i, y)
<1>1. new \in Seq(SeatRecord) /\ DOMAIN new = DOMAIN seats
  BY DEF Given
<1>2. \A j \in DOMAIN seats : new[j] = IF j = i THEN y ELSE seats[j]
  BY DEF Given
<1>3. Distinct(new)
  BY <1>1, <1>2 DEF Distinct
<1>4. \A j \in DOMAIN seats : j # i => seats[j] # seats[i]
  BY DEF Distinct
<1>5. ToSet(new) = (ToSet(seats) \ {seats[i]}) \cup {y}
  <2> HIDE DEF new
  <2> QED
    BY <1>1, <1>2, <1>4 DEF ToSet
<1> QED
  BY <1>1, <1>3, <1>5

(* No connection has two of the seats. *)
SidsApart(seats) == \A x, y \in ToSet(seats) : x.sid = y.sid /\ x.sid # None => x = y

(* A seat left, and a seat taken by connection s. *)
Left(x) == [x EXCEPT !.away = TRUE]
Taken(x, s) == [x EXCEPT !.sid = s, !.away = FALSE]

LEMMA SeatForm ==
  ASSUME NEW x \in SeatRecord, NEW s \in Sids
  PROVE  /\ Left(x) \in SeatRecord /\ Left(x).sid = x.sid /\ Left(x).who = x.who /\ Left(x).away
         /\ Taken(x, s) \in SeatRecord /\ Taken(x, s).sid = s /\ Taken(x, s).who = x.who /\ ~Taken(x, s).away
         /\ Seat(s, x.who, FALSE) = Taken(x, s)
<1>1. ASSUME NEW y \in SeatRecord, NEW z \in SeatRecord, y.sid = z.sid, y.who = z.who, y.away = z.away
      PROVE  y = z
  BY <1>1 DEF SeatRecord
<1>2. Left(x) \in SeatRecord /\ Left(x).sid = x.sid /\ Left(x).who = x.who /\ Left(x).away
  BY DEF SeatRecord, Left
<1>3. Taken(x, s) \in SeatRecord /\ Taken(x, s).sid = s /\ Taken(x, s).who = x.who /\ Taken(x, s).away = FALSE
  BY DEF SeatRecord, Taken
<1>4. /\ Seat(s, x.who, FALSE) \in SeatRecord /\ Seat(s, x.who, FALSE).sid = s
      /\ Seat(s, x.who, FALSE).who = x.who /\ Seat(s, x.who, FALSE).away = FALSE
  BY DEF SeatRecord, Seat
<1>5. Seat(s, x.who, FALSE) = Taken(x, s)
  BY <1>1, <1>3, <1>4
<1> QED
  BY <1>2, <1>3, <1>5

LEMMA AwaySeats ==
  ASSUME NEW seats \in Seq(SeatRecord), Distinct(seats), SidsApart(seats), NEW s \in Sids
  PROVE  LET new == Away(seats, s) IN
         /\ new \in Seq(SeatRecord) /\ Distinct(new)
         /\ \A y \in ToSet(new) : \/ y \in ToSet(seats) /\ y.sid # s
                                  \/ y.sid = s /\ y.away /\ \E x \in ToSet(seats) : x.sid = s /\ x.who = y.who
         /\ \A y \in ToSet(seats) : y.sid # s => y \in ToSet(new)
         /\ (\E x \in ToSet(seats) : x.sid = s) => \E y \in ToSet(new) : y.sid = s
         /\ DOMAIN new = DOMAIN seats
<1> DEFINE new == Away(seats, s)
           i == IndexOf(seats, s)
<1>1. CASE i = 0 /\ \A j \in DOMAIN seats : seats[j].sid # s
  <2>1. new = seats
    BY <1>1 DEF Away
  <2> QED
    BY <1>1, <2>1 DEF ToSet
<1>2. CASE i \in DOMAIN seats /\ seats[i].sid = s
  <2> DEFINE y == Left(seats[i])
  <2>1. seats[i] \in SeatRecord
    BY <1>2
  <2>2. y \in SeatRecord /\ y.who = seats[i].who /\ y.sid = s /\ y.away
    BY <1>2, <2>1, SeatForm, SessionsAssumption
  <2>3. new = Given(seats, i, y)
    BY <1>2 DEF Away, Left, Given
  <2> HIDE DEF y, i
  <2>4. /\ new \in Seq(SeatRecord) /\ Distinct(new) /\ ToSet(new) = (ToSet(seats) \ {seats[i]}) \cup {y}
    BY <1>2, <2>2, <2>3, OneSeat
  <2>5. seats[i] \in ToSet(seats) /\ \A x \in ToSet(seats) : x.sid = s => x = seats[i]
    BY <1>2, SessionsAssumption DEF ToSet, SidsApart
  <2>6. DOMAIN new = DOMAIN seats
    BY <2>3 DEF Given
  <2> QED
    BY <1>2, <2>2, <2>4, <2>5, <2>6
<1> QED
  BY <1>1, <1>2, IndexPoints

(* the seats are the same, but for x in whose place is y *)
Swapped(new, seats, x, y) == ToSet(new) = (ToSet(seats) \ {x}) \cup {y}

LEMMA ReplacedSeats ==
  ASSUME NEW seats \in Seq(SeatRecord), Distinct(seats), SidsApart(seats), NEW old \in Sids, NEW s \in Sids,
         NEW x \in ToSet(seats), x.sid = old
  PROVE  LET new == Replaced(seats, old, s) IN
         /\ new \in Seq(SeatRecord) /\ Distinct(new)
         /\ Swapped(new, seats, x, Seat(s, x.who, FALSE))
<1> DEFINE new == Replaced(seats, old, s)
           i == IndexOf(seats, old)
<1>1. i \in DOMAIN seats /\ seats[i].sid = old
  BY IndexPoints DEF ToSet
<1>2. seats[i] = x /\ x \in SeatRecord
  BY <1>1, SessionsAssumption DEF ToSet, SidsApart
<1>3. Taken(x, s) \in SeatRecord /\ Taken(x, s).who = x.who /\ Taken(x, s) = Seat(s, x.who, FALSE)
  BY <1>2, SeatForm
<1>4. new = [j \in DOMAIN seats |-> IF j = i THEN Taken(seats[j], s) ELSE seats[j]]
  BY Zenon DEF Replaced, Taken
<1> HIDE DEF i
<1>5. new = Given(seats, i, Taken(x, s))
  BY <1>1, <1>2, <1>4 DEF Given
<1> QED
  <2> DEFINE y == Taken(x, s)
  <2>1. i \in DOMAIN seats /\ y \in SeatRecord /\ y.who = seats[i].who
    BY <1>1, <1>2, <1>3
  <2> HIDE DEF y
  <2>2. LET e == Given(seats, i, y) IN
        e \in Seq(SeatRecord) /\ Distinct(e) /\ ToSet(e) = (ToSet(seats) \ {seats[i]}) \cup {y}
    BY <2>1, OneSeat
  <2> QED
    BY <1>2, <1>3, <1>5, <2>2 DEF Swapped, y

LEMMA WithoutSeats ==
  ASSUME NEW seats \in Seq(SeatRecord), Distinct(seats), SidsApart(seats), NEW s \in Sids
  PROVE  LET new == Without(seats, s) IN
         /\ new \in Seq(SeatRecord) /\ Distinct(new)
         /\ ToSet(new) = {y \in ToSet(seats) : y.sid # s}
<1> DEFINE new == Without(seats, s)
           i == IndexOf(seats, s)
           n == Len(seats)
<1>1. CASE i = 0 /\ \A j \in DOMAIN seats : seats[j].sid # s
  BY <1>1 DEF Without, ToSet
<1>2. CASE i \in DOMAIN seats /\ seats[i].sid = s
  <2>1. n \in Nat /\ DOMAIN seats = 1 .. n /\ i \in 1 .. n
    BY <1>2
  <2>2. new = SubSeq(seats, 1, i - 1) \o SubSeq(seats, i + 1, n)
    <3>1. i # 0
      BY <2>1
    <3> QED
      BY <3>1 DEF Without, RemoveAt
  <2> HIDE DEF i, n, new
  <2> DEFINE a == SubSeq(seats, 1, i - 1)
             b == SubSeq(seats, i + 1, n)
  <2>3. /\ a \in Seq(SeatRecord) /\ Len(a) = i - 1 /\ \A j \in 1 .. i - 1 : a[j] = seats[j]
    BY <2>1 DEF n
  <2>10. b \in Seq(SeatRecord) /\ Len(b) = n - i /\ \A j \in 1 .. n - i : b[j] = seats[i + j]
    <3>1. b \in Seq(SeatRecord) /\ Len(b) = n - i
      <4>1. i + 1 \in 1 .. n + 1 /\ i + 1 \in Nat /\ n = Len(seats)
        BY <2>1 DEF n
      <4>2. CASE i = n
        BY <2>1, <4>1, <4>2
      <4>3. CASE i # n
        <5>1. i + 1 \in 1 .. n /\ i + 1 <= n
          BY <2>1, <4>3
        <5> QED
          BY <2>1, <4>1, <5>1
      <4> QED
        BY <4>2, <4>3
    <3>2. \A j \in 1 .. n - i : i + 1 + j - 1 = i + j /\ j \in 1 .. n - (i + 1) + 1
      BY <2>1
    <3>3. \A j \in 1 .. n - (i + 1) + 1 : b[j] = seats[(i + 1) + j - 1]
      BY <2>1 DEF n
    <3> QED
      BY <2>1, <3>1, <3>2, <3>3
  <2>4. /\ new \in Seq(SeatRecord) /\ Len(new) = n - 1
        /\ \A j \in 1 .. n - 1 : new[j] = seats[IF j < i THEN j ELSE j + 1]
    <3> HIDE DEF a, b
    <3>1. new = a \o b
      BY <2>2 DEF a, b
    <3>2. /\ new \in Seq(SeatRecord) /\ Len(new) = Len(a) + Len(b)
          /\ \A j \in 1 .. Len(a) + Len(b) : new[j] = IF j <= Len(a) THEN a[j] ELSE b[j - Len(a)]
      BY <2>3, <2>10, <3>1
    <3>3. \A j \in 1 .. n - 1 : j >= i => j - (i - 1) \in 1 .. n - i /\ i + (j - (i - 1)) = j + 1
      BY <2>1
    <3> QED
      BY <2>1, <2>3, <2>10, <3>2, <3>3
  <2>5. Distinct(new)
    <3> SUFFICES ASSUME NEW j \in 1 .. n - 1, NEW k \in 1 .. n - 1, new[j].who = new[k].who
                 PROVE  j = k
      BY <2>4 DEF Distinct
    <3> DEFINE at1 == IF j < i THEN j ELSE j + 1
               at2 == IF k < i THEN k ELSE k + 1
    <3>1. at1 \in DOMAIN seats /\ at2 \in DOMAIN seats
      BY <2>1
    <3>2. new[j] = seats[at1] /\ new[k] = seats[at2]
      BY <2>4
    <3>3. at1 = at2
      <4> HIDE DEF at1, at2
      <4> QED
        BY <3>1, <3>2 DEF Distinct
    <3> QED
      BY <2>1, <3>3
  <2>6. \A y \in ToSet(new) : y \in ToSet(seats) /\ y.sid # s
    <3> SUFFICES ASSUME NEW j \in 1 .. n - 1
                 PROVE  new[j] \in ToSet(seats) /\ new[j].sid # s
      BY <2>4 DEF ToSet
    <3> DEFINE k == IF j < i THEN j ELSE j + 1
    <3>1. k \in DOMAIN seats /\ k # i /\ new[j] = seats[k]
      BY <2>1, <2>4
    <3>2. seats[k] # seats[i] /\ seats[k] \in ToSet(seats) /\ seats[i] \in ToSet(seats)
      BY <2>1, <3>1 DEF ToSet, Distinct
    <3>3. seats[k].sid # s
      BY <1>2, <3>2, SessionsAssumption DEF SidsApart
    <3> QED
      BY <3>1, <3>2, <3>3
  <2>7. \A y \in ToSet(seats) : y.sid # s => y \in ToSet(new)
    <3> SUFFICES ASSUME NEW k \in 1 .. n, seats[k].sid # s
                 PROVE  seats[k] \in ToSet(new)
      BY <2>1 DEF ToSet
    <3>1. k # i
      BY <1>2
    <3>2. (IF k < i THEN k ELSE k - 1) \in 1 .. n - 1
      BY <2>1, <3>1
    <3>3. new[IF k < i THEN k ELSE k - 1] = seats[k]
      BY <2>1, <2>4, <3>1, <3>2
    <3> QED
      BY <2>4, <3>2, <3>3 DEF ToSet
  <2> QED
    BY <2>4, <2>5, <2>6, <2>7 DEF new
<1> QED
  BY <1>1, <1>2, IndexPoints

(* Who is left is among the seats, and the room is handed to one of them.   *)
LEMMA HandedOverToSeat ==
  ASSUME NEW room \in RoomRecord, room.seats # <<>>, SessionsTypeOK
  PROVE  /\ HandedOver(room) \in RoomRecord
         /\ \E x \in ToSet(room.seats) : x.sid = HandedOver(room).owner
         /\ HandedOver(room).kind = room.kind /\ HandedOver(room).stage = room.stage
         /\ HandedOver(room).seats = room.seats /\ HandedOver(room).late = room.late
<1> DEFINE I == {i \in 1 .. Len(room.seats) : ~room.seats[i].away}
           first == SelectInSeq(room.seats, LAMBDA x : ~x.away)
           place == IF first = 0 THEN 1 ELSE first
           heir == room.seats[place].sid
<1>1. room.seats \in Seq(SeatRecord) /\ Len(room.seats) \in Nat \ {0}
  BY DEF RoomRecord
<1>2. first = IF I # {} THEN Min(I) ELSE 0
  BY DEF SelectInSeq
<1>3. I # {} => Min(I) \in I
  <2>1. I \in SUBSET (1 .. Len(room.seats))
    OBVIOUS
  <2> HIDE DEF I
  <2> QED
    BY <1>1, <2>1, SmallestIs
<1>4. place \in DOMAIN room.seats
  BY <1>1, <1>2, <1>3
<1>5. room.seats[place] \in SeatRecord
  BY <1>1, <1>4
<1>6. room.seats[place] \in ToSet(room.seats) /\ heir \in Sids \cup {None}
  BY <1>4, <1>5 DEF ToSet, SeatRecord
<1> HIDE DEF first
<1>7. HandedOver(room) = [room EXCEPT !.owner = heir, !.ownerToken = IF heir \in Sids THEN mine[heir] ELSE None]
  BY DEF HandedOver, first
<1> HIDE DEF heir, place
<1>8. (IF heir \in Sids THEN mine[heir] ELSE None) \in Tokens \cup {None}
  BY DEF SessionsTypeOK
<1>9. /\ HandedOver(room) \in RoomRecord /\ HandedOver(room).owner = heir
      /\ HandedOver(room).kind = room.kind /\ HandedOver(room).stage = room.stage
      /\ HandedOver(room).seats = room.seats /\ HandedOver(room).late = room.late
  BY <1>6, <1>7, <1>8 DEF RoomRecord
<1> QED
  BY <1>6, <1>9 DEF heir

-----------------------------------------------------------------------------
(* Going.                                                                   *)

(* Nobody becomes anybody else, and who is registered stays who he is.      *)
Fades ==
  /\ auth' \in [Sids -> People \cup {None}] /\ conn' \in [Sids -> {"free", "open", "closing"}]
  /\ \A x \in Sids : /\ auth'[x] \in {auth[x], None}
                     /\ at'[x] # None => auth'[x] = auth[x] /\ conn'[x] # "free"

(* The tokens in `gone` are forgotten. *)
Forgets(gone) ==
  /\ token' = [t \in Tokens |-> IF t \in gone THEN NoToken ELSE token[t]]
  /\ grace' = [t \in Tokens |-> IF t \in gone THEN NoGrace ELSE grace[t]]
  /\ mine' \in [Sids -> Tokens \cup {None}]
  /\ \A x \in Sids : /\ mine'[x] \in {mine[x], None}
                     /\ mine[x] \in Tokens \ gone => mine'[x] = mine[x]
                     /\ mine[x] \in GuestTokens \cap gone => mine'[x] = None

Gone(S, R) == ({mine[s] : s \in S} \cap Tokens) \cup {t \in Tokens : grace[t].room \in R}

(* Forget leaves no connection with a guest's token that is gone. *)
LEMMA ForgetForgets ==
  ASSUME SessionsInv, NEW S \in SUBSET Sids, NEW R \in SUBSET Rooms, Forget(S, R)
  PROVE  Forgets(Gone(S, R)) /\ Gone(S, R) \in SUBSET Tokens
<1> DEFINE owned == {mine[s] : s \in S} \cap Tokens
           waiting == {t \in Tokens \ owned : grace[t].room \in R}
           gone == owned \cup waiting
<1>1. gone = Gone(S, R) /\ gone \in SUBSET Tokens
  BY DEF Gone
<1>2. /\ token' = [t \in Tokens |-> IF t \in gone THEN NoToken ELSE token[t]]
      /\ grace' = [t \in Tokens |-> IF t \in gone THEN NoGrace ELSE grace[t]]
      /\ mine' = [s \in Sids |-> IF s \in S \/ \E t \in waiting : grace[t].sid = s THEN None ELSE mine[s]]
  BY DEF Forget
<1>3. \A t \in waiting : grace[t] # NoGrace /\ grace[t].sid \in Sids /\ mine[grace[t].sid] = t
  BY SessionsAssumption DEF SessionsInv, SessionsTypeOK, GraceFits, NoGrace
<1>4. mine \in [Sids -> Tokens \cup {None}] /\ None \notin Tokens
  BY SessionsAssumption DEF SessionsInv, SessionsTypeOK, Tokens
<1>5. \A t \in GuestTokens : \A x, y \in Sids : mine[x] = t /\ mine[y] = t => x = y
  BY DEF SessionsInv, TokensFit
<1>6. ASSUME NEW x \in Sids
      PROVE  /\ mine'[x] \in {mine[x], None}
             /\ mine[x] \in Tokens \ gone => mine'[x] = mine[x]
             /\ mine[x] \in GuestTokens \cap gone => mine'[x] = None
  <2>1. mine'[x] = IF x \in S \/ \E t \in waiting : grace[t].sid = x THEN None ELSE mine[x]
    BY <1>2
  <2>2. mine[x] \in Tokens \ gone => x \notin S /\ ~\E t \in waiting : grace[t].sid = x
    BY <1>3
  <2>3. mine[x] \in GuestTokens \cap gone => x \in S \/ \E t \in waiting : grace[t].sid = x
    BY <1>3, <1>5
  <2> QED
    BY <2>1, <2>2, <2>3
<1>7. mine' \in [Sids -> Tokens \cup {None}]
  BY <1>2, <1>4
<1> QED
  BY <1>1, <1>2, <1>6, <1>7 DEF Forgets

LEMMA ForgetsTypes ==
  ASSUME SessionsTypeOK, NEW gone \in SUBSET Tokens, Forgets(gone)
  PROVE  /\ token' \in [Tokens -> TokenRecord \cup {NoToken}] /\ mine' \in [Sids -> Tokens \cup {None}]
         /\ \A t \in Tokens : grace'[t] # NoGrace => grace'[t].room \in Rooms /\ grace'[t].sid \in Sids
         /\ grace' = [t \in Tokens |-> grace'[t]]
BY DEF SessionsTypeOK, Forgets

(* Connections only leave rooms, and their tokens with them. *)
Wanes(gone) ==
  \A x \in Sids :
    /\ at'[x] \in {at[x], None}
    /\ at[x] # None /\ at'[x] = None /\ mine[x] # None => mine[x] \in gone
    /\ at'[x] # None => \A y \in ToSet(rooms'[at[x]].seats) :
         y.sid = x => \E z \in SeatsOf(at[x]) : z.sid = x /\ z.who = y.who

LEMMA TokensWane ==
  ASSUME SessionsInv, NEW gone \in SUBSET Tokens, Forgets(gone), Wanes(gone), Fades
  PROVE  TokensFit'
<1> USE SessionsAssumption
<1>1. SessionsTypeOK /\ TokensFit /\ None \notin Tokens /\ None \notin Sids
  BY DEF SessionsInv, Tokens
<1>2. \A t \in Tokens : token[t] # NoToken => token[t].sid \in Sids
  BY <1>1 DEF SessionsTypeOK, TokenRecord
<1>3. \A t \in Tokens : token'[t] # NoToken => t \notin gone /\ token'[t] = token[t] /\ token[t] # NoToken
  BY DEF Forgets
<1>4. ASSUME NEW t \in Tokens, token'[t] # NoToken
      PROVE  /\ IF t \in Users THEN token'[t].who = t ELSE token'[t].who \in Guests
             /\ mine'[token'[t].sid] = t
             /\ auth'[token'[t].sid] # None => auth'[token'[t].sid] = token'[t].who
  BY <1>1, <1>2, <1>3, <1>4 DEF TokensFit, Forgets, Fades
<1>5. ASSUME NEW s \in Sids, mine'[s] \in GuestTokens
      PROVE  token'[mine'[s]] # NoToken /\ token'[mine'[s]].sid = s
  <2>1. mine'[s] = mine[s] /\ mine[s] \in Tokens /\ mine[s] \notin gone
    BY <1>1, <1>5 DEF Forgets, Tokens
  <2>2. token'[mine[s]] = token[mine[s]]
    BY <2>1 DEF Forgets
  <2> QED
    BY <1>1, <1>5, <2>1, <2>2 DEF TokensFit
<1>6. ASSUME NEW t \in GuestTokens, token'[t] # NoToken
      PROVE  grace'[t] # NoGrace \/ at'[token'[t].sid] # None
  <2>1. t \in Tokens /\ t \notin gone /\ token'[t] = token[t] /\ grace'[t] = grace[t] /\ token[t] # NoToken
    BY <1>3, <1>6 DEF Forgets, Tokens
  <2>2. token[t].sid \in Sids /\ mine[token[t].sid] = t
    BY <1>1, <1>2, <2>1 DEF TokensFit
  <2> QED
    BY <1>1, <2>1, <2>2 DEF TokensFit, Wanes
<1>7. ASSUME NEW s \in Sids, mine'[s] # None, at'[s] # None, NEW y \in ToSet(rooms'[at'[s]].seats), y.sid = s
      PROVE  y.who = OwnerOf(mine[s])'
  <2>1. at'[s] = at[s] /\ mine'[s] = mine[s] /\ mine[s] \in Tokens /\ at[s] # None
    BY <1>1, <1>7 DEF Wanes, Forgets, SessionsTypeOK
  <2>2. PICK z \in SeatsOf(at[s]) : z.sid = s /\ z.who = y.who
    BY <1>7, <2>1 DEF Wanes
  <2>3. z.who = OwnerOf(mine[s])
    BY <1>1, <1>7, <2>1, <2>2 DEF TokensFit
  <2>4. mine[s] \in GuestTokens => token'[mine[s]] = token[mine[s]]
    BY <1>7, <2>1, <1>1 DEF Forgets
  <2>5. OwnerOf(mine[s])' = IF mine[s] \in Users THEN mine[s] ELSE token'[mine[s]].who
    BY <2>1 DEF OwnerOf
  <2> QED
    BY <2>1, <2>2, <2>3, <2>4, <2>5 DEF OwnerOf, Tokens
<1> QED
  BY <1>4, <1>5, <1>6, <1>7 DEF TokensFit, SeatsOf

LEMMA SeatTyped ==
  ASSUME SessionsTypeOK, NEW r \in Rooms, NEW x \in SeatsOf(r)
  PROVE  x \in SeatRecord /\ x.sid \in Sids \cup {None} /\ x.who \in People /\ x.away \in BOOLEAN
<1>1. rooms[r].seats \in Seq(SeatRecord)
  BY DEF SessionsTypeOK, RoomRecord
<1>2. x \in SeatRecord
  BY <1>1 DEF SeatsOf, ToSet
<1> QED
  BY <1>2 DEF SeatRecord

(* The seats that are kept for the tokens left stay. *)
LEMMA GraceWanes ==
  ASSUME SessionsInv, NEW gone \in SUBSET Tokens, Forgets(gone), \A x \in Sids : at'[x] \in {at[x], None},
         \A t \in Tokens : t \notin gone /\ grace[t] # NoGrace =>
            /\ rooms'[grace[t].room].kind = rooms[grace[t].room].kind
            /\ \A x \in SeatsOf(grace[t].room) : x.sid = grace[t].sid => x \in ToSet(rooms'[grace[t].room].seats)
  PROVE  GraceFits'
<1> USE SessionsAssumption
<1> SUFFICES ASSUME NEW t \in Tokens, grace'[t] # NoGrace
             PROVE  /\ mine'[grace'[t].sid] = t /\ at'[grace'[t].sid] = None
                    /\ \E x \in ToSet(rooms'[grace'[t].room].seats) :
                         /\ x.sid = grace'[t].sid /\ x.who = OwnerOf(t)'
                         /\ x.away \/ rooms'[grace'[t].room].kind = "restored"
  BY DEF GraceFits, SeatsOf
<1>1. t \notin gone /\ grace'[t] = grace[t] /\ grace[t] # NoGrace /\ token'[t] = token[t]
  BY DEF Forgets
<1>2. grace[t].sid \in Sids /\ mine[grace[t].sid] = t /\ at[grace[t].sid] = None
  BY <1>1 DEF SessionsInv, SessionsTypeOK, GraceFits
<1>3. PICK x \in SeatsOf(grace[t].room) : /\ x.sid = grace[t].sid /\ x.who = OwnerOf(t)
                                          /\ x.away \/ rooms[grace[t].room].kind = "restored"
  BY <1>1 DEF SessionsInv, GraceFits
<1>4. OwnerOf(t)' = OwnerOf(t)
  BY <1>1 DEF OwnerOf
<1>5. mine'[grace[t].sid] = t /\ at'[grace[t].sid] = None
  BY <1>1, <1>2 DEF Forgets
<1> QED
  BY <1>1, <1>3, <1>4, <1>5

(* Connection s goes: its seat, if it plays one, is left or given up; all   *)
(* other seats stay.                                                        *)
Recedes(s) ==
  /\ at' = [at EXCEPT ![s] = None]
  /\ rooms' \in [Rooms -> RoomRecord]
  /\ \A q \in Rooms :
       /\ rooms'[q].kind = rooms[q].kind /\ rooms'[q].stage = rooms[q].stage /\ rooms'[q].late = rooms[q].late
       /\ rooms[q] = NoRoom => rooms'[q] = NoRoom
       /\ Distinct(rooms'[q].seats)
       /\ \A y \in ToSet(rooms'[q].seats) :
            \/ y \in SeatsOf(q) /\ (y.sid = s => at[s] = None)
            \/ y.sid = s /\ y.away /\ \E x \in SeatsOf(q) : x.sid = s /\ x.who = y.who
       /\ \A y \in SeatsOf(q) : y.sid # s => y \in ToSet(rooms'[q].seats)

LEMMA RecedeSeats ==
  ASSUME SessionsInv, NEW s \in Sids, Recedes(s), Fades
  PROVE  SeatsApart' /\ RoomsFit' /\ Seated'
<1> USE SessionsAssumption
<1> DEFINE New(q) == ToSet(rooms'[q].seats)
<1>1. SessionsTypeOK /\ SeatsApart /\ RoomsFit /\ Seated /\ None \notin Sids
  BY DEF SessionsInv
<1>2. \A q \in Rooms : \A y \in New(q) : \E x \in SeatsOf(q) : x.sid = y.sid /\ x.who = y.who
  BY DEF Recedes
<1>3. ASSUME NEW r \in Rooms, NEW q \in Rooms, NEW x \in New(r), NEW y \in New(q), x.sid = y.sid, x.sid # None
      PROVE  r = q /\ x = y
  <2>1. PICK a \in SeatsOf(r), b \in SeatsOf(q) : a.sid = x.sid /\ a.who = x.who /\ b.sid = y.sid /\ b.who = y.who
    BY <1>2
  <2>2. r = q /\ a = b
    BY <1>1, <1>3, <2>1 DEF SeatsApart
  <2>3. Distinct(rooms'[r].seats) /\ x.who = y.who
    BY <2>1, <2>2 DEF Recedes
  <2> QED
    BY <2>2, <2>3 DEF Distinct, ToSet
<1>4. SeatsApart'
  BY <1>3 DEF SeatsApart, Recedes, SeatsOf
<1>5. RoomsFit'
  <2> SUFFICES ASSUME NEW r \in Rooms
               PROVE  /\ rooms'[r].stage = "none" \/ rooms'[r].kind = "none" => rooms'[r] = NoRoom
                      /\ rooms'[r].kind = "restored" => \A x \in New(r) : x.who \in Saved
                      /\ rooms'[r].late # {} => rooms'[r].kind = "restored" /\ rooms'[r].stage \in {"running", "over"}
                      /\ \A x \in New(r) : x.who \in rooms'[r].late => x.sid = None
    BY DEF RoomsFit, SeatsOf
  <2>1. /\ rooms'[r].kind = rooms[r].kind /\ rooms'[r].stage = rooms[r].stage /\ rooms'[r].late = rooms[r].late
        /\ rooms[r] = NoRoom => rooms'[r] = NoRoom
    BY DEF Recedes
  <2> QED
    BY <1>1, <1>2, <2>1 DEF RoomsFit
<1>6. ASSUME NEW x \in Sids, at'[x] # None
      PROVE  /\ auth'[x] # None /\ conn'[x] # "free"
             /\ \E y \in New(at'[x]) : y.sid = x /\ ~y.away
  <2>1. x # s /\ at'[x] = at[x] /\ at[x] # None /\ at[x] \in Rooms
    BY <1>1, <1>6 DEF Recedes, SessionsTypeOK
  <2>2. PICK y \in SeatsOf(at[x]) : y.sid = x /\ ~y.away
    BY <1>1, <2>1 DEF Seated
  <2>3. y \in New(at[x])
    BY <2>1, <2>2 DEF Recedes
  <2> QED
    BY <1>1, <1>6, <2>1, <2>2, <2>3 DEF Seated, Fades
<1>7. ASSUME NEW r \in Rooms, NEW y \in New(r)
      PROVE  /\ ~y.away /\ rooms'[r].kind # "restored" => y.sid # None /\ at'[y.sid] = r
             /\ y.sid # None /\ auth'[y.sid] # None => y.who = auth'[y.sid]
  <2>1. PICK x \in SeatsOf(r) : x.sid = y.sid /\ x.who = y.who
    BY <1>2
  <2>2. y.sid # None => y.sid \in Sids
    BY <1>1, <2>1, SeatTyped
  <2>3. ~y.away => y \in SeatsOf(r) /\ (y.sid = s => at[s] = None)
    BY DEF Recedes
  <2>4. ~y.away /\ rooms'[r].kind # "restored" => y.sid # None /\ at'[y.sid] = r
    BY <1>1, <2>2, <2>3 DEF Seated, Recedes, SessionsTypeOK
  <2>5. y.sid # None /\ auth'[y.sid] # None => y.who = auth'[y.sid]
    BY <1>1, <2>1, <2>2 DEF Seated, Fades
  <2> QED
    BY <2>4, <2>5
<1>8. Seated'
  BY <1>6, <1>7 DEF Seated, SeatsOf
<1> QED
  BY <1>4, <1>5, <1>8

(* The seat is left, and its token keeps it (mark_disconnected). *)
LEMMA RecedeRemembers ==
  ASSUME SessionsInv, NEW s \in Sids, Recedes(s), Fades, NEW r \in Rooms, at[s] = r,
         \E y \in ToSet(rooms'[r].seats) : y.sid = s,
         IF mine[s] # None THEN Remember(mine[s], s, r) ELSE UNCHANGED tables
  PROVE  TokensFit' /\ GraceFits'
<1> USE SessionsAssumption
<1>1. SessionsTypeOK /\ TokensFit /\ GraceFits /\ SeatsApart /\ Seated /\ None \notin Sids /\ None \notin Rooms
  BY DEF SessionsInv
<1>2. UNCHANGED <<token, mine>> /\ \A t \in Tokens : t # mine[s] => grace'[t] = grace[t]
  BY <1>1 DEF Remember, tables, SessionsTypeOK
<1>3. mine[s] # None => /\ mine[s] \in Tokens /\ grace'[mine[s]] # NoGrace
                        /\ grace'[mine[s]].sid = s /\ grace'[mine[s]].room = r
  <2> SUFFICES ASSUME mine[s] # None
               PROVE  /\ mine[s] \in Tokens /\ grace'[mine[s]] # NoGrace
                      /\ grace'[mine[s]].sid = s /\ grace'[mine[s]].room = r
    OBVIOUS
  <2>1. mine[s] \in Tokens
    BY <1>1 DEF SessionsTypeOK
  <2>2. grace'[mine[s]] = [room |-> r, sid |-> s, seq |-> NextSeq]
    BY <1>1, <2>1 DEF Remember, SessionsTypeOK
  <2> QED
    BY <1>1, <2>1, <2>2 DEF NoGrace
<1>4. \A x \in Sids : at'[x] = IF x = s THEN None ELSE at[x]
  BY <1>1 DEF Recedes, SessionsTypeOK
<1>5. \A t : OwnerOf(t)' = OwnerOf(t)
  BY <1>2 DEF OwnerOf
<1>6. ASSUME NEW t \in GuestTokens, token[t] # NoToken
      PROVE  grace'[t] # NoGrace \/ at'[token[t].sid] # None
  <2>1. token[t].sid \in Sids /\ mine[token[t].sid] = t /\ t \in Tokens
    BY <1>1, <1>6 DEF TokensFit, SessionsTypeOK, TokenRecord, Tokens
  <2>2. CASE token[t].sid = s
    BY <1>1, <1>3, <2>1, <2>2 DEF SessionsTypeOK, Tokens
  <2>3. CASE token[t].sid # s
    <3>1. CASE t = mine[s]
      BY <1>1, <1>3, <3>1, <2>1 DEF Tokens
    <3>2. CASE t # mine[s]
      BY <1>1, <1>2, <1>4, <1>6, <2>1, <2>3, <3>2 DEF TokensFit
    <3> QED
      BY <3>1, <3>2
  <2> QED
    BY <2>2, <2>3
<1>7. ASSUME NEW x \in Sids, mine[x] # None, at'[x] # None, NEW y \in ToSet(rooms'[at'[x]].seats), y.sid = x
      PROVE  y.who = OwnerOf(mine[x])
  <2>1. x # s /\ at'[x] = at[x] /\ at[x] \in Rooms
    BY <1>1, <1>4, <1>7 DEF SessionsTypeOK
  <2>2. y \in SeatsOf(at[x])
    BY <1>7, <2>1 DEF Recedes
  <2> QED
    BY <1>1, <1>7, <2>1, <2>2 DEF TokensFit
<1>8. \A t \in Tokens : token[t] # NoToken /\ auth'[token[t].sid] # None => auth'[token[t].sid] = token[t].who
  <2> SUFFICES ASSUME NEW t \in Tokens, token[t] # NoToken, auth'[token[t].sid] # None
               PROVE  auth'[token[t].sid] = token[t].who
    OBVIOUS
  <2>1. token[t].sid \in Sids
    BY <1>1 DEF SessionsTypeOK, TokenRecord
  <2> QED
    BY <1>1, <2>1 DEF TokensFit, Fades
<1>9. TokensFit'
  <2>1. \A t \in Tokens : token[t] # NoToken =>
          /\ IF t \in Users THEN token[t].who = t ELSE token[t].who \in Guests
          /\ mine[token[t].sid] = t
    BY <1>1 DEF TokensFit
  <2>2. \A x \in Sids : mine[x] \in GuestTokens => token[mine[x]] # NoToken /\ token[mine[x]].sid = x
    BY <1>1 DEF TokensFit
  <2> QED
    BY <1>2, <1>5, <1>6, <1>7, <1>8, <2>1, <2>2 DEF TokensFit, SeatsOf
<1>10. ASSUME NEW t \in Tokens, grace'[t] # NoGrace
       PROVE  /\ mine[grace'[t].sid] = t /\ at'[grace'[t].sid] = None
              /\ \E x \in ToSet(rooms'[grace'[t].room].seats) :
                   /\ x.sid = grace'[t].sid /\ x.who = OwnerOf(t)
                   /\ x.away \/ rooms'[grace'[t].room].kind = "restored"
  <2>1. CASE t = mine[s]
    <3>1. t # None /\ grace'[t].sid = s /\ grace'[t].room = r
      BY <1>1, <1>3, <2>1 DEF Tokens
    <3>2. PICK y \in ToSet(rooms'[r].seats) : y.sid = s
      OBVIOUS
    <3>3. y.away /\ \E x \in SeatsOf(r) : x.sid = s /\ x.who = y.who
      BY <1>1, <3>2 DEF Recedes
    <3>4. y.who = OwnerOf(t)
      BY <1>1, <2>1, <3>1, <3>3 DEF TokensFit
    <3> QED
      BY <1>4, <2>1, <3>1, <3>2, <3>3, <3>4
  <2>2. CASE t # mine[s]
    <3>1. grace'[t] = grace[t] /\ grace[t] # NoGrace
      BY <1>2, <1>10, <2>2
    <3>2. grace[t].sid \in Sids /\ grace[t].room \in Rooms /\ mine[grace[t].sid] = t /\ at[grace[t].sid] = None
      BY <1>1, <3>1 DEF GraceFits, SessionsTypeOK
    <3>3. PICK x \in SeatsOf(grace[t].room) : /\ x.sid = grace[t].sid /\ x.who = OwnerOf(t)
                                              /\ x.away \/ rooms[grace[t].room].kind = "restored"
      BY <1>1, <3>1 DEF GraceFits
    <3>4. x.sid # s
      BY <2>2, <3>2, <3>3
    <3>5. x \in ToSet(rooms'[grace[t].room].seats) /\ rooms'[grace[t].room].kind = rooms[grace[t].room].kind
      BY <3>2, <3>4 DEF Recedes
    <3> QED
      BY <1>4, <3>1, <3>2, <3>3, <3>5
  <2> QED
    BY <2>1, <2>2
<1>11. GraceFits'
  BY <1>2, <1>5, <1>10 DEF GraceFits, SeatsOf
<1> QED
  BY <1>9, <1>11

(* The seat is left or given up, and so is the token. *)
LEMMA RecedeForgets ==
  ASSUME SessionsInv, NEW s \in Sids, Recedes(s), Fades, Forget({s}, {})
  PROVE  TokensFit' /\ GraceFits'
<1> USE SessionsAssumption
<1> DEFINE gone == Gone({s}, {})
<1>1. SessionsTypeOK /\ None \notin Sids /\ None \notin Tokens
  BY DEF SessionsInv, Tokens
<1>2. Forgets(gone) /\ gone \in SUBSET Tokens
  BY ForgetForgets
<1>3. \A t \in Tokens : t \in gone <=> t = mine[s]
  BY DEF Gone
<1>4. mine[s] # None => mine[s] \in Tokens
  BY <1>1 DEF SessionsTypeOK
<1>5. \A x \in Sids : at'[x] = IF x = s THEN None ELSE at[x]
  BY <1>1 DEF Recedes, SessionsTypeOK
<1>6. \A q \in Rooms : \A y \in ToSet(rooms'[q].seats) : \E z \in SeatsOf(q) : z.sid = y.sid /\ z.who = y.who
  BY DEF Recedes
<1> HIDE DEF gone
<1>7. Wanes(gone)
  <2> SUFFICES ASSUME NEW x \in Sids
               PROVE  /\ at'[x] \in {at[x], None}
                      /\ at[x] # None /\ at'[x] = None /\ mine[x] # None => mine[x] \in gone
                      /\ at'[x] # None => \A y \in ToSet(rooms'[at[x]].seats) :
                           y.sid = x => \E z \in SeatsOf(at[x]) : z.sid = x /\ z.who = y.who
    BY DEF Wanes
  <2>1. at[x] # None => at[x] \in Rooms
    BY <1>1 DEF SessionsTypeOK
  <2> QED
    BY <1>3, <1>4, <1>5, <1>6, <2>1
<1>8. TokensFit'
  BY <1>2, <1>7, TokensWane
<1>9. ASSUME NEW t \in Tokens, t \notin gone, grace[t] # NoGrace
      PROVE  /\ rooms'[grace[t].room].kind = rooms[grace[t].room].kind
             /\ \A x \in SeatsOf(grace[t].room) : x.sid = grace[t].sid => x \in ToSet(rooms'[grace[t].room].seats)
  <2>1. grace[t].room \in Rooms /\ mine[grace[t].sid] = t
    BY <1>9 DEF SessionsInv, SessionsTypeOK, GraceFits
  <2>2. grace[t].sid # s
    BY <1>3, <1>9, <2>1
  <2> QED
    BY <2>1, <2>2 DEF Recedes
<1> QED
  BY <1>2, <1>5, <1>8, <1>9, GraceWanes

(* Room r closes: whoever was there is not any more, and has no token. *)
LEMMA CloseKeeps ==
  ASSUME SessionsInv, NEW r \in Rooms, NEW S \in SUBSET Sids, Closed(r), Forget(S, {r}), Fades,
         \A x \in Sids : at[x] = r => x \in S,
         at' \in [Sids -> Rooms \cup {None}], \A x \in Sids : at'[x] = IF at[x] = r THEN None ELSE at[x]
  PROVE  SessionsInv'
<1> USE SessionsAssumption
<1> DEFINE gone == Gone(S, {r})
           New(q) == ToSet(rooms'[q].seats)
<1>1. SessionsTypeOK /\ SeatsApart /\ RoomsFit /\ Seated /\ OwnerSits /\ None \notin Sids /\ None \notin Tokens
  BY DEF SessionsInv, Tokens
<1>2. Forgets(gone) /\ gone \in SUBSET Tokens
  BY ForgetForgets
<1>3. NoRoom \in RoomRecord /\ NoRoom.kind = "none" /\ NoRoom.stage = "none" /\ NoRoom.seats = << >> /\ NoRoom.late = {}
  BY DEF NoRoom, RoomRecord
<1>4. /\ rooms' \in [Rooms -> RoomRecord] /\ rooms'[r] = NoRoom
      /\ \A q \in Rooms : q # r => rooms'[q] = rooms[q]
  BY <1>1, <1>3 DEF Closed, SessionsTypeOK
<1>5. New(r) = {} /\ \A q \in Rooms : q # r => New(q) = SeatsOf(q)
  BY <1>3, <1>4 DEF ToSet, SeatsOf
<1>6. SessionsTypeOK'
  BY <1>1, <1>2, <1>4, ForgetsTypes DEF SessionsTypeOK, Fades
<1> HIDE DEF New
<1>7. \A q \in Rooms : Distinct(rooms'[q].seats)
  BY <1>1, <1>3, <1>4 DEF SeatsApart, Distinct
<1>8. \A q, p \in Rooms : \A x \in New(q), y \in New(p) : x.sid = y.sid /\ x.sid # None => q = p /\ x = y
  BY <1>1, <1>5 DEF SeatsApart
<1>9. SeatsApart'
  BY <1>7, <1>8 DEF SeatsApart, SeatsOf, New
<1>10. RoomsFit'
  BY <1>1, <1>3, <1>4, <1>5 DEF RoomsFit, SeatsOf, New
<1>11. ASSUME NEW x \in Sids, at'[x] # None
       PROVE  /\ auth'[x] # None /\ conn'[x] # "free"
              /\ \E y \in New(at'[x]) : y.sid = x /\ ~y.away
  <2>1. at'[x] = at[x] /\ at[x] # None /\ at[x] \in Rooms /\ at[x] # r
    BY <1>1, <1>11 DEF SessionsTypeOK
  <2>2. \E y \in SeatsOf(at[x]) : y.sid = x /\ ~y.away
    BY <1>1, <2>1 DEF Seated
  <2> QED
    BY <1>1, <1>5, <1>11, <2>1, <2>2 DEF Seated, Fades
<1>12. ASSUME NEW q \in Rooms, NEW y \in New(q)
       PROVE  /\ ~y.away /\ rooms'[q].kind # "restored" => y.sid # None /\ at'[y.sid] = q
              /\ y.sid # None /\ auth'[y.sid] # None => y.who = auth'[y.sid]
  <2>1. q # r /\ y \in SeatsOf(q) /\ rooms'[q] = rooms[q]
    BY <1>4, <1>5, <1>12
  <2>2. y.sid # None => y.sid \in Sids
    BY <1>1, <2>1, SeatTyped
  <2> QED
    BY <1>1, <2>1, <2>2 DEF Seated, Fades
<1>13. Seated'
  BY <1>11, <1>12 DEF Seated, SeatsOf, New
<1>14. \A x \in Sids : mine[x] # None => mine[x] \in Tokens
  BY <1>1 DEF SessionsTypeOK
<1>15. \A x \in S : mine[x] \in Tokens => mine[x] \in gone
  BY DEF Gone
<1>16. \A t \in Tokens : grace[t].room = r => t \in gone
  BY DEF Gone
<1> HIDE DEF gone
<1>17. Wanes(gone)
  <2> SUFFICES ASSUME NEW x \in Sids
               PROVE  /\ at'[x] \in {at[x], None}
                      /\ at[x] # None /\ at'[x] = None /\ mine[x] # None => mine[x] \in gone
                      /\ at'[x] # None => \A y \in New(at[x]) :
                           y.sid = x => \E z \in SeatsOf(at[x]) : z.sid = x /\ z.who = y.who
    BY DEF Wanes, New
  <2>1. at'[x] # None => at[x] \in Rooms /\ at[x] # r
    BY <1>1 DEF SessionsTypeOK
  <2> QED
    BY <1>5, <1>14, <1>15, <2>1
<1>18. TokensFit'
  BY <1>2, <1>17, TokensWane
<1>19. ASSUME NEW t \in Tokens, t \notin gone, grace[t] # NoGrace
       PROVE  /\ rooms'[grace[t].room].kind = rooms[grace[t].room].kind
              /\ \A x \in SeatsOf(grace[t].room) : x.sid = grace[t].sid => x \in New(grace[t].room)
  <2>1. grace[t].room \in Rooms /\ grace[t].room # r
    BY <1>1, <1>16, <1>19 DEF SessionsTypeOK
  <2> QED
    BY <1>4, <1>5, <2>1
<1>20. GraceFits'
  BY <1>2, <1>19, GraceWanes DEF New
<1>21. OwnerSits'
  BY <1>1, <1>3, <1>4, <1>5 DEF OwnerSits, SeatsOf, New
<1> QED
  BY <1>6, <1>9, <1>10, <1>13, <1>18, <1>20, <1>21 DEF SessionsInv

(* Where a connection has a seat it is in that room or in none. *)
LEMMA SeatThere ==
  ASSUME SessionsInv, NEW r \in Rooms, NEW x \in SeatsOf(r), x.sid # None
  PROVE  x.sid \in Sids /\ at[x.sid] \in {r, None}
<1>1. x.sid \in Sids
  BY SeatTyped DEF SessionsInv
<1>2. ASSUME at[x.sid] # None
      PROVE  at[x.sid] = r
  <2>1. at[x.sid] \in Rooms
    BY <1>1, <1>2 DEF SessionsInv, SessionsTypeOK
  <2>2. PICK y \in SeatsOf(at[x.sid]) : y.sid = x.sid
    BY <1>1, <1>2 DEF SessionsInv, Seated
  <2> QED
    BY <2>1, <2>2 DEF SessionsInv, SeatsApart
<1> QED
  BY <1>1, <1>2

(* Whoever is registered in a room plays one seat there. *)
LEMMA OneOwnSeat ==
  ASSUME SessionsInv, NEW s \in Sids, at[s] # None
  PROVE  /\ at[s] \in Rooms /\ conn[s] # "free"
         /\ \E x \in SeatsOf(at[s]) : x.sid = s /\ ~x.away /\ \A y \in SeatsOf(at[s]) : y.sid = s => y = x
<1>1. at[s] \in Rooms /\ conn[s] # "free"
  BY DEF SessionsInv, SessionsTypeOK, Seated
<1>2. PICK x \in SeatsOf(at[s]) : x.sid = s /\ ~x.away
  BY DEF SessionsInv, Seated
<1>3. s # None
  BY SessionsAssumption
<1> QED
  BY <1>1, <1>2, <1>3 DEF SessionsInv, SeatsApart

(* What the others keep when s leaves its seat, or gives it up. *)
SeatLeft(new, seats, s) ==
  /\ new \in Seq(SeatRecord) /\ Distinct(new)
  /\ \A y \in ToSet(new) : \/ y \in ToSet(seats) /\ (y.sid = s => at[s] = None)
                           \/ y.sid = s /\ y.away /\ \E x \in ToSet(seats) : x.sid = s /\ x.who = y.who
  /\ \A y \in ToSet(seats) : y.sid # s => y \in ToSet(new)

LEMMA RoomSeats ==
  ASSUME SessionsInv, NEW r \in Rooms
  PROVE  rooms[r] \in RoomRecord /\ rooms[r].seats \in Seq(SeatRecord) /\ Distinct(rooms[r].seats) /\ SidsApart(rooms[r].seats)
BY DEF SessionsInv, SessionsTypeOK, RoomRecord, SeatsApart, SidsApart, SeatsOf

(* a room that differs in its seats and its owner only *)
SameRoom(new, room) ==
  new \in RoomRecord /\ new.kind = room.kind /\ new.stage = room.stage /\ new.late = room.late

LEMMA RoomRecedes ==
  ASSUME SessionsInv, NEW r \in Rooms, NEW s \in Sids, NEW new, SameRoom(new, rooms[r]),
         rooms' = [rooms EXCEPT ![r] = new], at' = [at EXCEPT ![s] = None],
         rooms[r].stage # "none", at[s] \in {r, None}, SeatLeft(new.seats, rooms[r].seats, s)
  PROVE  Recedes(s) /\ SessionsTypeOK /\ rooms'[r] = new /\ \A q \in Rooms \ {r} : rooms'[q] = rooms[q]
<1>1. SessionsTypeOK /\ s # None
  BY SessionsAssumption DEF SessionsInv
<1>2. rooms' \in [Rooms -> RoomRecord] /\ rooms'[r] = new /\ \A q \in Rooms : q # r => rooms'[q] = rooms[q]
  BY <1>1 DEF SessionsTypeOK, SameRoom
<1>3. rooms[r] # NoRoom
  BY DEF NoRoom
<1>4. \A q \in Rooms : \A y \in SeatsOf(q) : y.sid = s => at[s] \in {q, None}
  BY <1>1, SeatThere
<1>5. ASSUME NEW q \in Rooms, q # r
      PROVE  /\ Distinct(rooms'[q].seats)
             /\ \A y \in ToSet(rooms'[q].seats) : y \in SeatsOf(q) /\ (y.sid = s => at[s] = None)
             /\ \A y \in SeatsOf(q) : y \in ToSet(rooms'[q].seats)
  <2>1. ToSet(rooms'[q].seats) = SeatsOf(q) /\ Distinct(rooms'[q].seats)
    BY <1>2, <1>5, RoomSeats DEF SeatsOf
  <2> QED
    BY <1>4, <1>5, <2>1
<1>6. /\ Distinct(rooms'[r].seats)
      /\ \A y \in ToSet(rooms'[r].seats) :
            \/ y \in SeatsOf(r) /\ (y.sid = s => at[s] = None)
            \/ y.sid = s /\ y.away /\ \E x \in SeatsOf(r) : x.sid = s /\ x.who = y.who
      /\ \A y \in SeatsOf(r) : y.sid # s => y \in ToSet(rooms'[r].seats)
  BY <1>2 DEF SeatLeft, SeatsOf
<1>7. \A q \in Rooms :
        /\ rooms'[q].kind = rooms[q].kind /\ rooms'[q].stage = rooms[q].stage /\ rooms'[q].late = rooms[q].late
        /\ rooms[q] = NoRoom => rooms'[q] = NoRoom
  BY <1>2, <1>3 DEF SameRoom
<1>8. Recedes(s)
  BY <1>2, <1>5, <1>6, <1>7 DEF Recedes
<1> QED
  BY <1>1, <1>2, <1>8

(* Whoever stays, his name stays; s loses it with its seat. *)
LEMMA NamesFade ==
  ASSUME SessionsInv, NEW s, auth' \in {auth, [auth EXCEPT ![s] = None]}, conn' \in {conn, [conn EXCEPT ![s] = "free"]},
         \A x \in Sids : at'[x] \in {at[x], None} /\ (x = s => at'[x] = None)
  PROVE  Fades
BY DEF SessionsInv, SessionsTypeOK, Seated, Fades

LEMMA NamesStay ==
  ASSUME SessionsInv, auth' = auth, conn' = conn, \A x \in Sids : at'[x] \in {at[x], None}
  PROVE  Fades
BY DEF SessionsInv, SessionsTypeOK, Seated, Fades

(* mark_disconnected *)
LEMMA AwayKeeps ==
  ASSUME SessionsInv, NEW s \in Sids, NEW r \in Rooms, at[s] = r, Fades,
         NEW new, SameRoom(new, rooms[r]), new.owner = rooms[r].owner, new.seats = Away(rooms[r].seats, s),
         rooms' = [rooms EXCEPT ![r] = new], at' = [at EXCEPT ![s] = None],
         IF mine[s] # None THEN Remember(mine[s], s, r) ELSE UNCHANGED tables
  PROVE  SessionsInv'
<1> DEFINE seats == Away(rooms[r].seats, s)
<1>1. SessionsTypeOK /\ SeatsApart /\ OwnerSits /\ RoomsFit /\ None \notin Sids /\ None \notin Rooms
  BY SessionsAssumption DEF SessionsInv
<1>2. PICK x \in SeatsOf(r) : x.sid = s
  BY <1>1, OneOwnSeat
<1>3. rooms[r].stage # "none"
  BY <1>1, <1>2 DEF RoomsFit, NoRoom, SeatsOf, ToSet
<1>4. SeatLeft(seats, rooms[r].seats, s) /\ seats \in Seq(SeatRecord) /\ \E y \in ToSet(seats) : y.sid = s
  <2>1. \E y \in ToSet(rooms[r].seats) : y.sid = s
    BY <1>2 DEF SeatsOf
  <2> QED
    BY <2>1, RoomSeats, AwaySeats DEF SeatLeft
<1>5. new.kind = rooms[r].kind /\ new.seats = seats /\ new.owner = rooms[r].owner
  BY DEF SameRoom
<1> HIDE DEF seats
<1>7. Recedes(s) /\ rooms'[r] = new /\ \A q \in Rooms \ {r} : rooms'[q] = rooms[q]
  BY <1>3, <1>4, <1>5, RoomRecedes, Zenon
<1>8. TokensFit' /\ GraceFits'
  BY <1>4, <1>5, <1>7, RecedeRemembers
<1>9. SeatsApart' /\ RoomsFit' /\ Seated'
  BY <1>7, RecedeSeats
<1>10. OwnerSits'
  <2> SUFFICES ASSUME NEW q \in Rooms, rooms'[q].kind = "normal"
               PROVE  \E y \in ToSet(rooms'[q].seats) : y.sid = rooms'[q].owner
    BY DEF OwnerSits, SeatsOf
  <2>1. PICK y \in SeatsOf(q) : y.sid = rooms[q].owner
    BY <1>1, <1>5, <1>7 DEF OwnerSits
  <2>2. CASE q = r
    <3>1. CASE y.sid = s
      BY <1>4, <1>5, <1>7, <2>1, <2>2, <3>1
    <3>2. CASE y.sid # s
      <4>1. y \in ToSet(rooms'[q].seats)
        BY <1>7, <3>2 DEF Recedes
      <4> QED
        BY <1>5, <1>7, <2>1, <2>2, <4>1
    <3> QED
      BY <3>1, <3>2
  <2>3. CASE q # r
    BY <1>7, <2>1, <2>3 DEF SeatsOf
  <2> QED
    BY <2>2, <2>3
<1>11. SessionsTypeOK'
  <2>1. at' \in [Sids -> Rooms \cup {None}] /\ rooms' \in [Rooms -> RoomRecord]
    BY <1>1, <1>7 DEF SessionsTypeOK, Recedes
  <2>2. /\ token' = token /\ mine' = mine
        /\ \A t \in Tokens : grace'[t] # NoGrace => grace'[t].room \in Rooms /\ grace'[t].sid \in Sids
        /\ grace' = [t \in Tokens |-> grace'[t]]
    BY <1>1 DEF SessionsTypeOK, Remember, tables
  <2> QED
    BY <1>1, <2>1, <2>2 DEF SessionsTypeOK, Fades
<1> QED
  BY <1>8, <1>9, <1>10, <1>11 DEF SessionsInv

(* A seat is left or given up, with its token, and the room stays. *)
LEMMA ForgetKeeps ==
  ASSUME SessionsInv, NEW s \in Sids, NEW r \in Rooms, Fades,
         NEW new, SameRoom(new, rooms[r]), rooms[r].stage # "none", at[s] \in {r, None},
         SeatLeft(new.seats, rooms[r].seats, s),
         rooms' = [rooms EXCEPT ![r] = new], at' = [at EXCEPT ![s] = None], Forget({s}, {}),
         new.kind = "normal" => \E y \in ToSet(new.seats) : y.sid = new.owner
  PROVE  SessionsInv'
<1>1. Recedes(s) /\ SessionsTypeOK /\ rooms'[r] = new /\ \A q \in Rooms \ {r} : rooms'[q] = rooms[q]
  BY RoomRecedes
<1>2. SeatsApart' /\ RoomsFit' /\ Seated'
  BY <1>1, RecedeSeats
<1>3. TokensFit' /\ GraceFits'
  BY <1>1, RecedeForgets
<1>4. OwnerSits'
  BY <1>1 DEF OwnerSits, SeatsOf, SessionsInv
<1>5. Forgets(Gone({s}, {})) /\ Gone({s}, {}) \in SUBSET Tokens
  BY ForgetForgets
<1>6. SessionsTypeOK'
  BY <1>1, <1>5, ForgetsTypes DEF SessionsTypeOK, Fades, Recedes
<1> QED
  BY <1>2, <1>3, <1>4, <1>6 DEF SessionsInv

(* The owner stays, or the room is handed to somebody who does. *)
LEMMA NextOwner ==
  ASSUME SessionsInv, NEW s \in Sids, NEW r \in Rooms,
         NEW room, SameRoom(room, rooms[r]), room.owner = rooms[r].owner, room.seats # <<>>,
         SeatLeft(room.seats, rooms[r].seats, s),
         NEW handed, room.kind = "normal" /\ room.owner = s => handed
  PROVE  LET new == IF handed THEN HandedOver(room) ELSE room IN
         /\ SameRoom(new, rooms[r]) /\ new.seats = room.seats
         /\ new.kind = "normal" => \E y \in ToSet(new.seats) : y.sid = new.owner
<1>1. room \in RoomRecord /\ SessionsTypeOK /\ OwnerSits
  BY DEF SameRoom, SessionsInv
<1>2. CASE handed
  BY <1>1, <1>2, HandedOverToSeat DEF SameRoom
<1>3. CASE ~handed
  <2> SUFFICES ASSUME room.kind = "normal"
               PROVE  \E y \in ToSet(room.seats) : y.sid = room.owner
    BY <1>3
  <2>1. PICK y \in SeatsOf(r) : y.sid = room.owner
    BY <1>1 DEF SameRoom, OwnerSits
  <2> QED
    BY <1>3, <2>1 DEF SeatLeft, SeatsOf
<1> QED
  BY <1>2, <1>3

(* Room r with other seats is a room like r. *)
LEMMA OtherSeats ==
  ASSUME NEW room \in RoomRecord, NEW seats \in Seq(SeatRecord)
  PROVE  LET new == [room EXCEPT !.seats = seats] IN
         SameRoom(new, room) /\ new.owner = room.owner /\ new.seats = seats
BY DEF SameRoom, RoomRecord

LEMMA WithoutLeaves ==
  ASSUME SessionsInv, NEW s \in Sids, NEW r \in Rooms
  PROVE  LET left == Without(rooms[r].seats, s) IN
         SeatLeft(left, rooms[r].seats, s) /\ left \in Seq(SeatRecord)
BY RoomSeats, WithoutSeats DEF SeatLeft

LEMMA AwayLeaves ==
  ASSUME SessionsInv, NEW s \in Sids, NEW r \in Rooms
  PROVE  LET left == Away(rooms[r].seats, s) IN
         SeatLeft(left, rooms[r].seats, s) /\ left \in Seq(SeatRecord)
BY RoomSeats, AwaySeats DEF SeatLeft

(* Who is registered in the room, other than s, is among the seats left,    *)
(* and connected.                                                           *)
LEMMA OthersAreThere ==
  ASSUME SessionsInv, NEW s \in Sids, NEW r \in Rooms, NEW left, SeatLeft(left, rooms[r].seats, s),
         NEW x \in Sids \ {s}, at[x] = r
  PROVE  left # <<>> /\ Connected(left) # {}
<1>1. PICK y \in SeatsOf(r) : y.sid = x /\ ~y.away
  BY SessionsAssumption DEF SessionsInv, Seated
<1>2. y \in ToSet(left) /\ y \in Connected(left)
  BY <1>1 DEF SeatLeft, SeatsOf, Connected
<1> QED
  BY <1>2 DEF ToSet

(* leave_room and handle_disconnect, where the seat is given up *)
LEMMA VacateKeeps ==
  ASSUME SessionsInv, NEW s \in Sids, NEW r \in Rooms, at[s] = r, rooms[r].stage # "none", Vacate(s, r), Fades
  PROVE  SessionsInv'
<1> DEFINE left == Without(rooms[r].seats, s)
           room == [rooms[r] EXCEPT !.seats = left]
           handed == OwnsBySid(room, s)
           new == IF handed THEN HandedOver(room) ELSE room
<1>1. SeatLeft(left, rooms[r].seats, s) /\ left \in Seq(SeatRecord)
  BY WithoutLeaves
<1>2. SameRoom(room, rooms[r]) /\ room.owner = rooms[r].owner /\ room.seats = left
  BY <1>1, RoomSeats, OtherSeats
<1>3. SessionsTypeOK
  BY DEF SessionsInv
<1>4. at' = [at EXCEPT ![s] = None] /\ \A x \in Sids : at'[x] = IF x = s THEN None ELSE at[x]
  BY <1>3 DEF Vacate, SessionsTypeOK
<1>5. IF left = <<>> \/ (room.kind = "async" /\ Connected(left) = {})
      THEN Closed(r) /\ Forget({s}, {r})
      ELSE rooms' = [rooms EXCEPT ![r] = new] /\ Forget({s}, {})
  BY DEF Vacate
<1>6. CASE left = <<>> \/ (room.kind = "async" /\ Connected(left) = {})
  <2>1. \A x \in Sids : at[x] = r => x \in {s}
    BY <1>1, <1>6, OthersAreThere
  <2>2. at' \in [Sids -> Rooms \cup {None}] /\ \A x \in Sids : at'[x] = IF at[x] = r THEN None ELSE at[x]
    BY <1>3, <1>4, <2>1 DEF SessionsTypeOK
  <2>3. Closed(r) /\ Forget({s}, {r}) /\ {s} \in SUBSET Sids
    BY <1>5, <1>6
  <2> QED
    BY <2>1, <2>2, <2>3, CloseKeeps
<1>7. CASE ~(left = <<>> \/ (room.kind = "async" /\ Connected(left) = {}))
  <2>1. rooms' = [rooms EXCEPT ![r] = new] /\ Forget({s}, {})
    BY <1>5, <1>7
  <2>2. room.owner = s => handed
    BY DEF OwnsBySid
  <2> HIDE DEF left, room, handed
  <2>3. /\ SameRoom(new, rooms[r]) /\ new.seats = room.seats
        /\ new.kind = "normal" => \E y \in ToSet(new.seats) : y.sid = new.owner
    BY <1>1, <1>2, <1>7, <2>2, NextOwner
  <2> HIDE DEF new
  <2> QED
    BY <1>1, <1>2, <1>4, <2>1, <2>3, ForgetKeeps
<1> QED
  BY <1>6, <1>7

(* disband_active_room, `keep` being nobody or a lost connection *)
LEMMA DisbandKeeps ==
  ASSUME SessionsInv, NEW r \in Rooms, NEW keep, Disband(r, keep), Fades,
         \A x \in Sids : at[x] = r => x # keep
  PROVE  SessionsInv'
<1> DEFINE S == Evicted(r, keep)
<1>1. SessionsTypeOK /\ None \notin Rooms
  BY SessionsAssumption DEF SessionsInv
<1>2. Closed(r) /\ Forget(S, {r}) /\ at' = [x \in Sids |-> IF x \in S THEN None ELSE at[x]]
  BY DEF Disband
<1>3. \A x \in Sids : at[x] = r => x \in S
  <2> SUFFICES ASSUME NEW x \in Sids, at[x] = r
               PROVE  x \in S
    OBVIOUS
  <2>1. PICK y \in SeatsOf(r) : y.sid = x
    BY <1>1, OneOwnSeat
  <2> QED
    BY <2>1 DEF Evicted
<1>4. \A x \in S : x \in Sids /\ at[x] \in {r, None}
  BY SeatThere, SessionsAssumption DEF Evicted
<1> HIDE DEF S
<1>5. at' \in [Sids -> Rooms \cup {None}] /\ \A x \in Sids : at'[x] = IF at[x] = r THEN None ELSE at[x]
  BY <1>1, <1>2, <1>3, <1>4 DEF SessionsTypeOK
<1>6. S \in SUBSET Sids
  BY <1>4
<1> QED
  BY <1>2, <1>3, <1>5, <1>6, CloseKeeps

(* leave_room *)
LEMMA LeavesKeeps ==
  ASSUME SessionsInv, NEW s \in Sids, Leaves(s), auth' \in {auth, [auth EXCEPT ![s] = None]}
  PROVE  SessionsInv'
<1> DEFINE r == at[s]
           seats == Away(rooms[r].seats, s)
           room == [rooms[r] EXCEPT !.seats = seats]
<1>1. SessionsTypeOK /\ None \notin Rooms
  BY SessionsAssumption DEF SessionsInv
<1>2. RoomOf(s) = at[s] /\ r \in Rooms /\ at[s] = r /\ rooms[r].stage # "none"
  <2>1. RoomOf(s) # None
    BY DEF Leaves
  <2> QED
    BY <1>1, <2>1 DEF RoomOf, SessionsTypeOK
<1>3. room.seats = seats /\ SameRoom(room, rooms[r]) /\ room.owner = rooms[r].owner
  BY <1>2, RoomSeats, AwayLeaves, OtherSeats
<1>4. conn' = conn
  BY DEF Leaves
<1>5. ASSUME at' = [at EXCEPT ![s] = None]
      PROVE  Fades
  BY <1>1, <1>4, <1>5, NamesFade DEF SessionsTypeOK
<1>6. ASSUME rooms' = [rooms EXCEPT ![r] = room], at' = [at EXCEPT ![s] = None],
             IF mine[s] # None THEN Remember(mine[s], s, r) ELSE UNCHANGED tables
      PROVE  SessionsInv'
  <2> HIDE DEF room
  <2>1. Fades
    BY <1>5, <1>6
  <2> QED
    BY <1>2, <1>3, <1>6, <2>1, AwayKeeps
<1>7. CASE /\ Active(rooms[r]) /\ rooms[r].kind # "async" /\ OwnsBySid(rooms[r], s)
           /\ Closed(r)
           /\ at' = [x \in Sids |-> IF x = s \/ x \in Evicted(r, s) THEN None ELSE at[x]]
           /\ Forget({s} \cup Evicted(r, s), {r})
  <2> DEFINE S == {s} \cup Evicted(r, s)
  <2>1. \A x \in Sids : at[x] = r => x \in S
    <3> SUFFICES ASSUME NEW x \in Sids, at[x] = r
                 PROVE  x \in S
      OBVIOUS
    <3>1. PICK y \in SeatsOf(r) : y.sid = x
      BY <1>1, <1>2, OneOwnSeat
    <3> QED
      BY <3>1 DEF Evicted
  <2>2. \A x \in S : x \in Sids /\ at[x] \in {r, None}
    BY <1>2, SeatThere, SessionsAssumption DEF Evicted
  <2>3. Closed(r) /\ Forget(S, {r}) /\ at' = [x \in Sids |-> IF x \in S THEN None ELSE at[x]]
    BY <1>7
  <2>4. s \in S
    OBVIOUS
  <2> HIDE DEF S
  <2>5. at' \in [Sids -> Rooms \cup {None}] /\ \A x \in Sids : at'[x] = IF at[x] = r THEN None ELSE at[x]
    BY <1>1, <2>1, <2>2, <2>3 DEF SessionsTypeOK
  <2>6. Fades
    BY <1>4, <1>1, <2>2, <2>3, <2>4, NamesFade DEF SessionsTypeOK
  <2>7. S \in SUBSET Sids
    BY <2>2
  <2> QED
    BY <1>2, <2>1, <2>3, <2>5, <2>6, <2>7, CloseKeeps
<1>8. CASE Vacate(s, r)
  <2>1. Fades
    BY <1>8, <1>5 DEF Vacate
  <2> QED
    BY <1>2, <1>8, <2>1, VacateKeeps
<1>9. \/ /\ rooms' = [rooms EXCEPT ![r] = room] /\ at' = [at EXCEPT ![s] = None]
         /\ IF mine[s] # None THEN Remember(mine[s], s, r) ELSE UNCHANGED tables
      \/ /\ Active(rooms[r]) /\ rooms[r].kind # "async" /\ OwnsBySid(rooms[r], s)
         /\ Closed(r)
         /\ at' = [x \in Sids |-> IF x = s \/ x \in Evicted(r, s) THEN None ELSE at[x]]
         /\ Forget({s} \cup Evicted(r, s), {r})
      \/ Vacate(s, r)
  BY <1>2, Zenon DEF Leaves
<1> QED
  BY <1>6, <1>7, <1>8, <1>9

(* A connection that is in no room any more was in none before. *)
LEMMA NowhereElse ==
  ASSUME SessionsInv, NEW s \in Sids, RoomOf(s) = None
  PROVE  at[s] = None
<1> SUFFICES ASSUME at[s] # None
             PROVE  FALSE
  OBVIOUS
<1>1. at[s] \in Rooms /\ at[s] # None /\ \E x \in SeatsOf(at[s]) : x.sid = s
  BY OneOwnSeat
<1>2. rooms[at[s]].stage = "none"
  BY <1>1 DEF RoomOf
<1>3. rooms[at[s]] = NoRoom
  BY <1>1, <1>2 DEF SessionsInv, RoomsFit
<1> QED
  BY <1>1, <1>3 DEF NoRoom, SeatsOf, ToSet

LEMMA LogoutKeeps ==
  ASSUME SessionsInv, NEW s \in Sids, Logout(s)
  PROVE  SessionsInv'
<1>1. CASE RoomOf(s) # None
  BY <1>1, LeavesKeeps DEF Logout
<1>2. CASE RoomOf(s) = None
  <2>1. at[s] = None
    BY <1>2, NowhereElse
  <2>2. UNCHANGED <<conn, at, token, mine, grace, timers, rooms>> /\ auth' = [auth EXCEPT ![s] = None]
    BY <1>2 DEF Logout, tables
  <2>3. \A x \in Sids : auth'[x] \in {auth[x], None} /\ (at[x] # None => auth'[x] = auth[x])
    BY <2>1, <2>2 DEF SessionsInv, SessionsTypeOK
  <2>4. SessionsTypeOK'
    BY <2>2 DEF SessionsInv, SessionsTypeOK
  <2>5. SeatsApart' /\ RoomsFit' /\ OwnerSits'
    BY <2>2 DEF SessionsInv, SeatsApart, RoomsFit, OwnerSits, SeatsOf
  <2>6. Seated'
    <3>1. \A r \in Rooms : \A x \in SeatsOf(r) : x.sid # None => x.sid \in Sids
      BY SeatTyped DEF SessionsInv
    <3> QED
      BY <2>2, <2>3, <3>1 DEF SessionsInv, Seated, SeatsOf
  <2>7. TokensFit'
    <3>1. \A t \in Tokens : token[t] # NoToken => token[t].sid \in Sids
      BY DEF SessionsInv, SessionsTypeOK, TokenRecord
    <3> QED
      BY <2>2, <2>3, <3>1 DEF SessionsInv, TokensFit, SeatsOf, OwnerOf
  <2>8. GraceFits'
    BY <2>2 DEF SessionsInv, GraceFits, SeatsOf, OwnerOf
  <2> QED
    BY <2>4, <2>5, <2>6, <2>7, <2>8 DEF SessionsInv
<1> QED
  BY <1>1, <1>2

(* A connection in no room is lost, with its token. *)
LEMMA LobbyKeeps ==
  ASSUME SessionsInv, NEW s \in Sids, at[s] = None, UNCHANGED <<at, rooms>>, Forget({s}, {}), Fades
  PROVE  SessionsInv'
<1>1. SessionsTypeOK
  BY DEF SessionsInv
<1>2. Recedes(s)
  <2>1. at' = [at EXCEPT ![s] = None]
    BY <1>1 DEF SessionsTypeOK
  <2>2. \A q \in Rooms : Distinct(rooms[q].seats)
    BY RoomSeats
  <2> QED
    BY <1>1, <2>1, <2>2 DEF Recedes, SessionsTypeOK, SeatsOf
<1>3. SeatsApart' /\ RoomsFit' /\ Seated'
  BY <1>2, RecedeSeats
<1>4. TokensFit' /\ GraceFits'
  BY <1>2, RecedeForgets
<1>5. OwnerSits'
  BY DEF OwnerSits, SeatsOf, SessionsInv
<1>6. Forgets(Gone({s}, {})) /\ Gone({s}, {}) \in SUBSET Tokens
  BY ForgetForgets
<1>7. SessionsTypeOK'
  BY <1>1, <1>6, ForgetsTypes DEF SessionsTypeOK, Fades
<1> QED
  BY <1>3, <1>4, <1>5, <1>7 DEF SessionsInv

(* handle_disconnect *)
LEMMA DisconnectKeeps ==
  ASSUME SessionsInv, NEW s \in Sids, Disconnect(s)
  PROVE  SessionsInv'
<1> DEFINE r == at[s]
           room == [rooms[r] EXCEPT !.seats = Away(@, s)]
<1>1. SessionsTypeOK /\ None \notin Rooms
  BY SessionsAssumption DEF SessionsInv
<1>2. auth' = [auth EXCEPT ![s] = None] /\ conn' = [conn EXCEPT ![s] = "free"]
  BY DEF Disconnect
<1>3. ASSUME at' = [at EXCEPT ![s] = None]
      PROVE  Fades
  <2>1. \A x \in Sids : at'[x] \in {at[x], None} /\ (x = s => at'[x] = None)
    BY <1>1, <1>3 DEF SessionsTypeOK
  <2>2. auth' \in {auth, [auth EXCEPT ![s] = None]} /\ conn' \in {conn, [conn EXCEPT ![s] = "free"]}
    BY <1>2
  <2> QED
    BY <2>1, <2>2, NamesFade
<1>4. RoomOf(s) = None => at[s] = None
  BY NowhereElse
<1>5. RoomOf(s) # None => RoomOf(s) = r /\ r \in Rooms /\ at[s] = r /\ rooms[r].stage # "none"
  BY <1>1 DEF RoomOf, SessionsTypeOK
<1>6. CASE RoomOf(s) = None
  <2>1. Forget({s}, {}) /\ UNCHANGED <<at, rooms>> /\ at[s] = None
    BY <1>4, <1>6 DEF Disconnect
  <2>2. at' = [at EXCEPT ![s] = None]
    BY <1>1, <2>1 DEF SessionsTypeOK
  <2> QED
    BY <1>3, <2>1, <2>2, LobbyKeeps
<1>7. CASE RoomOf(s) # None
  <2>1. \/ /\ rooms' = [rooms EXCEPT ![r] = room] /\ at' = [at EXCEPT ![s] = None]
           /\ IF mine[s] # None THEN Remember(mine[s], s, r) ELSE UNCHANGED tables
        \/ Vacate(s, r)
    BY <1>5, <1>7, Zenon DEF Disconnect
  <2>2. CASE Vacate(s, r)
    <3>1. Fades
      BY <2>2, <1>3 DEF Vacate
    <3> QED
      BY <1>5, <1>7, <2>2, <3>1, VacateKeeps
  <2>3. CASE /\ rooms' = [rooms EXCEPT ![r] = room] /\ at' = [at EXCEPT ![s] = None]
             /\ IF mine[s] # None THEN Remember(mine[s], s, r) ELSE UNCHANGED tables
    <3>1. room.seats = Away(rooms[r].seats, s) /\ SameRoom(room, rooms[r]) /\ room.owner = rooms[r].owner
      <4>1. rooms[r] \in RoomRecord /\ Away(rooms[r].seats, s) \in Seq(SeatRecord)
        BY <1>5, <1>7, RoomSeats, AwayLeaves
      <4> QED
        BY <4>1, OtherSeats
    <3> HIDE DEF room
    <3> QED
      BY <1>3, <1>5, <1>7, <2>3, <3>1, AwayKeeps
  <2> QED
    BY <2>1, <2>2, <2>3
<1> QED
  BY <1>6, <1>7

(* remove_player of the admin *)
LEMMA AdminRemoveKeeps ==
  ASSUME SessionsInv, NEW s \in Sids, NEW r \in Rooms, AdminRemove(r, s)
  PROVE  SessionsInv'
<1> DEFINE seats == IF Active(rooms[r]) THEN Away(rooms[r].seats, s) ELSE Without(rooms[r].seats, s)
           room == [rooms[r] EXCEPT !.seats = seats]
           handed == OwnsBySid(room, s) /\ room.kind # "async"
           new == IF handed THEN HandedOver(room) ELSE room
           closes == seats = <<>> \/ (room.kind # "async" /\ Connected(seats) = {})
<1>1. SessionsTypeOK /\ None \notin Rooms
  BY SessionsAssumption DEF SessionsInv
<1>2. rooms[r].stage # "none" /\ at[s] \in {r, None}
  <2>1. PICK x \in SeatsOf(r) : x.sid = s
    BY DEF AdminRemove
  <2>2. at[x.sid] \in {r, None}
    BY <2>1, SeatThere, SessionsAssumption
  <2> QED
    BY <2>1, <2>2 DEF AdminRemove
<1>3. at' = [at EXCEPT ![s] = None] /\ auth' = auth /\ conn' = conn
  BY DEF AdminRemove
<1>4. IF closes THEN Closed(r) /\ Forget({s}, {r})
      ELSE rooms' = [rooms EXCEPT ![r] = new] /\ Forget({s}, {})
  BY Zenon DEF AdminRemove
<1>5. SeatLeft(seats, rooms[r].seats, s) /\ seats \in Seq(SeatRecord)
  BY WithoutLeaves, AwayLeaves
<1>6. SameRoom(room, rooms[r]) /\ room.owner = rooms[r].owner /\ room.seats = seats
  BY <1>5, RoomSeats, OtherSeats
<1>7. \A x \in Sids : at'[x] = IF x = s THEN None ELSE at[x]
  BY <1>1, <1>3 DEF SessionsTypeOK
<1>8. Fades
  BY <1>3, <1>7, NamesStay
<1> HIDE DEF seats
<1>9. CASE closes
  <2>1. \A x \in Sids : at[x] = r => x \in {s}
    BY <1>5, <1>9, OthersAreThere
  <2>2. at' \in [Sids -> Rooms \cup {None}] /\ \A x \in Sids : at'[x] = IF at[x] = r THEN None ELSE at[x]
    BY <1>1, <1>2, <1>3, <1>7, <2>1 DEF SessionsTypeOK
  <2>3. Closed(r) /\ Forget({s}, {r}) /\ {s} \in SUBSET Sids
    BY <1>4, <1>9
  <2> QED
    BY <1>8, <2>1, <2>2, <2>3, CloseKeeps
<1>10. CASE ~closes
  <2>1. rooms' = [rooms EXCEPT ![r] = new] /\ Forget({s}, {}) /\ seats # <<>>
    BY <1>4, <1>10
  <2>2. room.kind = "normal" /\ room.owner = s => handed
    BY DEF OwnsBySid
  <2> HIDE DEF room, handed
  <2>3. /\ SameRoom(new, rooms[r]) /\ new.seats = room.seats
        /\ new.kind = "normal" => \E y \in ToSet(new.seats) : y.sid = new.owner
    BY <1>5, <1>6, <2>1, <2>2, NextOwner, SMTT(20)
  <2> HIDE DEF new
  <2> QED
    BY <1>2, <1>3, <1>5, <1>6, <1>8, <2>1, <2>3, ForgetKeeps
<1> QED
  BY <1>9, <1>10

LEMMA AdminDisbandKeeps ==
  ASSUME SessionsInv, NEW r \in Rooms, AdminDisband(r)
  PROVE  SessionsInv'
<1>1. Disband(r, None) /\ auth' = auth /\ conn' = conn
  BY DEF AdminDisband
<1>2. \A x \in Sids : at'[x] \in {at[x], None}
  BY <1>1 DEF Disband
<1>3. Fades
  BY <1>1, <1>2, NamesStay
<1> QED
  BY <1>1, <1>3, DisbandKeeps, SessionsAssumption

(* finalize_disconnect is cleanup_player_token of the lost connection. *)
LEMMA FinalizedForgets ==
  ASSUME SessionsInv, NEW t \in Tokens, grace[t] # NoGrace, Finalized(t)
  PROVE  Forget({grace[t].sid}, {})
<1> DEFINE s == grace[t].sid
<1>1. s \in Sids /\ mine[s] = t
  BY DEF SessionsInv, SessionsTypeOK, GraceFits
<1>2. {mine[x] : x \in {s}} \cap Tokens = {t} /\ {u \in Tokens \ {t} : grace[u].room \in {}} = {}
  BY <1>1
<1>3. /\ token' = [u \in Tokens |-> IF u \in {t} \cup {} THEN NoToken ELSE token[u]]
      /\ grace' = [u \in Tokens |-> IF u \in {t} \cup {} THEN NoGrace ELSE grace[u]]
      /\ mine' = [x \in Sids |-> IF x \in {s} \/ \E u \in {} : grace[u].sid = x THEN None ELSE mine[x]]
  BY DEF Finalized, SessionsInv, SessionsTypeOK
<1> QED
  BY <1>2, <1>3 DEF Forget

(* finalize_player_disconnect *)
LEMMA ExpiryKeeps ==
  ASSUME SessionsInv, NEW m \in timers, GraceExpires(m), m.token \in Tokens,
         IsCurrent(m) => grace[m.token] # NoGrace
  PROVE  SessionsInv'
<1> DEFINE t == m.token
           s == grace[t].sid
           r == grace[t].room
           room == IF Active(rooms[r]) THEN rooms[r] ELSE [rooms[r] EXCEPT !.seats = Without(@, s)]
           handed == OwnsBySid(room, s)
           new == IF handed THEN HandedOver(room) ELSE room
<1>1. SessionsTypeOK /\ None \notin Rooms /\ auth' = auth /\ conn' = conn
  BY SessionsAssumption, SMTT(20) DEF SessionsInv, GraceExpires
<1>2. CASE UNCHANGED <<at, tables, rooms>>
  <2>1. UNCHANGED <<conn, auth, at, token, mine, grace, rooms>>
    BY <1>1, <1>2 DEF tables
  <2>2. SessionsTypeOK' /\ SeatsApart' /\ RoomsFit' /\ OwnerSits'
    BY <2>1 DEF SessionsInv, SessionsTypeOK, SeatsApart, RoomsFit, OwnerSits, SeatsOf
  <2>3. Seated' /\ TokensFit' /\ GraceFits'
    BY <2>1 DEF SessionsInv, Seated, TokensFit, GraceFits, OwnerOf, SeatsOf
  <2> QED
    BY <2>2, <2>3 DEF SessionsInv
<1>3. CASE ~UNCHANGED <<at, tables, rooms>>
  <2>1. IsCurrent(m)
    BY <1>3, Zenon DEF GraceExpires
  <2>2. grace[t] # NoGrace /\ s \in Sids /\ r \in Rooms /\ at[s] = None
    BY <2>1, <1>1 DEF SessionsTypeOK, SessionsInv, GraceFits
  <2>3. rooms[r].stage # "none"
    BY <2>2 DEF SessionsInv, GraceFits, RoomsFit, SeatsOf, NoRoom, ToSet
  <2>4. \/ Disband(r, s)
        \/ /\ UNCHANGED at
           /\ IF Connected(room.seats) = {} THEN Closed(r) /\ Forget({}, {r})
              ELSE rooms' = [rooms EXCEPT ![r] = new] /\ Finalized(t)
    BY <2>1, <2>3, Zenon DEF GraceExpires
  <2>5. CASE Disband(r, s)
    <3>1. \A x \in Sids : at'[x] \in {at[x], None}
      BY <2>5 DEF Disband
    <3>2. Fades
      BY <1>1, <3>1, NamesStay
    <3>3. \A x \in Sids : at[x] = r => x # s
      BY <1>1, <2>2
    <3> QED
      BY <2>2, <2>5, <3>2, <3>3, DisbandKeeps
  <2>6. CASE /\ UNCHANGED at
             /\ IF Connected(room.seats) = {} THEN Closed(r) /\ Forget({}, {r})
                ELSE rooms' = [rooms EXCEPT ![r] = new] /\ Finalized(t)
    <3>1. Fades
      BY <1>1, <2>6, NamesStay
    <3>2. SeatLeft(room.seats, rooms[r].seats, s) /\ SameRoom(room, rooms[r]) /\ room.owner = rooms[r].owner
      <4>1. CASE Active(rooms[r])
        <5>1. rooms[r].seats \in Seq(SeatRecord) /\ Distinct(rooms[r].seats) /\ rooms[r] \in RoomRecord
          BY <2>2, RoomSeats
        <5> QED
          BY <2>2, <4>1, <5>1 DEF SeatLeft, SameRoom
      <4>2. CASE ~Active(rooms[r])
        <5>1. /\ SeatLeft(Without(rooms[r].seats, s), rooms[r].seats, s) /\ Without(rooms[r].seats, s) \in Seq(SeatRecord)
              /\ rooms[r] \in RoomRecord
          BY <2>2, RoomSeats, WithoutLeaves
        <5> QED
          BY <4>2, <5>1, OtherSeats
      <4> QED
        BY <4>1, <4>2
    <3> HIDE DEF room
    <3>3. CASE Connected(room.seats) = {}
      <4>1. \A x \in Sids : at[x] # r
        <5> SUFFICES ASSUME NEW x \in Sids, at[x] = r
                     PROVE  FALSE
          OBVIOUS
        <5>1. x \in Sids \ {s}
          BY <1>1, <2>2
        <5> QED
          BY <2>2, <3>2, <3>3, <5>1, OthersAreThere
      <4>2. Closed(r) /\ Forget({}, {r}) /\ at' = at
        BY <2>6, <3>3
      <4>3. at' \in [Sids -> Rooms \cup {None}] /\ \A x \in Sids : at'[x] = IF at[x] = r THEN None ELSE at[x]
        BY <1>1, <4>1, <4>2 DEF SessionsTypeOK
      <4>4. \A x \in Sids : at[x] = r => x \in {}
        BY <4>1
      <4> QED
        BY <2>2, <3>1, <4>2, <4>3, <4>4, CloseKeeps
    <3>4. CASE Connected(room.seats) # {}
      <4>1. rooms' = [rooms EXCEPT ![r] = new] /\ Finalized(t) /\ room.seats # <<>>
        BY <2>6, <3>4 DEF Connected, ToSet
      <4>2. Forget({s}, {})
        BY <2>2, <4>1, FinalizedForgets
      <4>3. room.owner = s => handed
        BY DEF OwnsBySid
      <4> HIDE DEF handed
      <4>4. /\ SameRoom(new, rooms[r]) /\ new.seats = room.seats
            /\ new.kind = "normal" => \E y \in ToSet(new.seats) : y.sid = new.owner
        BY <2>2, <3>2, <4>1, <4>3, NextOwner
      <4> HIDE DEF new
      <4>5. at' = [at EXCEPT ![s] = None]
        BY <1>1, <2>2, <2>6 DEF SessionsTypeOK
      <4> HIDE DEF s, r
      <4> QED
        BY <2>2, <2>3, <3>1, <3>2, <4>1, <4>2, <4>4, <4>5, ForgetKeeps
    <3> QED
      BY <3>3, <3>4
  <2> QED
    BY <2>4, <2>5, <2>6, SMTT(20)
<1> QED
  BY <1>2, <1>3

-----------------------------------------------------------------------------
(* Staying.                                                                 *)

LEMMA ListsAll ==
  ASSUME NEW S, IsFiniteSet(S)
  PROVE  LET f == SetToSeq(S) IN
         /\ f \in Seq(S)
         /\ \A i, j \in DOMAIN f : f[i] = f[j] => i = j
         /\ \A x \in S : \E i \in DOMAIN f : f[i] = x
<1> DEFINE n == Cardinality(S)
           f == SetToSeq(S)
<1>1. n \in Nat /\ ExistsBijection(1 .. n, S)
  BY FS_CardinalityType
<1>2. \E g \in [1 .. n -> S] : IsInjective(g)
  BY <1>1 DEF ExistsBijection, Bijection, Injection
<1>3. f \in [1 .. n -> S] /\ IsInjective(f)
  BY <1>2 DEF SetToSeq
<1> HIDE DEF f
<1>4. f \in Injection(1 .. n, S)
  BY <1>3 DEF Injection
<1>5. Cardinality(1 .. n) = n
  BY <1>1, FS_Interval
<1> HIDE DEF n
<1>6. f \in Surjection(1 .. n, S)
  BY <1>4, <1>5, FS_Injection DEF n
<1>7. DOMAIN f = 1 .. n /\ f \in Seq(S)
  BY <1>1, <1>3
<1> QED
  BY <1>3, <1>6, <1>7 DEF Surjection, IsInjective, f

(* Room r changes its seats, and everyone's seat is as it was, or he is a   *)
(* player of a restored game who counts as present again.                   *)
Remains(r, new) ==
  /\ new \in RoomRecord /\ rooms' = [rooms EXCEPT ![r] = new]
  /\ new.kind = rooms[r].kind /\ new.owner = rooms[r].owner
  /\ rooms[r].stage # "none" /\ new.stage # "none" /\ Distinct(new.seats)
  /\ new.late # {} => new.kind = "restored" /\ new.stage \in {"running", "over"}
  /\ \A y \in ToSet(new.seats) : /\ y.who \in new.late => y.sid = None
                                 /\ new.kind = "restored" => y.who \in Saved
  /\ \A y \in ToSet(new.seats) : y.sid # None =>
       \E x \in SeatsOf(r) : x.sid = y.sid /\ x.who = y.who /\ (new.kind # "restored" => x.away = y.away)
  /\ \A y \in ToSet(new.seats) : y.sid = None => y.away \/ new.kind = "restored"
  /\ \A x \in SeatsOf(r) : x.sid # None \/ new.kind # "restored" =>
       \E y \in ToSet(new.seats) : /\ x.sid = y.sid /\ x.who = y.who /\ (~x.away => ~y.away)
                                   /\ new.kind # "restored" => x.away = y.away
  /\ UNCHANGED <<conn, auth, at, token, mine, grace>>

LEMMA RemainKeeps ==
  ASSUME SessionsInv, NEW r \in Rooms, NEW new, Remains(r, new)
  PROVE  SessionsInv'
<1> USE SessionsAssumption
<1> DEFINE New(q) == ToSet(rooms'[q].seats)
<1>1. SessionsTypeOK /\ SeatsApart /\ RoomsFit /\ Seated /\ TokensFit /\ GraceFits /\ OwnerSits
  BY DEF SessionsInv
<1>2. UNCHANGED <<conn, auth, at, token, mine, grace>>
  BY DEF Remains
<1>3. rooms' \in [Rooms -> RoomRecord] /\ rooms'[r] = new /\ \A q \in Rooms : q # r => rooms'[q] = rooms[q]
  BY <1>1 DEF Remains, SessionsTypeOK
<1>4. SessionsTypeOK'
  BY <1>1, <1>2, <1>3 DEF SessionsTypeOK
<1>5. \A q \in Rooms : q # r => New(q) = SeatsOf(q)
  BY <1>3 DEF SeatsOf
<1>6. New(r) = ToSet(new.seats)
  BY <1>3
<1> HIDE DEF New
<1>7. \A q \in Rooms : \A y \in New(q) : y.sid # None => \E x \in SeatsOf(q) : x.sid = y.sid /\ x.who = y.who
  BY <1>5, <1>6 DEF Remains
<1>8. \A q \in Rooms : \A x \in SeatsOf(q) : x.sid # None \/ rooms[q].kind # "restored" =>
         \E y \in New(q) : x.sid = y.sid /\ x.who = y.who /\ (~x.away => ~y.away)
                           /\ (rooms[q].kind # "restored" => x.away = y.away)
  BY <1>5, <1>6 DEF Remains
<1>9. \A q \in Rooms : /\ Distinct(rooms'[q].seats) /\ rooms'[q].kind = rooms[q].kind
                       /\ rooms'[q].owner = rooms[q].owner
  <2> SUFFICES ASSUME NEW q \in Rooms
               PROVE  /\ Distinct(rooms'[q].seats) /\ rooms'[q].kind = rooms[q].kind
                      /\ rooms'[q].owner = rooms[q].owner
    OBVIOUS
  <2> QED
    BY <1>1, <1>3 DEF Remains, SeatsApart
<1>10. ASSUME NEW p \in Rooms, NEW q \in Rooms, NEW x \in New(p), NEW y \in New(q), x.sid = y.sid, x.sid # None
       PROVE  p = q /\ x = y
  <2>1. PICK a \in SeatsOf(p), b \in SeatsOf(q) : a.sid = x.sid /\ a.who = x.who /\ b.sid = y.sid /\ b.who = y.who
    BY <1>7, <1>10
  <2>2. p = q /\ a = b
    BY <1>1, <1>10, <2>1 DEF SeatsApart
  <2>3. Distinct(rooms'[p].seats) /\ x.who = y.who
    BY <1>9, <2>1, <2>2
  <2> QED
    BY <2>2, <2>3 DEF Distinct, ToSet, New
<1>11. SeatsApart'
  BY <1>9, <1>10 DEF SeatsApart, SeatsOf, New
<1>12. RoomsFit'
  <2> SUFFICES ASSUME NEW q \in Rooms
               PROVE  /\ rooms'[q].stage = "none" \/ rooms'[q].kind = "none" => rooms'[q] = NoRoom
                      /\ rooms'[q].kind = "restored" => \A x \in New(q) : x.who \in Saved
                      /\ rooms'[q].late # {} => rooms'[q].kind = "restored" /\ rooms'[q].stage \in {"running", "over"}
                      /\ \A x \in New(q) : x.who \in rooms'[q].late => x.sid = None
    BY DEF RoomsFit, SeatsOf, New
  <2>1. CASE q # r
    BY <1>1, <1>3, <1>5, <2>1 DEF RoomsFit
  <2>2. CASE q = r
    <3>1. new.stage # "none" /\ new.kind # "none"
      BY <1>1 DEF Remains, RoomsFit, NoRoom
    <3> QED
      BY <1>3, <1>6, <2>2, <3>1 DEF Remains
  <2> QED
    BY <2>1, <2>2
<1>13. Seated'
  <2>1. ASSUME NEW s \in Sids, at[s] # None
        PROVE  auth[s] # None /\ conn[s] # "free" /\ \E y \in New(at[s]) : y.sid = s /\ ~y.away
    BY <1>1, <1>8, <2>1 DEF Seated, SessionsTypeOK
  <2>2. ASSUME NEW q \in Rooms, NEW y \in New(q)
        PROVE  /\ ~y.away /\ rooms[q].kind # "restored" => y.sid # None /\ at[y.sid] = q
               /\ y.sid # None /\ auth[y.sid] # None => y.who = auth[y.sid]
    <3>1. y.sid # None /\ auth[y.sid] # None => y.who = auth[y.sid]
      BY <1>1, <1>7 DEF Seated
    <3>2. ~y.away /\ rooms[q].kind # "restored" => y.sid # None /\ at[y.sid] = q
      <4>1. CASE q # r
        BY <1>1, <1>5, <4>1 DEF Seated
      <4>2. CASE q = r
        BY <1>1, <1>6, <4>2 DEF Seated, Remains
      <4> QED
        BY <4>1, <4>2
    <3> QED
      BY <3>1, <3>2
  <2> QED
    BY <1>2, <1>9, <2>1, <2>2 DEF Seated, SeatsOf, New
<1>14. TokensFit'
  <2>1. \A s \in Sids : mine[s] # None /\ at[s] # None => \A y \in New(at[s]) : y.sid = s => y.who = OwnerOf(mine[s])
    BY <1>1, <1>7 DEF TokensFit, SessionsTypeOK
  <2> QED
    BY <1>1, <1>2, <2>1 DEF TokensFit, SeatsOf, OwnerOf, New
<1>15. GraceFits'
  <2> SUFFICES ASSUME NEW t \in Tokens, grace[t] # NoGrace
               PROVE  /\ mine[grace[t].sid] = t /\ at[grace[t].sid] = None
                      /\ \E y \in New(grace[t].room) :
                           /\ y.sid = grace[t].sid /\ y.who = OwnerOf(t)
                           /\ y.away \/ rooms'[grace[t].room].kind = "restored"
    BY <1>2 DEF GraceFits, OwnerOf, New, SeatsOf
  <2>1. grace[t].room \in Rooms /\ grace[t].sid # None
    BY <1>1 DEF SessionsTypeOK
  <2>2. PICK x \in SeatsOf(grace[t].room) : /\ x.sid = grace[t].sid /\ x.who = OwnerOf(t)
                                            /\ x.away \/ rooms[grace[t].room].kind = "restored"
    BY <1>1 DEF GraceFits
  <2> QED
    BY <1>1, <1>8, <1>9, <2>1, <2>2 DEF GraceFits
<1>16. OwnerSits'
  <2> SUFFICES ASSUME NEW q \in Rooms, rooms[q].kind = "normal"
               PROVE  \E y \in New(q) : y.sid = rooms[q].owner
    BY <1>9 DEF OwnerSits, SeatsOf, New
  <2>1. PICK x \in SeatsOf(q) : x.sid = rooms[q].owner
    BY <1>1 DEF OwnerSits
  <2>2. CASE q # r
    BY <1>5, <2>1, <2>2
  <2>3. CASE q = r
    BY <1>8, <2>1, <2>3
  <2> QED
    BY <2>2, <2>3
<1> QED
  BY <1>4, <1>11, <1>12, <1>13, <1>14, <1>15, <1>16 DEF SessionsInv

(* The game starts, or ends, and the room stays. *)
LEMMA StageKeeps ==
  ASSUME SessionsInv, NEW r \in Rooms, rooms[r].stage # "none", NEW stage \in {"running", "over"},
         rooms' = [rooms EXCEPT ![r] = [@ EXCEPT !.stage = stage]],
         UNCHANGED <<conn, auth, at, token, mine, grace>>
  PROVE  SessionsInv'
<1> DEFINE new == [rooms[r] EXCEPT !.stage = stage]
<1>1. rooms[r] \in RoomRecord /\ Distinct(rooms[r].seats)
  BY RoomSeats
<1>2. /\ new \in RoomRecord /\ new.kind = rooms[r].kind /\ new.owner = rooms[r].owner /\ new.stage = stage
      /\ new.seats = rooms[r].seats /\ new.late = rooms[r].late
  BY <1>1 DEF RoomRecord
<1>3. rooms' = [rooms EXCEPT ![r] = new]
  OBVIOUS
<1> HIDE DEF new
<1>4. /\ \A x \in SeatsOf(r) : ~x.away /\ rooms[r].kind # "restored" => x.sid # None
      /\ \A x \in SeatsOf(r) : x.who \in rooms[r].late => x.sid = None
      /\ rooms[r].kind = "restored" => \A x \in SeatsOf(r) : x.who \in Saved
      /\ rooms[r].late # {} => rooms[r].kind = "restored"
  BY DEF SessionsInv, Seated, RoomsFit
<1>5. \A x \in SeatsOf(r) : x.away \in BOOLEAN
  BY SeatTyped DEF SessionsInv
<1>6. Remains(r, new)
  BY <1>1, <1>2, <1>3, <1>4, <1>5 DEF Remains, SeatsOf
<1> QED
  BY <1>6, RemainKeeps

LEMMA GameEndsKeeps ==
  ASSUME SessionsInv, NEW r \in Rooms, GameEnds(r)
  PROVE  SessionsInv'
<1>1. UNCHANGED <<conn, auth, at>> /\ rooms[r].stage # "none"
  BY DEF GameEnds, Active
<1>2. CASE rooms[r].kind = "async" /\ Connected(rooms[r].seats) = {}
  <2>1. Closed(r) /\ Forget({}, {r})
    BY <1>2 DEF GameEnds
  <2>2. \A x \in Sids : at[x] # r
    <3> SUFFICES ASSUME NEW x \in Sids, at[x] = r
                 PROVE  FALSE
      OBVIOUS
    <3>1. \E y \in SeatsOf(r) : ~y.away
      BY OneOwnSeat, SessionsAssumption
    <3> QED
      BY <1>2, <3>1 DEF Connected, SeatsOf
  <2>3. at' \in [Sids -> Rooms \cup {None}] /\ \A x \in Sids : at'[x] = IF at[x] = r THEN None ELSE at[x]
    BY <1>1, <2>2 DEF SessionsInv, SessionsTypeOK
  <2>4. Fades
    BY <1>1, NamesStay
  <2>5. \A x \in Sids : at[x] = r => x \in {}
    BY <2>2
  <2> QED
    BY <2>1, <2>3, <2>4, <2>5, CloseKeeps
<1>3. CASE ~(rooms[r].kind = "async" /\ Connected(rooms[r].seats) = {})
  <2>1. rooms' = [rooms EXCEPT ![r].stage = "over"] /\ UNCHANGED tables
    BY <1>3 DEF GameEnds
  <2>2. UNCHANGED <<conn, auth, at, token, mine, grace>>
    BY <1>1, <2>1 DEF tables
  <2> QED
    BY <1>1, <2>1, <2>2, StageKeeps
<1> QED
  BY <1>2, <1>3

(* restore_start: the saved players, each in his waiting seat if he has one *)
LEMMA SavedSeats ==
  ASSUME NEW room \in RoomRecord, Distinct(room.seats), \A x \in ToSet(room.seats) : x.who \in Saved
  PROVE  LET new == RestoredSeats(room) IN
         /\ new \in Seq(SeatRecord) /\ Distinct(new)
         /\ \A y \in ToSet(new) : /\ y.who \in Saved
                                  /\ \/ \E x \in ToSet(room.seats) : x.who = y.who /\ x.sid = y.sid
                                     \/ y.sid = None
         /\ \A y \in ToSet(new) : (\A x \in ToSet(room.seats) : x.who # y.who) => y.sid = None
         /\ \A x \in ToSet(room.seats) : \E y \in ToSet(new) : y.who = x.who /\ y.sid = x.sid /\ ~y.away
<1> USE SessionsAssumption
<1> DEFINE names == SetToSeq(Saved)
           here(p) == {x \in ToSet(room.seats) : x.who = p}
           new == RestoredSeats(room)
<1>1. /\ names \in Seq(Saved)
      /\ \A i, j \in DOMAIN names : names[i] = names[j] => i = j
      /\ \A p \in Saved : \E i \in DOMAIN names : names[i] = p
  BY ListsAll
<1>2. \A x \in ToSet(room.seats) : x \in SeatRecord
  BY DEF RoomRecord, ToSet
<1>3. \A x, y \in ToSet(room.seats) : x.who = y.who => x = y
  BY DEF Distinct, ToSet
<1>4. new = [i \in DOMAIN names |->
               IF here(names[i]) # {} THEN Seat((CHOOSE x \in here(names[i]) : TRUE).sid, names[i], FALSE)
               ELSE Seat(None, names[i], TRUE)]
  BY DEF RestoredSeats
<1> HIDE DEF new, names
<1>5. ASSUME NEW i \in DOMAIN names
      PROVE  /\ new[i] \in SeatRecord /\ new[i].who = names[i] /\ names[i] \in Saved
             /\ here(names[i]) # {} => /\ ~new[i].away
                                       /\ \E x \in ToSet(room.seats) : x.who = names[i] /\ x.sid = new[i].sid
             /\ here(names[i]) = {} => new[i].sid = None /\ new[i].away
  <2>1. names[i] \in Saved /\ names[i] \in People
    BY <1>1 DEF People
  <2>2. CASE here(names[i]) = {}
    <3>1. new[i] = Seat(None, names[i], TRUE)
      BY <1>4, <2>2
    <3> QED
      BY <2>1, <2>2, <3>1 DEF Seat, SeatRecord
  <2>3. CASE here(names[i]) # {}
    <3> DEFINE x == CHOOSE z \in here(names[i]) : TRUE
    <3>1. new[i] = Seat(x.sid, names[i], FALSE) /\ x \in here(names[i])
      BY <1>4, <2>3
    <3> HIDE DEF x
    <3>2. x \in ToSet(room.seats) /\ x.who = names[i] /\ x \in SeatRecord
      BY <1>2, <3>1
    <3>3. new[i] \in SeatRecord /\ new[i].who = names[i] /\ new[i].sid = x.sid /\ new[i].away = FALSE
      BY <2>1, <3>1, <3>2 DEF Seat, SeatRecord
    <3> QED
      BY <2>1, <2>3, <3>2, <3>3
  <2> QED
    BY <2>2, <2>3
<1>6. DOMAIN new = DOMAIN names /\ new \in Seq(SeatRecord)
  <2>1. DOMAIN names = 1 .. Len(names) /\ Len(names) \in Nat
    BY <1>1
  <2>2. new \in [1 .. Len(names) -> SeatRecord]
    BY <1>4, <1>5, <2>1
  <2> QED
    BY <2>1, <2>2
<1>7. Distinct(new)
  BY <1>1, <1>5, <1>6 DEF Distinct
<1>8. \A y \in ToSet(new) : \E i \in DOMAIN names : y = new[i]
  BY <1>6 DEF ToSet
<1>9. \A i \in DOMAIN names : new[i] \in ToSet(new)
  BY <1>6 DEF ToSet
<1>10. \A y \in ToSet(new) : /\ y.who \in Saved
                             /\ \/ \E x \in ToSet(room.seats) : x.who = y.who /\ x.sid = y.sid
                                \/ y.sid = None
  BY <1>5, <1>8
<1>11. \A y \in ToSet(new) : (\A x \in ToSet(room.seats) : x.who # y.who) => y.sid = None
  BY <1>5, <1>8
<1>12. \A x \in ToSet(room.seats) : \E y \in ToSet(new) : y.who = x.who /\ y.sid = x.sid /\ ~y.away
  <2> SUFFICES ASSUME NEW x \in ToSet(room.seats)
               PROVE  \E y \in ToSet(new) : y.who = x.who /\ y.sid = x.sid /\ ~y.away
    OBVIOUS
  <2>1. PICK i \in DOMAIN names : names[i] = x.who
    BY <1>1
  <2>2. x \in here(names[i])
    BY <2>1
  <2>3. PICK z \in ToSet(room.seats) : z.who = names[i] /\ z.sid = new[i].sid
    BY <1>5, <2>2
  <2>4. z = x
    BY <1>3, <2>1, <2>3
  <2> QED
    BY <1>5, <1>9, <2>1, <2>2, <2>3, <2>4
<1> QED
  BY <1>6, <1>7, <1>10, <1>11, <1>12 DEF new

(* start_game, restore_start *)
LEMMA StartGameKeeps ==
  ASSUME SessionsInv, NEW s \in Sids, StartGame(s)
  PROVE  SessionsInv'
<1> USE SessionsAssumption
<1> DEFINE r == at[s]
<1>1. SessionsTypeOK /\ RoomOf(s) # None
  BY DEF SessionsInv, StartGame
<1>2. r \in Rooms /\ RoomOf(s) = r
  BY <1>1 DEF RoomOf, SessionsTypeOK
<1>3. /\ rooms[r].stage = "waiting"
      /\ rooms' = [rooms EXCEPT ![r] =
             IF rooms[r].kind # "restored" THEN [rooms[r] EXCEPT !.stage = "running"]
             ELSE [rooms[r] EXCEPT !.stage = "running", !.seats = RestoredSeats(rooms[r]),
                            !.late = Saved \ {x.who : x \in SeatsOf(r)}]]
      /\ UNCHANGED <<conn, auth, at, token, mine, grace>>
  BY <1>2 DEF StartGame, tables
<1> HIDE DEF r
<1>4. CASE rooms[r].kind # "restored"
  BY <1>2, <1>3, <1>4, StageKeeps
<1>5. CASE rooms[r].kind = "restored"
  <2> DEFINE seats == RestoredSeats(rooms[r])
             late == Saved \ {x.who : x \in SeatsOf(r)}
             new == [rooms[r] EXCEPT !.stage = "running", !.seats = seats, !.late = late]
  <2>1. rooms[r] \in RoomRecord /\ Distinct(rooms[r].seats) /\ \A x \in ToSet(rooms[r].seats) : x.who \in Saved
    BY <1>2, <1>5, RoomSeats DEF SessionsInv, RoomsFit, SeatsOf
  <2>2. /\ seats \in Seq(SeatRecord) /\ Distinct(seats)
        /\ \A y \in ToSet(seats) : /\ y.who \in Saved
                                   /\ \/ \E x \in ToSet(rooms[r].seats) : x.who = y.who /\ x.sid = y.sid
                                      \/ y.sid = None
        /\ \A y \in ToSet(seats) : (\A x \in ToSet(rooms[r].seats) : x.who # y.who) => y.sid = None
        /\ \A x \in ToSet(rooms[r].seats) : \E y \in ToSet(seats) : y.who = x.who /\ y.sid = x.sid /\ ~y.away
    BY <2>1, SavedSeats
  <2>3. rooms' = [rooms EXCEPT ![r] = new]
    BY <1>3, <1>5
  <2>4. late \in SUBSET People /\ \A y : y \in late => \A x \in ToSet(rooms[r].seats) : x.who # y
    BY DEF People, SeatsOf
  <2> HIDE DEF seats, late
  <2>5. /\ new \in RoomRecord /\ new.kind = rooms[r].kind /\ new.owner = rooms[r].owner /\ new.stage = "running"
        /\ new.seats = seats /\ new.late = late
    BY <2>1, <2>2, <2>4 DEF RoomRecord
  <2> HIDE DEF new
  <2>6. Remains(r, new)
    <3>1. /\ new.kind = "restored" /\ rooms[r].stage # "none" /\ new.stage = "running" /\ Distinct(new.seats)
          /\ UNCHANGED <<conn, auth, at, token, mine, grace>>
      BY <1>3, <1>5, <2>2, <2>5
    <3>2. \A y \in ToSet(new.seats) : (y.who \in new.late => y.sid = None) /\ y.who \in Saved
      BY <2>2, <2>4, <2>5
    <3>3. \A y \in ToSet(new.seats) : y.sid # None => \E x \in SeatsOf(r) : x.sid = y.sid /\ x.who = y.who
      BY <2>2, <2>5 DEF SeatsOf
    <3>4. \A x \in SeatsOf(r) : \E y \in ToSet(new.seats) : x.sid = y.sid /\ x.who = y.who /\ ~y.away
      BY <2>2, <2>5 DEF SeatsOf
    <3> QED
      BY <2>3, <2>5, <3>1, <3>2, <3>3, <3>4 DEF Remains
  <2> QED
    BY <1>2, <2>6, RemainKeeps
<1> QED
  BY <1>4, <1>5

(* kick_user *)
LEMMA KickKeeps ==
  ASSUME SessionsInv, NEW u \in Users, KickUser(u)
  PROVE  SessionsInv'
<1> USE SessionsAssumption
<1>1. SessionsTypeOK /\ u \in Tokens /\ u \notin GuestTokens
  BY DEF SessionsInv, Tokens
<1>2. /\ \A t \in Tokens : /\ grace'[t] = IF t = u THEN NoGrace ELSE grace[t]
                           /\ token'[t] = IF t = u /\ grace[u] # NoGrace THEN NoToken ELSE token[t]
      /\ grace' = [t \in Tokens |-> grace'[t]] /\ token' \in [Tokens -> TokenRecord \cup {NoToken}]
  BY <1>1 DEF KickUser, SessionsTypeOK
<1>3. /\ conn' \in [Sids -> {"free", "open", "closing"}]
      /\ \A s \in Sids : conn[s] # "free" => conn'[s] # "free"
  BY <1>1 DEF KickUser, SessionsTypeOK
<1>4. UNCHANGED <<auth, at, mine, rooms>>
  BY DEF KickUser
<1>5. SessionsTypeOK'
  BY <1>1, <1>2, <1>3, <1>4 DEF SessionsTypeOK
<1>6. SeatsApart' /\ RoomsFit' /\ OwnerSits'
  BY <1>4 DEF SessionsInv, SeatsApart, RoomsFit, OwnerSits, SeatsOf
<1>7. Seated'
  BY <1>3, <1>4 DEF SessionsInv, Seated, SeatsOf
<1>8. \A t \in Tokens : OwnerOf(t)' = OwnerOf(t)
  BY <1>2 DEF OwnerOf
<1>9. TokensFit'
  <2>1. \A t \in Tokens : token'[t] # NoToken => token[t] # NoToken /\ token'[t] = token[t]
    BY <1>2
  <2>2. \A t \in GuestTokens : t \in Tokens /\ token'[t] = token[t] /\ grace'[t] = grace[t]
    BY <1>1, <1>2 DEF Tokens
  <2>3. \A s \in Sids : mine[s] # None => mine[s] \in Tokens
    BY <1>1 DEF SessionsTypeOK
  <2>4. \A t \in Tokens : token'[t] # NoToken =>
          /\ IF t \in Users THEN token'[t].who = t ELSE token'[t].who \in Guests
          /\ mine'[token'[t].sid] = t
          /\ auth'[token'[t].sid] # None => auth'[token'[t].sid] = token'[t].who
    BY <1>4, <2>1 DEF SessionsInv, TokensFit
  <2>5. \A s \in Sids : mine'[s] \in GuestTokens => token'[mine'[s]] # NoToken /\ token'[mine'[s]].sid = s
    BY <1>4, <2>2 DEF SessionsInv, TokensFit
  <2>6. \A t \in GuestTokens : token'[t] # NoToken => grace'[t] # NoGrace \/ at'[token'[t].sid] # None
    BY <1>4, <2>2 DEF SessionsInv, TokensFit
  <2>7. \A s \in Sids : mine[s] # None /\ at[s] # None => \A x \in SeatsOf(at[s]) : x.sid = s => x.who = OwnerOf(mine[s])
    BY DEF SessionsInv, TokensFit
  <2>8. \A s \in Sids : mine[s] # None => OwnerOf(mine[s])' = OwnerOf(mine[s])
    BY <1>4, <1>8, <2>3 DEF OwnerOf
  <2> QED
    BY <1>4, <2>4, <2>5, <2>6, <2>7, <2>8 DEF TokensFit, SeatsOf
<1>10. GraceFits'
  <2> SUFFICES ASSUME NEW t \in Tokens, grace'[t] # NoGrace
               PROVE  /\ mine[grace'[t].sid] = t /\ at[grace'[t].sid] = None
                      /\ \E x \in SeatsOf(grace'[t].room) :
                           /\ x.sid = grace'[t].sid /\ x.who = OwnerOf(t)'
                           /\ x.away \/ rooms[grace'[t].room].kind = "restored"
    BY <1>4 DEF GraceFits, SeatsOf
  <2>1. grace'[t] = grace[t] /\ grace[t] # NoGrace
    BY <1>2
  <2> QED
    BY <1>8, <2>1 DEF SessionsInv, GraceFits
<1> QED
  BY <1>5, <1>6, <1>7, <1>9, <1>10 DEF SessionsInv

(* set_name, with the connection's own seats (if it has any) of that person *)
LEMMA IntroduceKeeps ==
  ASSUME SessionsInv, ~MovesOn, NEW s \in Sids, NEW p \in People, Introduce(s, p), at[s] = None, at' = at,
         conn' \in [Sids -> {"free", "open", "closing"}], \A x \in Sids : conn[x] # "free" => conn'[x] # "free"
  PROVE  SessionsInv'
<1> USE SessionsAssumption
<1>1. SessionsTypeOK /\ UNCHANGED <<at, token, mine, grace, rooms>>
  BY DEF SessionsInv, Introduce, tables
<1>2. /\ auth' \in [Sids -> People \cup {None}]
      /\ \A x \in Sids : auth'[x] = IF x = s THEN p ELSE auth[x]
  BY <1>1 DEF Introduce, SessionsTypeOK
<1>3. /\ \A r \in Rooms : \A x \in SeatsOf(r) : x.sid = s => x.who = p
      /\ \A t \in Tokens : token[t].sid = s => token[t].who = p
  BY DEF Introduce
<1>4. SessionsTypeOK'
  BY <1>1, <1>2 DEF SessionsTypeOK
<1>5. SeatsApart' /\ RoomsFit' /\ OwnerSits' /\ GraceFits'
  BY <1>1 DEF SessionsInv, SeatsApart, RoomsFit, OwnerSits, GraceFits, OwnerOf, SeatsOf
<1>6. Seated'
  <2>1. \A r \in Rooms : \A x \in SeatsOf(r) : x.sid # None => x.sid \in Sids
    BY SeatTyped DEF SessionsInv
  <2>2. \A x \in Sids : at[x] # None => auth'[x] # None /\ conn'[x] # "free" /\ \E y \in SeatsOf(at[x]) : y.sid = x /\ ~y.away
    BY <1>2 DEF SessionsInv, Seated
  <2>3. \A r \in Rooms : \A x \in SeatsOf(r) :
          /\ ~x.away /\ rooms[r].kind # "restored" => x.sid # None /\ at[x.sid] = r
          /\ x.sid # None /\ auth'[x.sid] # None => x.who = auth'[x.sid]
    BY <1>2, <1>3, <2>1 DEF SessionsInv, Seated
  <2> QED
    BY <1>1, <2>2, <2>3 DEF Seated, SeatsOf
<1>7. TokensFit'
  <2>1. \A t \in Tokens : token[t] # NoToken => token[t].sid \in Sids
    BY <1>1 DEF SessionsTypeOK, TokenRecord
  <2>2. \A t \in Tokens : token[t] # NoToken /\ auth'[token[t].sid] # None => auth'[token[t].sid] = token[t].who
    BY <1>2, <1>3, <2>1 DEF SessionsInv, TokensFit
  <2> QED
    BY <1>1, <2>2 DEF SessionsInv, TokensFit, OwnerOf, SeatsOf
<1> QED
  BY <1>4, <1>5, <1>6, <1>7 DEF SessionsInv

LEMMA ConnectKeeps ==
  ASSUME SessionsInv, ~MovesOn, NEW s \in Sids, NEW p \in People, Connect(s, p) \/ SetName(s, p)
  PROVE  SessionsInv'
<1>1. Introduce(s, p) /\ at[s] = None
  BY OneOwnSeat DEF Connect, SetName, SidUnused, SessionsInv, Seated
<1>2. at' = at
  BY <1>1 DEF Connect, SetName, SessionsInv, SessionsTypeOK
<1>3. conn' \in [Sids -> {"free", "open", "closing"}] /\ \A x \in Sids : conn[x] # "free" => conn'[x] # "free"
  BY DEF Connect, SetName, SessionsInv, SessionsTypeOK
<1> QED
  BY <1>1, <1>2, <1>3, IntroduceKeeps

-----------------------------------------------------------------------------
(* Coming.                                                                  *)

(* Connection s of p, in no room so far, takes p's seat in room r, which is *)
(* a new one, or one that is left, or that of another connection of p.      *)
SitsDown(s, p, r, new) ==
  /\ at[s] = None /\ auth[s] = p /\ p \in People
  /\ \A q \in Rooms : \A x \in SeatsOf(q) : x.sid = s => q = r /\ x.who = p
  /\ new \in RoomRecord /\ rooms' = [rooms EXCEPT ![r] = new] /\ new.stage # "none" /\ new.kind # "none"
  /\ rooms[r] = NoRoom \/ new.kind = rooms[r].kind
  /\ Distinct(new.seats)
  /\ \E y \in ToSet(new.seats) : y.sid = s /\ y.who = p /\ ~y.away
  /\ \A y \in ToSet(new.seats) : y.who # p => y \in SeatsOf(r) \/ (y.sid = None /\ y.away)
  /\ \A x \in SeatsOf(r) : x.who # p => x \in ToSet(new.seats)
  /\ new.late # {} => new.kind = "restored" /\ new.stage \in {"running", "over"}
  /\ \A y \in ToSet(new.seats) : /\ y.who \in new.late => y.sid = None
                                 /\ new.kind = "restored" => y.who \in Saved
  /\ new.kind = "normal" => \E y \in ToSet(new.seats) : y.sid = new.owner
  /\ at' \in [Sids -> Rooms \cup {None}]
  /\ \A x \in Sids : at'[x] = IF x = s THEN r ELSE IF at[x] = r /\ auth[x] = p THEN None ELSE at[x]

LEMMA ArrivalSeats ==
  ASSUME SessionsInv, Fades, NEW s \in Sids, NEW p, NEW r \in Rooms, NEW new, SitsDown(s, p, r, new)
  PROVE  SeatsApart' /\ RoomsFit' /\ Seated' /\ OwnerSits'
<1> USE SessionsAssumption
<1> DEFINE New(q) == ToSet(rooms'[q].seats)
<1>1. SessionsTypeOK /\ SeatsApart /\ RoomsFit /\ Seated /\ OwnerSits /\ None \notin Sids /\ None \notin Rooms
  BY DEF SessionsInv
<1>2. rooms'[r] = new /\ \A q \in Rooms : q # r => rooms'[q] = rooms[q]
  BY <1>1 DEF SitsDown, SessionsTypeOK
<1>3. New(r) = ToSet(new.seats) /\ \A q \in Rooms : q # r => New(q) = SeatsOf(q)
  BY <1>2 DEF SeatsOf
<1> HIDE DEF New
<1>4. \A q \in Rooms : \A x \in SeatsOf(q) : x.sid = s => q = r /\ x.who = p
  BY DEF SitsDown
<1>5. \A y, z \in New(r) : y.who = z.who => y = z
  BY <1>3 DEF SitsDown, Distinct, ToSet
<1>6. PICK own \in New(r) : own.sid = s /\ own.who = p /\ ~own.away
  BY <1>3 DEF SitsDown
<1>7. ASSUME NEW q \in Rooms, NEW y \in New(q)
      PROVE  \/ q = r /\ y = own
             \/ q = r /\ y.sid = None /\ y.away
             \/ y \in SeatsOf(q) /\ (q = r => y.who # p) /\ y.sid # s
  <2>1. CASE q # r
    BY <1>3, <1>4, <2>1
  <2>2. CASE q = r
    <3>1. y.who = p => y = own
      BY <1>5, <1>6, <1>7, <2>2
    <3>2. y.who # p => y \in SeatsOf(r) \/ (y.sid = None /\ y.away)
      BY <1>3, <2>2 DEF SitsDown
    <3> QED
      BY <1>4, <2>2, <3>1, <3>2
  <2> QED
    BY <2>1, <2>2
<1>8. ASSUME NEW o \in Rooms, NEW q \in Rooms, NEW x \in New(o), NEW y \in New(q), x.sid = y.sid, x.sid # None
      PROVE  o = q /\ x = y
  <2>1. \/ o = r /\ x = own
        \/ x \in SeatsOf(o) /\ x.sid # s
    BY <1>7, <1>8
  <2>2. \/ q = r /\ y = own
        \/ y \in SeatsOf(q) /\ y.sid # s
    BY <1>7, <1>8
  <2> QED
    BY <1>1, <1>6, <1>8, <2>1, <2>2 DEF SeatsApart
<1>9. \A q \in Rooms : Distinct(rooms'[q].seats)
  BY <1>1, <1>2 DEF SitsDown, SeatsApart
<1>10. SeatsApart'
  BY <1>8, <1>9 DEF SeatsApart, SeatsOf, New
<1>11. RoomsFit'
  <2> SUFFICES ASSUME NEW q \in Rooms
               PROVE  /\ rooms'[q].stage = "none" \/ rooms'[q].kind = "none" => rooms'[q] = NoRoom
                      /\ rooms'[q].kind = "restored" => \A x \in New(q) : x.who \in Saved
                      /\ rooms'[q].late # {} => rooms'[q].kind = "restored" /\ rooms'[q].stage \in {"running", "over"}
                      /\ \A x \in New(q) : x.who \in rooms'[q].late => x.sid = None
    BY DEF RoomsFit, SeatsOf, New
  <2>1. CASE q # r
    BY <1>1, <1>2, <1>3, <2>1 DEF RoomsFit
  <2>2. CASE q = r
    BY <1>2, <1>3, <2>2 DEF SitsDown
  <2> QED
    BY <2>1, <2>2
<1>12. \A x \in Sids : at'[x] = IF x = s THEN r ELSE IF at[x] = r /\ auth[x] = p THEN None ELSE at[x]
  BY DEF SitsDown
<1>13. auth[s] = p /\ p # None
  BY DEF SitsDown, People
<1>14. ASSUME NEW x \in Sids, at'[x] # None
       PROVE  /\ auth'[x] # None /\ conn'[x] # "free"
              /\ \E y \in New(at'[x]) : y.sid = x /\ ~y.away
  <2>1. CASE x = s
    BY <1>6, <1>12, <1>13, <1>14, <2>1 DEF Fades
  <2>2. CASE x # s
    <3>1. at'[x] = at[x] /\ at[x] # None /\ at[x] \in Rooms /\ auth[x] # None /\ (at[x] = r => auth[x] # p)
      BY <1>1, <1>12, <1>14, <2>2 DEF SessionsTypeOK, Seated
    <3>2. PICK y \in SeatsOf(at[x]) : y.sid = x /\ ~y.away
      BY <1>1, <3>1 DEF Seated
    <3>3. y.who = auth[x]
      BY <1>1, <3>1, <3>2 DEF Seated
    <3>4. y \in New(at[x])
      BY <1>3, <3>1, <3>2, <3>3 DEF SitsDown
    <3> QED
      BY <1>14, <3>1, <3>2, <3>4 DEF Fades
  <2> QED
    BY <2>1, <2>2
<1>15. ASSUME NEW q \in Rooms, NEW y \in New(q)
       PROVE  /\ ~y.away /\ rooms'[q].kind # "restored" => y.sid # None /\ at'[y.sid] = q
              /\ y.sid # None /\ auth'[y.sid] # None => y.who = auth'[y.sid]
  <2>1. CASE q = r /\ y = own
    BY <1>1, <1>6, <1>12, <1>13, <2>1 DEF Fades
  <2>2. CASE q = r /\ y.sid = None /\ y.away
    BY <2>2
  <2>3. CASE y \in SeatsOf(q) /\ (q = r => y.who # p) /\ y.sid # s
    <3>1. y.sid # None => y.sid \in Sids
      BY <1>1, <2>3, SeatTyped
    <3>2. y.sid # None /\ auth[y.sid] # None => y.who = auth[y.sid]
      BY <1>1, <2>3 DEF Seated
    <3>3. y.sid # None /\ auth'[y.sid] # None => y.who = auth'[y.sid]
      BY <3>1, <3>2 DEF Fades
    <3>4. rooms'[q].kind = rooms[q].kind
      <4>1. rooms[q] # NoRoom
        BY <2>3 DEF NoRoom, SeatsOf, ToSet
      <4> QED
        BY <1>2, <4>1 DEF SitsDown
    <3>5. ~y.away /\ rooms[q].kind # "restored" => y.sid # None /\ at[y.sid] = q
      BY <1>1, <2>3 DEF Seated
    <3>6. y.sid # None /\ at[y.sid] = q => at'[y.sid] = q
      <4> SUFFICES ASSUME y.sid # None, at[y.sid] = q
                   PROVE  at'[y.sid] = q
        OBVIOUS
      <4>1. auth[y.sid] # None
        BY <1>1, <3>1 DEF Seated
      <4> QED
        BY <1>12, <1>13, <2>3, <3>1, <3>2, <4>1
    <3> QED
      BY <3>3, <3>4, <3>5, <3>6
  <2> QED
    BY <1>7, <2>1, <2>2, <2>3
<1>16. Seated'
  BY <1>14, <1>15 DEF Seated, SeatsOf, New
<1>17. OwnerSits'
  <2> SUFFICES ASSUME NEW q \in Rooms, rooms'[q].kind = "normal"
               PROVE  \E x \in New(q) : x.sid = rooms'[q].owner
    BY DEF OwnerSits, SeatsOf, New
  <2>1. CASE q # r
    BY <1>1, <1>2, <1>3, <2>1 DEF OwnerSits
  <2>2. CASE q = r
    BY <1>2, <1>3, <2>2 DEF SitsDown
  <2> QED
    BY <2>1, <2>2
<1> QED
  BY <1>10, <1>11, <1>16, <1>17

(* Token t of p comes with connection s, and leaves every other one it had. *)
(* Until then it kept p's seat, if one was kept.                            *)
TakesToken(s, p, r, t) ==
  /\ IF t \in Users THEN t = p ELSE p \in Guests
  /\ \A u \in Tokens : grace[u] # NoGrace /\ grace[u].sid = s => u = t
  /\ p \in Guests => \A x \in SeatsOf(r) : x.who = p /\ x.sid # None => mine[x.sid] = t
  /\ \E i \in TokenRecord : i.sid = s /\ i.who = p /\ token' = [token EXCEPT ![t] = i]
  /\ grace' = [grace EXCEPT ![t] = NoGrace]
  /\ mine' \in [Sids -> Tokens \cup {None}] /\ mine'[s] = t
  /\ \A x \in Sids \ {s} : mine'[x] = mine[x] \/ (mine'[x] = None /\ mine[x] = t)
  /\ t \in GuestTokens => \A x \in Sids \ {s} : mine'[x] # t

LEMMA ArrivalTokens ==
  ASSUME SessionsInv, Fades, NEW s \in Sids, NEW p, NEW r \in Rooms, NEW t \in Tokens, NEW new,
         SitsDown(s, p, r, new), TakesToken(s, p, r, t)
  PROVE  TokensFit' /\ GraceFits' /\ SessionsTypeOK'
<1> USE SessionsAssumption
<1> DEFINE New(q) == ToSet(rooms'[q].seats)
<1>1. /\ SessionsTypeOK /\ SeatsApart /\ RoomsFit /\ Seated /\ TokensFit /\ GraceFits
      /\ None \notin Sids /\ None \notin Rooms /\ None \notin Tokens
  BY DEF SessionsInv, Tokens
<1>2. rooms'[r] = new /\ (\A q \in Rooms : q # r => rooms'[q] = rooms[q]) /\ rooms' \in [Rooms -> RoomRecord]
  BY <1>1 DEF SitsDown, SessionsTypeOK
<1>3. New(r) = ToSet(new.seats) /\ \A q \in Rooms : q # r => New(q) = SeatsOf(q)
  BY <1>2 DEF SeatsOf
<1> HIDE DEF New
<1>4. \A q \in Rooms : \A x \in SeatsOf(q) : x.sid = s => q = r /\ x.who = p
  BY DEF SitsDown
<1>5. \A x \in Sids : at'[x] = IF x = s THEN r ELSE IF at[x] = r /\ auth[x] = p THEN None ELSE at[x]
  BY DEF SitsDown
<1>6. auth[s] = p /\ auth'[s] = p /\ p # None /\ at[s] = None /\ p \in People
  BY <1>1, <1>5 DEF SitsDown, People, Fades
<1>7. token'[t] \in TokenRecord /\ token'[t].sid = s /\ token'[t].who = p
  BY <1>1, <1>6 DEF TakesToken, SessionsTypeOK, TokenRecord
<1>8. \A u \in Tokens : u # t => token'[u] = token[u] /\ grace'[u] = grace[u]
  BY <1>1 DEF TakesToken, SessionsTypeOK
<1>9. grace'[t] = NoGrace /\ grace' = [u \in Tokens |-> grace'[u]]
  BY <1>1 DEF TakesToken, SessionsTypeOK
<1>10. SessionsTypeOK'
  <2>1. token' \in [Tokens -> TokenRecord \cup {NoToken}]
    BY <1>1, <1>7 DEF TakesToken, SessionsTypeOK
  <2>2. \A u \in Tokens : grace'[u] # NoGrace => grace'[u].room \in Rooms /\ grace'[u].sid \in Sids
    BY <1>1, <1>8, <1>9 DEF SessionsTypeOK
  <2> QED
    BY <1>2, <1>9, <2>1, <2>2 DEF SessionsTypeOK, SitsDown, TakesToken, Fades
<1>11. t \in Users => t = p
  BY DEF TakesToken
<1>12. t \notin Users => t \in GuestTokens /\ p \in Guests
  BY DEF TakesToken, Tokens
<1>13. \A x \in Sids : x # s => mine'[x] = mine[x] \/ (mine'[x] = None /\ mine[x] = t)
  BY DEF TakesToken
(* no other token still names s *)
<1>14. ASSUME NEW u \in Tokens, u # t, token[u] # NoToken
       PROVE  token[u].sid \in Sids \ {s} /\ mine[token[u].sid] = u /\ mine'[token[u].sid] = u
  <2>1. token[u].sid \in Sids /\ mine[token[u].sid] = u
    BY <1>1, <1>14 DEF SessionsTypeOK, TokenRecord, TokensFit
  <2>2. token[u].sid # s
    <3> SUFFICES ASSUME token[u].sid = s
                 PROVE  FALSE
      OBVIOUS
    <3>1. token[u].who = p
      BY <1>1, <1>6, <1>14 DEF TokensFit
    <3>2. CASE u \in Users
      <4>1. u = p
        BY <1>1, <1>14, <3>1, <3>2 DEF TokensFit
      <4> QED
        BY <1>11, <1>12, <1>14, <3>2, <4>1
    <3>3. CASE u \notin Users
      <4>1. grace[u] # NoGrace
        BY <1>1, <1>6, <1>14, <3>3 DEF TokensFit, Tokens
      <4>2. mine[grace[u].sid] = u /\ grace[u].sid \in Sids
        BY <1>1, <4>1 DEF GraceFits, SessionsTypeOK
      <4>3. token[u].sid = grace[u].sid
        BY <1>1, <3>3, <4>2 DEF TokensFit, Tokens
      <4> QED
        BY <1>14, <4>1, <4>3 DEF TakesToken
    <3> QED
      BY <3>2, <3>3
  <2> QED
    BY <1>1, <1>13, <1>14, <2>1, <2>2
<1>15. ASSUME NEW u \in Tokens, token'[u] # NoToken
       PROVE  /\ IF u \in Users THEN token'[u].who = u ELSE token'[u].who \in Guests
              /\ mine'[token'[u].sid] = u
              /\ auth'[token'[u].sid] # None => auth'[token'[u].sid] = token'[u].who
  <2>1. CASE u = t
    BY <1>6, <1>7, <1>11, <1>12, <2>1 DEF TakesToken
  <2>2. CASE u # t
    <3>1. token'[u] = token[u] /\ token[u] # NoToken
      BY <1>8, <1>15, <2>2
    <3>2. token[u].sid \in Sids /\ mine'[token[u].sid] = u
      BY <1>14, <2>2, <3>1
    <3>3. IF u \in Users THEN token[u].who = u ELSE token[u].who \in Guests
      BY <1>1, <3>1 DEF TokensFit
    <3>4. auth[token[u].sid] # None => auth[token[u].sid] = token[u].who
      BY <1>1, <3>1 DEF TokensFit
    <3>5. auth'[token[u].sid] # None => auth'[token[u].sid] = token[u].who
      BY <3>2, <3>4 DEF Fades
    <3> QED
      BY <3>1, <3>2, <3>3, <3>5
  <2> QED
    BY <2>1, <2>2
<1>16. ASSUME NEW x \in Sids, mine'[x] \in GuestTokens
       PROVE  token'[mine'[x]] # NoToken /\ token'[mine'[x]].sid = x
  <2>1. CASE x = s
    <3>1. mine'[x] = t
      BY <2>1 DEF TakesToken
    <3> QED
      BY <1>1, <1>7, <2>1, <3>1 DEF NoToken
  <2>2. CASE x # s
    <3>1. mine'[x] # t /\ mine'[x] = mine[x] /\ mine[x] \in Tokens
      BY <1>1, <1>13, <1>16, <2>2 DEF TakesToken, Tokens
    <3> QED
      BY <1>1, <1>8, <1>16, <3>1 DEF TokensFit
  <2> QED
    BY <2>1, <2>2
<1>17. ASSUME NEW u \in GuestTokens, token'[u] # NoToken
       PROVE  grace'[u] # NoGrace \/ at'[token'[u].sid] # None
  <2>1. CASE u = t
    BY <1>1, <1>5, <1>7, <2>1
  <2>2. CASE u # t
    <3>1. u \in Tokens /\ token'[u] = token[u] /\ grace'[u] = grace[u] /\ token[u] # NoToken
      BY <1>8, <1>17, <2>2 DEF Tokens
    <3> DEFINE g == token[u].sid
    <3>2. g \in Sids \ {s} /\ mine[g] = u
      BY <1>14, <2>2, <3>1
    <3>3. grace[u] # NoGrace \/ at[g] # None
      BY <1>1, <3>1 DEF TokensFit
    <3>4. u \notin Users
      OBVIOUS
    <3>5. ASSUME at[g] = r, auth[g] = p
          PROVE  FALSE
      <4>1. token[u].who = p /\ p \in Guests
        BY <1>1, <1>6, <3>1, <3>4, <3>5 DEF TokensFit
      <4>2. PICK x \in SeatsOf(r) : x.sid = g
        BY <1>1, <3>2, <3>5 DEF Seated
      <4>3. x.who = p
        BY <1>1, <1>6, <3>2, <3>5, <4>2 DEF Seated
      <4>4. mine[g] = t
        BY <1>1, <3>2, <4>1, <4>2, <4>3 DEF TakesToken
      <4> QED
        BY <2>2, <3>2, <4>4
    <3> QED
      BY <1>5, <3>1, <3>2, <3>3, <3>5
  <2> QED
    BY <2>1, <2>2
<1>18. \A y \in New(r) : y.who = p => y.sid = s
  <2>1. PICK own \in New(r) : own.sid = s /\ own.who = p
    BY <1>3 DEF SitsDown
  <2>2. \A y, z \in New(r) : y.who = z.who => y = z
    BY <1>3 DEF SitsDown, Distinct, ToSet
  <2> QED
    BY <2>1, <2>2
<1>19. \A y \in New(r) : y.who # p => y \in SeatsOf(r) \/ y.sid = None
  BY <1>3 DEF SitsDown
<1>20. ASSUME NEW x \in Sids, mine'[x] # None, at'[x] # None, NEW y \in New(at'[x]), y.sid = x
       PROVE  y.who = OwnerOf(mine[x])'
  <2>1. OwnerOf(mine[x])' = IF mine'[x] \in Users THEN mine'[x] ELSE token'[mine'[x]].who
    BY DEF OwnerOf
  <2>2. CASE x = s
    <3>1. at'[x] = r /\ mine'[x] = t
      BY <1>5, <2>2 DEF TakesToken
    <3>2. y.who = p
      BY <1>1, <1>4, <1>19, <1>20, <2>2, <3>1
    <3> QED
      BY <1>7, <1>11, <2>1, <3>1, <3>2
  <2>3. CASE x # s
    <3>1. mine'[x] = mine[x] /\ at'[x] = at[x] /\ mine[x] \in Tokens /\ at[x] \in Rooms
      BY <1>1, <1>5, <1>13, <1>20, <2>3 DEF SessionsTypeOK
    <3>2. y \in SeatsOf(at[x])
      BY <1>1, <1>3, <1>18, <1>19, <1>20, <2>3, <3>1
    <3>3. y.who = OwnerOf(mine[x])
      BY <1>1, <1>20, <3>1, <3>2 DEF TokensFit
    <3>4. mine[x] \notin Users => mine[x] # t
      BY <1>12, <2>3, <3>1 DEF TakesToken
    <3> QED
      BY <1>8, <2>1, <3>1, <3>3, <3>4 DEF OwnerOf
  <2> QED
    BY <2>2, <2>3
<1>21. TokensFit'
  BY <1>15, <1>16, <1>17, <1>20 DEF TokensFit, SeatsOf, New
<1>22. ASSUME NEW u \in Tokens, grace'[u] # NoGrace
       PROVE  /\ mine'[grace'[u].sid] = u /\ at'[grace'[u].sid] = None
              /\ \E x \in New(grace'[u].room) :
                   /\ x.sid = grace'[u].sid /\ x.who = OwnerOf(u)'
                   /\ x.away \/ rooms'[grace'[u].room].kind = "restored"
  <2>1. u # t /\ grace'[u] = grace[u] /\ token'[u] = token[u] /\ grace[u] # NoGrace
    BY <1>8, <1>9, <1>22
  <2> DEFINE g == grace[u].sid
             q == grace[u].room
  <2>2. g \in Sids /\ g # s /\ q \in Rooms /\ mine[g] = u /\ at[g] = None
    BY <1>1, <2>1 DEF GraceFits, SessionsTypeOK, TakesToken
  <2>3. mine'[g] = u /\ at'[g] = None
    BY <1>5, <1>13, <2>1, <2>2
  <2>4. PICK x \in SeatsOf(q) : x.sid = g /\ x.who = OwnerOf(u) /\ (x.away \/ rooms[q].kind = "restored")
    BY <1>1, <2>1 DEF GraceFits
  <2>5. q = r => x.who # p
    <3> SUFFICES ASSUME q = r, x.who = p
                 PROVE  FALSE
      OBVIOUS
    <3>1. CASE u \in Users
      <4>1. u = p
        BY <2>4, <3>1 DEF OwnerOf
      <4> QED
        BY <1>11, <1>12, <2>1, <3>1, <4>1
    <3>2. CASE u \notin Users
      <4>1. u \in GuestTokens /\ token[u].who = p
        BY <2>4, <3>2 DEF OwnerOf, Tokens
      <4>2. token[u] # NoToken
        BY <1>1, <2>2, <4>1 DEF TokensFit
      <4>3. p \in Guests
        BY <1>1, <3>2, <4>1, <4>2 DEF TokensFit
      <4>4. mine[x.sid] = t
        BY <1>1, <2>2, <2>4, <4>3 DEF TakesToken
      <4> QED
        BY <2>1, <2>2, <2>4, <4>4
    <3> QED
      BY <3>1, <3>2
  <2>6. x \in New(q)
    BY <1>3, <2>2, <2>4, <2>5 DEF SitsDown
  <2>7. rooms'[q].kind = rooms[q].kind
    <3>1. rooms[q] # NoRoom
      BY <2>4 DEF NoRoom, SeatsOf, ToSet
    <3> QED
      BY <1>2, <2>2, <3>1 DEF SitsDown
  <2>8. OwnerOf(u)' = OwnerOf(u)
    BY <2>1 DEF OwnerOf
  <2> QED
    BY <2>1, <2>3, <2>4, <2>6, <2>7, <2>8
<1>23. GraceFits'
  BY <1>22 DEF GraceFits, SeatsOf, New
<1> QED
  BY <1>10, <1>21, <1>23

(* every way in *)
LEMMA ArrivalKeeps ==
  ASSUME SessionsInv, Fades, NEW s \in Sids, NEW p, NEW r \in Rooms, NEW t \in Tokens, NEW new,
         SitsDown(s, p, r, new), TakesToken(s, p, r, t)
  PROVE  SessionsInv'
BY ArrivalSeats, ArrivalTokens DEF SessionsInv

LEMMA NewcomerFades ==
  ASSUME SessionsInv, NEW s \in Sids, conn[s] = "open", auth[s] # None, auth' = auth, conn' = conn,
         \A x \in Sids : x = s \/ at'[x] \in {at[x], None}
  PROVE  Fades
BY DEF SessionsInv, SessionsTypeOK, Seated, Fades

(* generate_reconnect_token, for somebody whose connection has no seat *)
LEMMA IssueTakes ==
  ASSUME SessionsInv, NEW s \in Sids, NEW p \in People, NEW r \in Rooms, NEW t \in TokensFor(p), Issue(t, s, r, p),
         \A q \in Rooms : \A x \in SeatsOf(q) : x.sid # s,
         \A x \in SeatsOf(r) : x.who = p => x.sid = None
  PROVE  t \in Tokens /\ TakesToken(s, p, r, t)
<1> USE SessionsAssumption
<1>1. SessionsTypeOK /\ GraceFits /\ TokensFit /\ None \notin Sids /\ None \notin Tokens
  BY DEF SessionsInv, Tokens
<1>2. /\ t \in Tokens /\ (IF t \in Users THEN t = p ELSE p \in Guests)
      /\ t \in GuestTokens => \A x \in Sids : mine[x] # t
  BY DEF TokensFor, Tokens, People, TokenUnused
<1>3. \A u \in Tokens : grace[u] # NoGrace => grace[u].sid # s
  BY <1>1 DEF GraceFits, SessionsTypeOK
<1>4. /\ [room |-> r, sid |-> s, who |-> p] \in TokenRecord
      /\ [room |-> r, sid |-> s, who |-> p].sid = s /\ [room |-> r, sid |-> s, who |-> p].who = p
  BY DEF TokenRecord
<1>5. /\ token' = [token EXCEPT ![t] = [room |-> r, sid |-> s, who |-> p]]
      /\ grace' = [grace EXCEPT ![t] = NoGrace]
      /\ mine' = [x \in Sids |-> IF x = s THEN t ELSE IF x \in {token[t].sid} THEN None ELSE mine[x]]
  BY DEF Issue, Keeps
<1>6. \A x \in Sids : x = token[t].sid => mine[x] = t
  BY <1>1, <1>2 DEF TokensFit, NoToken
<1>7. /\ mine' \in [Sids -> Tokens \cup {None}] /\ mine'[s] = t
      /\ \A x \in Sids \ {s} : mine'[x] = mine[x] \/ (mine'[x] = None /\ mine[x] = t)
  BY <1>1, <1>2, <1>5, <1>6 DEF SessionsTypeOK
<1>8. t \in GuestTokens => \A x \in Sids \ {s} : mine'[x] # t
  BY <1>1, <1>2, <1>7
<1>9. \E i \in TokenRecord : i.sid = s /\ i.who = p /\ token' = [token EXCEPT ![t] = i]
  BY <1>4, <1>5
<1> QED
  BY <1>2, <1>3, <1>5, <1>7, <1>8, <1>9 DEF TakesToken

(* A connection that is free to enter has no seat anywhere. *)
LEMMA FreeHasNone ==
  ASSUME SessionsInv, ~MovesOn, NEW s \in Sids, Free(s)
  PROVE  /\ at[s] = None /\ auth[s] \in People /\ conn[s] = "open"
         /\ \A q \in Rooms : \A x \in SeatsOf(q) : x.sid # s
<1>1. at[s] = None
  BY NowhereElse DEF Free, InLobby
<1>2. auth[s] \in People /\ conn[s] = "open"
  BY DEF Free, InLobby, SessionsInv, SessionsTypeOK
<1>3. \A q \in Rooms : \A x \in SeatsOf(q) : x.sid = s => q = None
  BY DEF Free, Unattached
<1> QED
  BY <1>1, <1>2, <1>3, SessionsAssumption

LEMMA AppendSeat ==
  ASSUME NEW seats \in Seq(SeatRecord), Distinct(seats), NEW y \in SeatRecord, \A x \in ToSet(seats) : x.who # y.who
  PROVE  LET new == Append(seats, y) IN
         new \in Seq(SeatRecord) /\ Distinct(new) /\ ToSet(new) = ToSet(seats) \cup {y}
<1> DEFINE new == Append(seats, y)
           n == Len(seats)
<1>1. n \in Nat /\ DOMAIN seats = 1 .. n
  OBVIOUS
<1>2. new \in Seq(SeatRecord) /\ DOMAIN new = 1 .. n + 1 /\ new[n + 1] = y /\ \A i \in 1 .. n : new[i] = seats[i]
  OBVIOUS
<1> HIDE DEF new, n
<1>3. \A i \in 1 .. n : seats[i] \in ToSet(seats)
  BY <1>1 DEF ToSet
<1>4. \A i \in 1 .. n + 1 : i = n + 1 \/ i \in 1 .. n
  BY <1>1
<1>5. Distinct(new)
  BY <1>1, <1>2, <1>3, <1>4 DEF Distinct
<1>6. n + 1 \in 1 .. n + 1 /\ \A i \in 1 .. n : i \in 1 .. n + 1
  BY <1>1
<1>7. ToSet(new) = ToSet(seats) \cup {y}
  BY <1>1, <1>2, <1>4, <1>6 DEF ToSet
<1> QED
  BY <1>2, <1>5, <1>7 DEF new

(* join_room *)
LEMMA JoinRoomKeeps ==
  ASSUME SessionsInv, ~MovesOn, NEW s \in Sids, NEW r \in Rooms, JoinRoom(s, r)
  PROVE  SessionsInv'
<1> USE SessionsAssumption
<1> DEFINE p == auth[s]
           y == Seat(s, p, FALSE)
           seats == Append(rooms[r].seats, y)
           new == [rooms[r] EXCEPT !.seats = seats]
<1>1. SessionsTypeOK /\ Free(s) /\ OwnerSits /\ RoomsFit
  BY DEF SessionsInv, JoinRoom
<1>2. at[s] = None /\ p \in People /\ conn[s] = "open" /\ \A q \in Rooms : \A x \in SeatsOf(q) : x.sid # s
  BY <1>1, FreeHasNone
<1>3. /\ rooms' = [rooms EXCEPT ![r] = new] /\ at' = [at EXCEPT ![s] = r]
      /\ \E t \in TokensFor(p) : Issue(t, s, r, p)
      /\ auth' = auth /\ conn' = conn
  BY DEF JoinRoom, Enter
<1>4. rooms[r].stage = "waiting" /\ rooms[r].kind # "none" /\ rooms[r].late = {}
  BY <1>1 DEF JoinRoom, RoomsFit, NoRoom
<1>5. (\A x \in SeatsOf(r) : x.who # p) /\ (rooms[r].kind = "restored" => p \in Saved)
  BY DEF JoinRoom
<1>6. rooms[r] \in RoomRecord /\ rooms[r].seats \in Seq(SeatRecord) /\ Distinct(rooms[r].seats)
  BY RoomSeats
<1>7. y \in SeatRecord /\ y.sid = s /\ y.who = p /\ ~y.away
  BY <1>2 DEF Seat, SeatRecord
<1> HIDE DEF y
<1>8. seats \in Seq(SeatRecord) /\ Distinct(seats) /\ ToSet(seats) = SeatsOf(r) \cup {y}
  BY <1>5, <1>6, <1>7, AppendSeat DEF SeatsOf
<1> HIDE DEF seats
<1>9. /\ new \in RoomRecord /\ new.kind = rooms[r].kind /\ new.stage = "waiting" /\ new.late = {}
      /\ new.seats = seats /\ new.owner = rooms[r].owner
  BY <1>4, <1>6, <1>8 DEF RoomRecord
<1> HIDE DEF new
<1>10. /\ at' \in [Sids -> Rooms \cup {None}]
       /\ \A x \in Sids : at'[x] = IF x = s THEN r ELSE at[x]
  BY <1>1, <1>3 DEF SessionsTypeOK
<1>11. \A x \in Sids : at[x] = r => auth[x] # p
  <2> SUFFICES ASSUME NEW x \in Sids, at[x] = r
               PROVE  auth[x] # p
    OBVIOUS
  <2>1. PICK z \in SeatsOf(r) : z.sid = x
    BY OneOwnSeat
  <2> QED
    BY <1>5, <2>1 DEF SessionsInv, Seated
<1>12. \A x \in SeatsOf(r) : rooms[r].kind = "restored" => x.who \in Saved
  BY <1>1 DEF RoomsFit
<1>13. new.kind = "normal" => \E z \in ToSet(new.seats) : z.sid = new.owner
  BY <1>1, <1>8, <1>9 DEF OwnerSits
<1>14. SitsDown(s, p, r, new)
  BY <1>2, <1>3, <1>4, <1>5, <1>7, <1>8, <1>9, <1>10, <1>11, <1>12, <1>13 DEF SitsDown
<1>15. Fades
  BY <1>2, <1>3, <1>10, NewcomerFades DEF People
<1>16. PICK t \in TokensFor(p) : Issue(t, s, r, p)
  BY <1>3
<1> HIDE DEF p
<1>17. t \in Tokens /\ TakesToken(s, p, r, t)
  BY <1>2, <1>5, <1>16, IssueTakes
<1> QED
  BY <1>14, <1>15, <1>17, ArrivalKeeps

LEMMA OneSeatOf ==
  ASSUME SessionsInv, NEW r \in Rooms, NEW i \in DOMAIN rooms[r].seats, NEW y \in SeatRecord,
         y.who = rooms[r].seats[i].who
  PROVE  LET new == Given(rooms[r].seats, i, y) IN
         new \in Seq(SeatRecord) /\ Distinct(new) /\ ToSet(new) = (SeatsOf(r) \ {rooms[r].seats[i]}) \cup {y}
BY RoomSeats, OneSeat DEF SeatsOf

(* p's seat x in room r, whoever has it, passes to connection s. *)
LEMMA SeatPasses ==
  ASSUME SessionsInv, NEW s \in Sids, NEW p \in People, NEW r \in Rooms, at[s] = None, auth[s] = p,
         \A q \in Rooms : \A z \in SeatsOf(q) : z.sid = s => q = r /\ z.who = p,
         NEW x \in SeatsOf(r), x.who = p, NEW new \in RoomRecord, rooms' = [rooms EXCEPT ![r] = new],
         new.kind = rooms[r].kind, new.stage = rooms[r].stage, new.late \subseteq rooms[r].late, p \notin new.late,
         Distinct(new.seats), ToSet(new.seats) = (SeatsOf(r) \ {x}) \cup {Seat(s, p, FALSE)},
         new.kind = "normal" => new.owner \in {rooms[r].owner, s} /\ (rooms[r].owner = x.sid => new.owner = s),
         at' \in [Sids -> Rooms \cup {None}],
         \A z \in Sids : at'[z] = IF z = s THEN r ELSE IF at[z] = r /\ auth[z] = p THEN None ELSE at[z]
  PROVE  SitsDown(s, p, r, new)
<1> USE SessionsAssumption
<1> DEFINE y == Seat(s, p, FALSE)
<1>1. y.sid = s /\ y.who = p /\ y.away = FALSE
  BY DEF Seat
<1> HIDE DEF y
<1>2. ToSet(new.seats) = (SeatsOf(r) \ {x}) \cup {y}
  BY DEF y
<1>3. RoomsFit /\ OwnerSits /\ Distinct(rooms[r].seats)
  BY DEF SessionsInv, SeatsApart
<1>4. rooms[r] # NoRoom
  BY DEF NoRoom, SeatsOf, ToSet
<1>5. rooms[r].kind # "none" /\ rooms[r].stage # "none"
  BY <1>3, <1>4 DEF RoomsFit
<1>6. \A z \in SeatsOf(r) : z.who = p => z = x
  BY <1>3 DEF Distinct, SeatsOf, ToSet
<1>7. \A z \in ToSet(new.seats) : z.who # p => z \in SeatsOf(r)
  BY <1>1, <1>2
<1>8. \A z \in SeatsOf(r) : z.who # p => z \in ToSet(new.seats)
  BY <1>2
<1>9. new.late # {} => new.kind = "restored" /\ new.stage \in {"running", "over"}
  BY <1>3 DEF RoomsFit
<1>10. \A z \in ToSet(new.seats) : /\ z.who \in new.late => z.sid = None
                                   /\ new.kind = "restored" => z.who \in Saved
  <2>1. new.kind = "restored" => \A z \in SeatsOf(r) : z.who \in Saved
    BY <1>3 DEF RoomsFit
  <2>2. \A z \in SeatsOf(r) : z.who \in new.late => z.sid = None
    BY <1>3 DEF RoomsFit
  <2>3. \A z \in ToSet(new.seats) : z \in SeatsOf(r) \/ z = y
    BY <1>2
  <2>4. y.who \in new.late => y.sid = None
    BY <1>1
  <2>5. new.kind = "restored" => y.who \in Saved
    BY <1>1, <2>1
  <2> QED
    BY <2>1, <2>2, <2>3, <2>4, <2>5
<1>11. new.kind = "normal" => \E z \in ToSet(new.seats) : z.sid = new.owner
  <2> SUFFICES ASSUME new.kind = "normal"
               PROVE  \E z \in ToSet(new.seats) : z.sid = new.owner
    OBVIOUS
  <2>1. PICK z \in SeatsOf(r) : z.sid = rooms[r].owner
    BY <1>3 DEF OwnerSits
  <2>2. CASE new.owner = s
    BY <1>1, <1>2, <2>2
  <2>3. CASE new.owner # s
    BY <1>2, <2>1, <2>3
  <2> QED
    BY <2>2, <2>3
<1>12. \E z \in ToSet(new.seats) : z.sid = s /\ z.who = p /\ ~z.away
  BY <1>1, <1>2
<1> QED
  BY <1>5, <1>7, <1>8, <1>9, <1>10, <1>11, <1>12 DEF SitsDown

(* late_join *)
LEMMA LateJoinKeeps ==
  ASSUME SessionsInv, ~MovesOn, NEW s \in Sids, NEW r \in Rooms, LateJoin(s, r)
  PROVE  SessionsInv'
<1> USE SessionsAssumption
<1> DEFINE p == auth[s]
<1>1. SessionsTypeOK /\ Free(s) /\ RoomsFit /\ p \in rooms[r].late
  BY DEF SessionsInv, LateJoin
<1>2. at[s] = None /\ p \in People /\ conn[s] = "open" /\ \A q \in Rooms : \A x \in SeatsOf(q) : x.sid # s
  BY <1>1, FreeHasNone
<1>3. PICK i \in DOMAIN rooms[r].seats :
        /\ TakesSeat(s, rooms[r].seats[i])
        /\ Enter(s, r, [rooms[r] EXCEPT
             !.seats[i] = [@ EXCEPT !.sid = s, !.away = FALSE],
             !.late = @ \ {auth[s]}])
  BY Zenon DEF LateJoin
<1> DEFINE x == rooms[r].seats[i]
           y == Taken(x, s)
           seats == Given(rooms[r].seats, i, y)
           late == rooms[r].late \ {p}
           new == [rooms[r] EXCEPT !.seats = seats, !.late = late]
<1>4. rooms[r] \in RoomRecord /\ rooms[r].seats \in Seq(SeatRecord) /\ Distinct(rooms[r].seats)
  BY RoomSeats
<1>5. x \in SeatsOf(r) /\ x \in SeatRecord /\ x.who = p /\ x.away
  BY <1>3, <1>4 DEF SeatsOf, ToSet, TakesSeat
<1>6. /\ rooms' = [rooms EXCEPT ![r] = new] /\ at' = [at EXCEPT ![s] = r]
      /\ \E t \in TokensFor(p) : Issue(t, s, r, p)
      /\ auth' = auth /\ conn' = conn
  BY <1>3, Zenon DEF Enter, Taken, Given
<1>7. y \in SeatRecord /\ y.who = x.who /\ y = Seat(s, p, FALSE)
  <2> HIDE DEF x, p
  <2> QED
    BY <1>5, SeatForm
<1> HIDE DEF y
<1>8. seats \in Seq(SeatRecord) /\ Distinct(seats) /\ ToSet(seats) = (SeatsOf(r) \ {x}) \cup {y}
  <2>1. y.who = rooms[r].seats[i].who
    BY <1>7
  <2> HIDE DEF p
  <2>2. y \in SeatRecord
    BY <1>7
  <2>3. seats \in Seq(SeatRecord)
    BY <2>1, <2>2, OneSeatOf
  <2>4. Distinct(seats)
    BY <2>1, <2>2, OneSeatOf
  <2>5. ToSet(seats) = (SeatsOf(r) \ {x}) \cup {y}
    BY <2>1, <2>2, OneSeatOf
  <2> QED
    BY <2>3, <2>4, <2>5
<1> HIDE DEF seats
<1>9. late \in SUBSET People
  BY <1>4 DEF RoomRecord
<1>10. /\ new \in RoomRecord /\ new.kind = rooms[r].kind /\ new.stage = rooms[r].stage /\ new.late = late
       /\ new.seats = seats /\ new.owner = rooms[r].owner
  <2> HIDE DEF late
  <2> QED
    BY <1>4, <1>8, <1>9 DEF RoomRecord
<1>11. rooms[r].kind = "restored" /\ x.sid = None /\ \A z \in SeatsOf(r) : z.who = p => z.sid = None
  BY <1>1, <1>5 DEF RoomsFit
<1>12. at' \in [Sids -> Rooms \cup {None}] /\ \A z \in Sids : at'[z] = IF z = s THEN r ELSE at[z]
  BY <1>1, <1>6 DEF SessionsTypeOK
<1>13. \A z \in Sids : at[z] = r => auth[z] # p
  <2> SUFFICES ASSUME NEW z \in Sids, at[z] = r
               PROVE  auth[z] # p
    OBVIOUS
  <2>1. PICK w \in SeatsOf(r) : w.sid = z
    BY OneOwnSeat
  <2> QED
    BY <1>11, <2>1 DEF SessionsInv, Seated
<1> HIDE DEF new
<1>14. Fades
  BY <1>2, <1>6, <1>12, NewcomerFades DEF People
<1>15. PICK t \in TokensFor(p) : Issue(t, s, r, p)
  BY <1>6
<1>16. auth[s] = p
  OBVIOUS
<1>17. ToSet(new.seats) = (SeatsOf(r) \ {x}) \cup {Seat(s, p, FALSE)} /\ new.late = late /\ new.kind # "normal"
  BY <1>7, <1>8, <1>10, <1>11
<1>18. Distinct(new.seats) /\ late \subseteq rooms[r].late /\ p \notin late
  BY <1>8, <1>10
<1> HIDE DEF p, x, late
<1>19. SitsDown(s, p, r, new)
  <2>1. \A z \in Sids : at'[z] = IF z = s THEN r ELSE IF at[z] = r /\ auth[z] = p THEN None ELSE at[z]
    BY <1>12, <1>13
  <2> QED
    BY <1>2, <1>5, <1>6, <1>10, <1>12, <1>16, <1>17, <1>18, <2>1, SeatPasses, Zenon
<1>20. t \in Tokens /\ TakesToken(s, p, r, t)
  BY <1>2, <1>11, <1>15, IssueTakes
<1> QED
  BY <1>14, <1>19, <1>20, ArrivalKeeps

(* open_async_game *)
LEMMA OpenAsyncKeeps ==
  ASSUME SessionsInv, ~MovesOn, NEW s \in Sids, NEW r \in Rooms, OpenAsync(s, r)
  PROVE  SessionsInv'
<1> USE SessionsAssumption
<1> DEFINE p == auth[s]
<1>1. /\ SessionsTypeOK /\ RoomsFit /\ Seated /\ TokensFit /\ GraceFits
      /\ None \notin Sids /\ None \notin Rooms /\ None \notin Tokens
  BY DEF SessionsInv, Tokens
<1>2. at[s] = None /\ p \in Users /\ conn[s] = "open" /\ rooms[r].kind = "async"
  BY NowhereElse DEF OpenAsync, InLobby
<1>3. \A q \in Rooms : \A z \in SeatsOf(q) : z.sid = s => q = r /\ z.who = p
  BY DEF OpenAsync, Unattached
<1>4. auth' = auth /\ conn' = conn
  BY DEF OpenAsync
<1>5. PICK i \in DOMAIN rooms[r].seats :
        LET old == rooms[r].seats[i].sid
            taken == IF ~rooms[r].seats[i].away /\ old \in Sids /\ at[old] = r THEN {old} ELSE {}
        IN /\ rooms[r].seats[i].who = p
           /\ rooms' = [rooms EXCEPT ![r].seats[i] = [@ EXCEPT !.sid = s, !.away = FALSE]]
           /\ at' = [x \in Sids |-> IF x = s THEN r ELSE IF x \in taken THEN None ELSE at[x]]
           /\ token' = [token EXCEPT ![p] = [room |-> r, sid |-> s, who |-> p]]
           /\ mine' = Keeps(s, p, taken \cup {token[p].sid})
           /\ grace' = [grace EXCEPT ![p] = NoGrace]
  BY Zenon DEF OpenAsync
<1> DEFINE x == rooms[r].seats[i]
           taken == IF ~x.away /\ x.sid \in Sids /\ at[x.sid] = r THEN {x.sid} ELSE {}
           y == Taken(x, s)
           seats == Given(rooms[r].seats, i, y)
           new == [rooms[r] EXCEPT !.seats = seats]
<1>6. /\ x.who = p
      /\ rooms' = [rooms EXCEPT ![r] = new]
      /\ at' = [z \in Sids |-> IF z = s THEN r ELSE IF z \in taken THEN None ELSE at[z]]
      /\ token' = [token EXCEPT ![p] = [room |-> r, sid |-> s, who |-> p]]
      /\ mine' = [z \in Sids |-> IF z = s THEN p ELSE IF z \in taken \cup {token[p].sid} THEN None ELSE mine[z]]
      /\ grace' = [grace EXCEPT ![p] = NoGrace]
  BY <1>5, Zenon DEF Keeps, Taken, Given
<1>7. rooms[r] \in RoomRecord /\ rooms[r].seats \in Seq(SeatRecord) /\ Distinct(rooms[r].seats)
  BY RoomSeats
<1>8. x \in SeatsOf(r) /\ x \in SeatRecord
  BY <1>7 DEF SeatsOf, ToSet
<1>9. y \in SeatRecord /\ y.who = x.who /\ y = Seat(s, p, FALSE)
  <2> HIDE DEF x, p
  <2> QED
    BY <1>6, <1>8, SeatForm
<1> HIDE DEF y
<1>10. seats \in Seq(SeatRecord) /\ Distinct(seats) /\ ToSet(seats) = (SeatsOf(r) \ {x}) \cup {y}
  <2>1. y.who = rooms[r].seats[i].who
    BY <1>9
  <2> HIDE DEF p, taken, new
  <2>2. y \in SeatRecord
    BY <1>9
  <2>3. seats \in Seq(SeatRecord)
    BY <2>1, <2>2, OneSeatOf
  <2>4. Distinct(seats)
    BY <2>1, <2>2, OneSeatOf
  <2>5. ToSet(seats) = (SeatsOf(r) \ {x}) \cup {y}
    BY <2>1, <2>2, OneSeatOf
  <2> QED
    BY <2>3, <2>4, <2>5
<1> HIDE DEF seats
<1>11. /\ new \in RoomRecord /\ new.kind = rooms[r].kind /\ new.stage = rooms[r].stage /\ new.late = rooms[r].late
       /\ new.seats = seats /\ new.owner = rooms[r].owner
  BY <1>7, <1>10 DEF RoomRecord
<1> HIDE DEF new, x
<1>12. \A w \in SeatsOf(r) : w.who = p => w = x
  BY <1>6, <1>7, <1>8 DEF Distinct, SeatsOf, ToSet
<1>13. \A z \in Sids : z # s => (z \in taken <=> at[z] = r /\ auth[z] = p)
  <2> SUFFICES ASSUME NEW z \in Sids, z # s
               PROVE  z \in taken <=> at[z] = r /\ auth[z] = p
    OBVIOUS
  <2>1. ASSUME z \in taken
        PROVE  at[z] = r /\ auth[z] = p
    BY <1>1, <1>6, <1>8, <2>1 DEF Seated
  <2>2. ASSUME at[z] = r, auth[z] = p
        PROVE  z \in taken
    <3>1. PICK w \in SeatsOf(r) : w.sid = z /\ ~w.away
      BY <1>1, <2>2 DEF Seated
    <3>2. w.who = p
      BY <1>1, <2>2, <3>1 DEF Seated
    <3> QED
      BY <1>12, <2>2, <3>1, <3>2
  <2> QED
    BY <2>1, <2>2
<1>14. \A z \in taken : z \in Sids /\ at[z] = r /\ x.sid = z
  OBVIOUS
<1> HIDE DEF taken
<1>15. /\ at' \in [Sids -> Rooms \cup {None}]
       /\ \A z \in Sids : at'[z] = IF z = s THEN r ELSE IF at[z] = r /\ auth[z] = p THEN None ELSE at[z]
  BY <1>1, <1>6, <1>13 DEF SessionsTypeOK
<1>16. Fades
  BY <1>2, <1>4, <1>15, NewcomerFades
<1>17. SitsDown(s, p, r, new)
  <2>1. rooms[r].late = {}
    BY <1>1, <1>2 DEF RoomsFit
  <2>2. ToSet(new.seats) = (SeatsOf(r) \ {x}) \cup {Seat(s, p, FALSE)} /\ Distinct(new.seats)
    BY <1>9, <1>10, <1>11
  <2>3. auth[s] = p /\ p \in People /\ new.kind # "normal" /\ p \notin new.late /\ new.late \subseteq rooms[r].late
    BY <1>2, <1>11, <2>1 DEF People
  <2> HIDE DEF p
  <2> QED
    BY <1>2, <1>3, <1>6, <1>8, <1>11, <1>15, <2>2, <2>3, SeatPasses
<1>18. \A u \in Tokens : OwnerOf(u) = p /\ (\E z \in Sids : mine[z] = u) => u = p
  BY <1>1, <1>2 DEF TokensFit, OwnerOf, Tokens
<1>19. TakesToken(s, p, r, p)
  <2>1. p \in Users /\ p \notin Guests /\ p \in Tokens /\ p \notin GuestTokens
    BY <1>2 DEF Tokens
  <2>2. \A u \in Tokens : grace[u] # NoGrace /\ grace[u].sid = s => u = p
    BY <1>1, <1>3, <1>18 DEF GraceFits, SessionsTypeOK
  <2>3. [room |-> r, sid |-> s, who |-> p] \in TokenRecord
    BY <2>1 DEF TokenRecord, People
  <2>4. \E j \in TokenRecord : j.sid = s /\ j.who = p /\ token' = [token EXCEPT ![p] = j]
    BY <1>6, <2>3
  <2>5. \A z \in Sids : z = token[p].sid => mine[z] = p
    BY <1>1, <2>1 DEF TokensFit, NoToken
  <2>6. \A z \in taken : mine[z] # None => mine[z] = p
    <3> SUFFICES ASSUME NEW z \in taken, mine[z] # None
                 PROVE  mine[z] = p
      OBVIOUS
    <3>1. z \in Sids /\ at[z] = r /\ x.sid = z /\ mine[z] \in Tokens
      BY <1>1, <1>14 DEF SessionsTypeOK
    <3>2. x.who = OwnerOf(mine[z])
      BY <1>1, <1>8, <3>1 DEF TokensFit
    <3> QED
      BY <1>6, <1>18, <3>1, <3>2
  <2>7. /\ mine' \in [Sids -> Tokens \cup {None}] /\ mine'[s] = p
        /\ \A z \in Sids \ {s} : mine'[z] = mine[z] \/ (mine'[z] = None /\ mine[z] = p)
    BY <1>1, <1>6, <2>1, <2>5, <2>6 DEF SessionsTypeOK
  <2> HIDE DEF p
  <2> QED
    BY <1>6, <2>1, <2>2, <2>4, <2>7 DEF TakesToken
<1> QED
  <2>1. p \in Tokens
    BY <1>2 DEF Tokens
  <2> HIDE DEF p
  <2> QED
    BY <1>16, <1>17, <1>19, <2>1, ArrivalKeeps

(* create_async_game: one's own seat, and those of one's friends, who are   *)
(* still to come                                                            *)
LEMMA FriendSeats ==
  ASSUME NEW s \in Sids, NEW p \in Users
  PROVE  LET friends == SetToSeq(Users \ {p})
             new == <<Seat(s, p, FALSE)>> \o [i \in DOMAIN friends |-> Seat(None, friends[i], TRUE)]
         IN /\ new \in Seq(SeatRecord) /\ Distinct(new)
            /\ \E y \in ToSet(new) : y.sid = s /\ y.who = p /\ ~y.away
            /\ \A y \in ToSet(new) : y.who # p => y.sid = None /\ y.away
<1> USE SessionsAssumption
<1> DEFINE friends == SetToSeq(Users \ {p})
           others == [i \in DOMAIN friends |-> Seat(None, friends[i], TRUE)]
           own == Seat(s, p, FALSE)
           new == <<own>> \o others
<1>1. IsFiniteSet(Users \ {p})
  BY FS_RemoveElement
<1>2. friends \in Seq(Users \ {p}) /\ \A i, j \in DOMAIN friends : friends[i] = friends[j] => i = j
  BY <1>1, ListsAll
<1> HIDE DEF friends
<1>3. own \in SeatRecord /\ own.sid = s /\ own.who = p /\ own.away = FALSE
  BY DEF Seat, SeatRecord, People
<1> DEFINE n == Len(friends)
<1>4. n \in Nat /\ DOMAIN friends = 1 .. n /\ \A i \in 1 .. n : friends[i] \in Users /\ friends[i] # p
  BY <1>2
<1> HIDE DEF n
<1>5. ASSUME NEW i \in 1 .. n
      PROVE  others[i] \in SeatRecord /\ others[i].sid = None /\ others[i].who = friends[i] /\ others[i].away = TRUE
  <2>1. others[i] = Seat(None, friends[i], TRUE) /\ friends[i] \in Users
    BY <1>4
  <2>2. \A q \in Users : LET y == Seat(None, q, TRUE) IN
                           y \in SeatRecord /\ y.sid = None /\ y.who = q /\ y.away = TRUE
    BY DEF Seat, SeatRecord, People
  <2> HIDE DEF others
  <2> QED
    BY <2>1, <2>2, Zenon
<1>6. others \in Seq(SeatRecord) /\ Len(others) = n /\ others \in [1 .. n -> SeatRecord]
  <2>1. others \in [1 .. n -> SeatRecord]
    BY <1>4, <1>5
  <2> HIDE DEF others
  <2> QED
    BY <1>4, <2>1
<1> HIDE DEF others, own
<1>7. /\ new \in Seq(SeatRecord) /\ DOMAIN new = 1 .. n + 1 /\ new[1] = own
      /\ \A i \in 2 .. n + 1 : new[i] = others[i - 1]
  <2>1. <<own>> \in Seq(SeatRecord) /\ Len(<<own>>) = 1 /\ <<own>>[1] = own
    BY <1>3
  <2>2. new \in Seq(SeatRecord) /\ Len(new) = 1 + n
    BY <1>4, <1>6, <2>1
  <2>3. \A i \in 1 .. 1 + n : new[i] = IF i <= 1 THEN <<own>>[i] ELSE others[i - 1]
    BY <1>4, <1>6, <2>1
  <2> HIDE DEF new
  <2> QED
    BY <1>4, <2>1, <2>2, <2>3
<1> HIDE DEF new
<1>8. \A i \in 2 .. n + 1 : i - 1 \in 1 .. n /\ i \in 1 .. n + 1
  BY <1>4
<1>9. \A i \in 1 .. n + 1 : i = 1 \/ i \in 2 .. n + 1
  BY <1>4
<1>10. \A i \in 2 .. n + 1 : new[i].sid = None /\ new[i].away /\ new[i].who = friends[i - 1] /\ new[i].who # p
  <2> SUFFICES ASSUME NEW i \in 2 .. n + 1
               PROVE  new[i].sid = None /\ new[i].away /\ new[i].who = friends[i - 1] /\ new[i].who # p
    OBVIOUS
  <2>1. i - 1 \in 1 .. n /\ new[i] = others[i - 1]
    BY <1>7, <1>8
  <2>2. /\ others[i - 1].sid = None /\ others[i - 1].who = friends[i - 1] /\ others[i - 1].away = TRUE
        /\ friends[i - 1] # p
    BY <1>4, <1>5, <2>1
  <2> QED
    BY <2>1, <2>2
<1>11. Distinct(new)
  <2> SUFFICES ASSUME NEW i \in 1 .. n + 1, NEW j \in 1 .. n + 1, new[i].who = new[j].who
               PROVE  i = j
    BY <1>7 DEF Distinct
  <2>1. CASE i = 1 \/ j = 1
    BY <1>3, <1>7, <1>9, <1>10, <2>1
  <2>2. CASE i # 1 /\ j # 1
    <3>1. friends[i - 1] = friends[j - 1] /\ i - 1 \in 1 .. n /\ j - 1 \in 1 .. n
      BY <1>8, <1>9, <1>10, <2>2
    <3>2. i - 1 = j - 1
      BY <1>2, <1>4, <3>1
    <3> QED
      BY <1>4, <3>2
  <2> QED
    BY <2>1, <2>2
<1>12. 1 \in DOMAIN new
  BY <1>4, <1>7
<1>13. \E y \in ToSet(new) : y.sid = s /\ y.who = p /\ ~y.away
  BY <1>3, <1>7, <1>12 DEF ToSet
<1>14. \A y \in ToSet(new) : y.who # p => y.sid = None /\ y.away
  <2>1. \A i \in 1 .. n + 1 : new[i].who # p => new[i].sid = None /\ new[i].away
    BY <1>3, <1>7, <1>9, <1>10
  <2> QED
    BY <1>7, <2>1 DEF ToSet
<1> QED
  BY <1>7, <1>11, <1>13, <1>14 DEF new, others, friends, own

(* create_room, restore_game, create_async_game *)
LEMMA OpenKeeps ==
  ASSUME SessionsInv, ~MovesOn, NEW s \in Sids, NEW r \in Rooms, NEW kind \in KindsOf[r], Open(s, r, kind)
  PROVE  SessionsInv'
<1> USE SessionsAssumption
<1> DEFINE p == auth[s]
           friends == SetToSeq(Users \ {p})
           seats == IF kind # "async" THEN <<Seat(s, p, FALSE)>>
                    ELSE <<Seat(s, p, FALSE)>> \o [i \in DOMAIN friends |-> Seat(None, friends[i], TRUE)]
           stage == IF kind = "async" THEN "running" ELSE "waiting"
<1>1. SessionsTypeOK /\ Free(s) /\ RoomUnused(r) /\ kind \in {"normal", "restored", "async"}
  BY DEF SessionsInv, Open
<1>2. at[s] = None /\ p \in People /\ conn[s] = "open" /\ \A q \in Rooms : \A x \in SeatsOf(q) : x.sid # s
  BY <1>1, FreeHasNone
<1>3. /\ kind # "normal" => p \in Users
      /\ kind = "restored" => p \in Saved
      /\ auth' = auth /\ conn' = conn /\ at' = [at EXCEPT ![s] = r]
  BY DEF Open
<1>4. PICK t \in TokensFor(p) :
        /\ Issue(t, s, r, p)
        /\ rooms' = [rooms EXCEPT ![r] = NewRoom(kind, stage, seats, s, t)]
  BY Zenon DEF Open
<1>5. /\ seats \in Seq(SeatRecord) /\ Distinct(seats)
      /\ \E y \in ToSet(seats) : y.sid = s /\ y.who = p /\ ~y.away
      /\ \A y \in ToSet(seats) : y.who # p => y.sid = None /\ y.away
      /\ kind = "restored" => \A y \in ToSet(seats) : y.who = p
  <2>1. CASE kind = "async"
    <3>1. p \in Users
      BY <1>3, <2>1
    <3>2. LET new == <<Seat(s, p, FALSE)>> \o [i \in DOMAIN friends |-> Seat(None, friends[i], TRUE)]
          IN /\ new \in Seq(SeatRecord) /\ Distinct(new)
             /\ \E y \in ToSet(new) : y.sid = s /\ y.who = p /\ ~y.away
             /\ \A y \in ToSet(new) : y.who # p => y.sid = None /\ y.away
      BY <3>1, FriendSeats, Zenon
    <3> QED
      BY <2>1, <3>2, Zenon
  <2>2. CASE kind # "async"
    <3> DEFINE y == Seat(s, p, FALSE)
    <3>1. y \in SeatRecord /\ y.sid = s /\ y.who = p /\ y.away = FALSE
      BY <1>2 DEF Seat, SeatRecord
    <3>2. seats = <<y>>
      BY <2>2
    <3> HIDE DEF y, seats
    <3>3. seats \in Seq(SeatRecord) /\ DOMAIN seats = {1} /\ seats[1] = y
      BY <3>1, <3>2
    <3>4. Distinct(seats) /\ ToSet(seats) = {y}
      BY <3>3 DEF Distinct, ToSet
    <3> QED
      BY <3>1, <3>3, <3>4
  <2> QED
    BY <2>1, <2>2
<1> HIDE DEF seats
<1> DEFINE new == NewRoom(kind, stage, seats, s, t)
<1>6. t \in Tokens
  BY DEF TokensFor, Tokens
<1>7. /\ new \in RoomRecord /\ new.kind = kind /\ new.stage = stage /\ new.late = {} /\ new.seats = seats /\ new.owner = s
  BY <1>1, <1>5, <1>6 DEF NewRoom, NoRoom, RoomRecord
<1>8. rooms' = [rooms EXCEPT ![r] = new] /\ stage # "none"
  BY <1>4
<1> HIDE DEF new
<1>9. rooms[r] = NoRoom /\ SeatsOf(r) = {} /\ \A x \in Sids : at[x] # r
  BY <1>1 DEF RoomUnused, NoRoom, SeatsOf, ToSet
<1>10. at' \in [Sids -> Rooms \cup {None}] /\ \A x \in Sids : at'[x] = IF x = s THEN r ELSE at[x]
  BY <1>1, <1>3 DEF SessionsTypeOK
<1>11. Fades
  BY <1>2, <1>3, <1>10, NewcomerFades DEF People
<1>12. auth[s] = p
  OBVIOUS
<1> HIDE DEF p, stage
<1>13. SitsDown(s, p, r, new)
  BY <1>1, <1>2, <1>3, <1>5, <1>7, <1>8, <1>9, <1>10, <1>12 DEF SitsDown
<1>14. TakesToken(s, p, r, t)
  BY <1>2, <1>4, <1>9, IssueTakes
<1> QED
  BY <1>6, <1>11, <1>13, <1>14, ArrivalKeeps

(* Whoever returns with token t finds the seat that it leads to, and it is  *)
(* his own.                                                                 *)
LEMMA LostSeat ==
  ASSUME SessionsInv, NEW t \in Tokens, NEW p \in People, token[t].who = p, Lost(t) # NoGrace
  PROVE  LET dc == Lost(t) IN
         /\ dc.sid \in Sids /\ dc.room \in Rooms /\ mine[dc.sid] = t
         /\ IF grace[t] = NoGrace THEN at[dc.sid] = dc.room ELSE at[dc.sid] = None
         /\ auth[dc.sid] # None => auth[dc.sid] = p
         /\ \E x \in SeatsOf(dc.room) : x.sid = dc.sid /\ x.who = p
         /\ IF t \in Users THEN t = p ELSE p \in Guests
<1> USE SessionsAssumption
<1>1. SessionsTypeOK /\ Seated /\ TokensFit /\ GraceFits /\ None \notin Rooms /\ None \notin Tokens /\ p # None
  BY DEF SessionsInv, Tokens, People
<1>2. token[t] # NoToken /\ token[t] \in TokenRecord
  BY <1>1 DEF NoToken, SessionsTypeOK
<1>3. /\ IF t \in Users THEN t = p ELSE p \in Guests
      /\ mine[token[t].sid] = t /\ token[t].sid \in Sids /\ token[t].room \in Rooms
  BY <1>1, <1>2 DEF TokensFit, TokenRecord
<1>4. OwnerOf(t) = p
  BY <1>3 DEF OwnerOf
<1>5. CASE grace[t] # NoGrace
  <2>1. Lost(t) = grace[t]
    BY <1>5 DEF Lost
  <2>2. /\ grace[t].sid \in Sids /\ grace[t].room \in Rooms /\ mine[grace[t].sid] = t /\ at[grace[t].sid] = None
        /\ \E x \in SeatsOf(grace[t].room) : x.sid = grace[t].sid /\ x.who = p
    BY <1>1, <1>4, <1>5 DEF GraceFits, SessionsTypeOK
  <2>3. auth[grace[t].sid] # None => auth[grace[t].sid] = p
    BY <1>1, <2>2 DEF Seated
  <2> QED
    BY <1>3, <1>5, <2>1, <2>2, <2>3
<1>6. CASE grace[t] = NoGrace
  <2>1. Held(t) /\ Lost(t) = [room |-> token[t].room, sid |-> token[t].sid, seq |-> 0]
    BY <1>6 DEF Lost
  <2>2. Lost(t).room = token[t].room /\ Lost(t).sid = token[t].sid
    BY <2>1
  <2>3. at[token[t].sid] = token[t].room /\ at[token[t].sid] # None
    BY <1>1, <1>3, <2>1 DEF Held
  <2>4. PICK x \in SeatsOf(token[t].room) : x.sid = token[t].sid
    BY <1>3, <2>3, OneOwnSeat
  <2>5. x.who = p
    BY <1>1, <1>3, <1>4, <2>3, <2>4 DEF TokensFit
  <2>6. auth[token[t].sid] # None => auth[token[t].sid] = p
    BY <1>1, <1>2 DEF TokensFit
  <2> QED
    BY <1>3, <1>6, <2>2, <2>3, <2>4, <2>5, <2>6
<1> QED
  BY <1>5, <1>6

(* rejoin_room *)
LEMMA RejoinKeeps ==
  ASSUME SessionsInv, ~MovesOn, NEW s \in Sids, NEW t \in Tokens, Rejoin(s, t)
  PROVE  SessionsInv'
<1> USE SessionsAssumption
<1> DEFINE p == auth[s]
           r == Lost(t).room
           old == Lost(t).sid
           owns == OwnsBySid(rooms[r], old) \/ rooms[r].ownerToken = t
           seats == Replaced(rooms[r].seats, old, s)
           owner == IF owns THEN s ELSE rooms[r].owner
           ownerToken == IF owns THEN t ELSE rooms[r].ownerToken
           new == [rooms[r] EXCEPT !.seats = seats, !.owner = owner, !.ownerToken = ownerToken]
<1>1. /\ SessionsTypeOK /\ RoomsFit /\ Seated /\ TokensFit /\ GraceFits
      /\ None \notin Sids /\ None \notin Rooms /\ None \notin Tokens
  BY DEF SessionsInv, Tokens
<1>2. at[s] = None /\ p \in People /\ conn[s] = "open" /\ token[t].who = p /\ Lost(t) # NoGrace
  BY <1>1, NowhereElse DEF Rejoin, InLobby, SessionsTypeOK
<1>3. \A q \in Rooms : \A z \in SeatsOf(q) : z.sid = s => q = r /\ z.who = p
  BY DEF Rejoin, Unattached
<1>4. /\ old \in Sids /\ r \in Rooms /\ mine[old] = t
      /\ IF grace[t] = NoGrace THEN at[old] = r ELSE at[old] = None
      /\ auth[old] # None => auth[old] = p
      /\ \E x \in SeatsOf(r) : x.sid = old /\ x.who = p
      /\ IF t \in Users THEN t = p ELSE p \in Guests
  BY <1>2, LostSeat, Zenon
<1>5. PICK x \in SeatsOf(r) : x.sid = old /\ x.who = p
  BY <1>4
<1>6. rooms[r].stage # "none"
  <2>1. rooms[r] # NoRoom
    BY <1>5 DEF NoRoom, SeatsOf, ToSet
  <2> QED
    BY <1>1, <1>4, <2>1 DEF RoomsFit
<1>7. /\ rooms' = [rooms EXCEPT ![r].seats = seats, ![r].owner = owner, ![r].ownerToken = ownerToken]
      /\ token' = [token EXCEPT ![t].sid = s]
      /\ mine' = [mine EXCEPT ![old] = None, ![s] = t]
      /\ grace' = [grace EXCEPT ![t] = NoGrace]
      /\ at' = [at EXCEPT ![old] = IF grace[t] = NoGrace THEN None ELSE at[old], ![s] = r]
      /\ auth' = [auth EXCEPT ![old] = None, ![s] = token[t].who]
      /\ conn' = IF grace[t] = NoGrace THEN [conn EXCEPT ![old] = "closing"] ELSE conn
  BY <1>6 DEF Rejoin
<1> HIDE DEF r, old
<1>8. rooms[r] \in RoomRecord /\ rooms[r].seats \in Seq(SeatRecord) /\ Distinct(rooms[r].seats) /\ SidsApart(rooms[r].seats)
  BY <1>4, RoomSeats
<1>9. x \in ToSet(rooms[r].seats) /\ x \in SeatRecord
  BY <1>8 DEF SeatsOf, ToSet
<1>10. seats \in Seq(SeatRecord) /\ Distinct(seats) /\ ToSet(seats) = (SeatsOf(r) \ {x}) \cup {Seat(s, p, FALSE)}
  <2>1. old \in Sids /\ x.sid = old
    BY <1>4, <1>5
  <2> HIDE DEF p
  <2>2. PICK here : here = rooms[r].seats
    OBVIOUS
  <2>3. here \in Seq(SeatRecord) /\ Distinct(here) /\ SidsApart(here) /\ x \in ToSet(here) /\ seats = Replaced(here, old, s)
    BY <1>8, <1>9, <2>2
  <2> HIDE DEF seats
  <2>4. ToSet(seats) = (ToSet(here) \ {x}) \cup {Seat(s, x.who, FALSE)}
    <3>1. Swapped(seats, here, x, Seat(s, x.who, FALSE))
      BY <2>1, <2>3, ReplacedSeats
    <3> QED
      BY <3>1 DEF Swapped
  <2>5. seats \in Seq(SeatRecord)
    BY <2>1, <2>3, ReplacedSeats
  <2>6. Distinct(seats)
    BY <2>1, <2>3, ReplacedSeats
  <2> QED
    BY <1>5, <2>2, <2>4, <2>5, <2>6 DEF SeatsOf
<1>11. owner \in Sids \cup {None} /\ ownerToken \in Tokens \cup {None} /\ owner \in {rooms[r].owner, s}
  BY <1>8 DEF RoomRecord
<1>12. rooms[r].owner = old => owner = s
  BY DEF OwnsBySid
<1> HIDE DEF seats, owner, ownerToken, owns
<1>13. rooms' = [rooms EXCEPT ![r] = new]
  <2>1. rooms \in [Rooms -> RoomRecord] /\ r \in Rooms
    BY <1>1, <1>4 DEF SessionsTypeOK
  <2>2. rooms' = [rooms EXCEPT ![r].seats = seats, ![r].owner = owner, ![r].ownerToken = ownerToken]
    BY <1>7
  <2> HIDE DEF p
  <2> QED
    BY <2>1, <2>2 DEF RoomRecord
<1>14. /\ new \in RoomRecord /\ new.kind = rooms[r].kind /\ new.stage = rooms[r].stage /\ new.late = rooms[r].late
       /\ new.seats = seats /\ new.owner = owner
  BY <1>8, <1>10, <1>11 DEF RoomRecord
<1> HIDE DEF new
<1>15. \A w \in SeatsOf(r) : w.who = p => w = x
  BY <1>5, <1>8 DEF Distinct, SeatsOf, ToSet
<1>16. \A z \in Sids : at[z] = r /\ auth[z] = p <=> z = old /\ grace[t] = NoGrace
  <2>1. ASSUME NEW z \in Sids, at[z] = r, auth[z] = p
        PROVE  z = old
    <3>1. PICK w \in SeatsOf(r) : w.sid = z
      BY <1>1, <1>4, <2>1 DEF Seated
    <3>2. w.who = p
      BY <1>1, <1>2, <1>4, <2>1, <3>1 DEF Seated, People
    <3> QED
      BY <1>5, <1>15, <3>1, <3>2
  <2>2. at[old] = r => grace[t] = NoGrace
    BY <1>1, <1>4
  <2>3. grace[t] = NoGrace => at[old] = r /\ auth[old] = p
    <3> SUFFICES ASSUME grace[t] = NoGrace
                 PROVE  at[old] = r /\ auth[old] = p
      OBVIOUS
    <3>1. at[old] = r /\ at[old] # None
      BY <1>1, <1>4
    <3> QED
      BY <1>1, <1>4, <3>1 DEF Seated
  <2> QED
    BY <2>1, <2>2, <2>3
<1>17. /\ at' \in [Sids -> Rooms \cup {None}]
       /\ \A z \in Sids : at'[z] = IF z = s THEN r ELSE IF at[z] = r /\ auth[z] = p THEN None ELSE at[z]
  <2>1. at' \in [Sids -> Rooms \cup {None}]
    BY <1>1, <1>4, <1>7 DEF SessionsTypeOK
  <2>2. \A z \in Sids : at'[z] = IF z = s THEN r ELSE IF z = old /\ grace[t] = NoGrace THEN None ELSE at[z]
    BY <1>1, <1>4, <1>7 DEF SessionsTypeOK
  <2> QED
    BY <1>16, <2>1, <2>2
<1>18. Fades
  <2>1. /\ auth' \in [Sids -> People \cup {None}]
        /\ \A z \in Sids : auth'[z] = IF z = s THEN p ELSE IF z = old THEN None ELSE auth[z]
    BY <1>1, <1>2, <1>4, <1>7 DEF SessionsTypeOK
  <2>2. conn' \in [Sids -> {"free", "open", "closing"}] /\ \A z \in Sids : conn[z] # "free" => conn'[z] # "free"
    BY <1>1, <1>4, <1>7 DEF SessionsTypeOK
  <2>3. \A z \in Sids : z # s /\ at'[z] # None => z # old /\ at[z] # None
    BY <1>1, <1>4, <1>16, <1>17
  <2>4. \A z \in Sids : at'[z] # None => auth'[z] = auth[z] /\ conn'[z] # "free"
    BY <1>1, <1>2, <2>1, <2>2, <2>3 DEF Seated
  <2>5. \A z \in Sids : auth'[z] \in {auth[z], None}
    BY <2>1
  <2> QED
    BY <2>1, <2>2, <2>4, <2>5 DEF Fades
<1>19. SitsDown(s, p, r, new)
  <2>1. ToSet(new.seats) = (SeatsOf(r) \ {x}) \cup {Seat(s, p, FALSE)} /\ Distinct(new.seats)
    BY <1>10, <1>14
  <2>2. p \notin new.late /\ new.late \subseteq rooms[r].late
    BY <1>1, <1>4, <1>5, <1>14 DEF RoomsFit
  <2>3. new.kind = "normal" => new.owner \in {rooms[r].owner, s} /\ (rooms[r].owner = x.sid => new.owner = s)
    BY <1>5, <1>11, <1>12, <1>14
  <2>4. auth[s] = p
    OBVIOUS
  <2> HIDE DEF p
  <2> QED
    BY <1>2, <1>3, <1>4, <1>5, <1>13, <1>14, <1>17, <2>1, <2>2, <2>3, <2>4, SeatPasses DEF r
<1>20. TakesToken(s, p, r, t)
  <2>1. \E i \in TokenRecord : i.sid = s /\ i.who = p /\ token' = [token EXCEPT ![t] = i]
    <3> DEFINE i == [token[t] EXCEPT !.sid = s]
    <3>1. token[t] \in TokenRecord
      BY <1>1, <1>2 DEF SessionsTypeOK, NoToken, People
    <3>2. i \in TokenRecord /\ i.sid = s /\ i.who = p
      BY <1>2, <3>1 DEF TokenRecord
    <3>3. token' = [token EXCEPT ![t] = i]
      BY <1>7
    <3> QED
      BY <3>2, <3>3
  <2>2. ASSUME NEW u \in Tokens, grace[u] # NoGrace, grace[u].sid = s
        PROVE  u = t
    <3>1. mine[s] = u
      BY <1>1, <2>2 DEF GraceFits
    <3>2. PICK w \in SeatsOf(grace[u].room) : w.sid = s
      BY <1>1, <2>2 DEF GraceFits
    <3>3. grace[u].room \in Rooms
      BY <1>1, <2>2 DEF SessionsTypeOK
    <3>4. w \in SeatsOf(r) /\ w.who = p
      BY <1>3, <3>2, <3>3 DEF r
    <3>5. s = old
      BY <1>5, <1>15, <3>2, <3>4
    <3> QED
      BY <1>4, <3>1, <3>5
  <2>3. \A w \in SeatsOf(r) : w.who = p /\ w.sid # None => mine[w.sid] = t
    BY <1>4, <1>5, <1>15
  <2>4. /\ mine' \in [Sids -> Tokens \cup {None}]
        /\ \A z \in Sids : mine'[z] = IF z = s THEN t ELSE IF z = old THEN None ELSE mine[z]
    BY <1>1, <1>4, <1>7 DEF SessionsTypeOK
  <2>5. t \in GuestTokens => \A z \in Sids : mine[z] = t => z = old
    BY <1>1, <1>4 DEF TokensFit
  <2>6. t \in GuestTokens => \A z \in Sids \ {s} : mine'[z] # t
    BY <1>1, <2>4, <2>5
  <2>7. mine'[s] = t /\ \A z \in Sids \ {s} : mine'[z] = mine[z] \/ (mine'[z] = None /\ mine[z] = t)
    BY <1>4, <2>4
  <2> HIDE DEF p
  <2> QED
    BY <1>4, <1>7, <2>1, <2>2, <2>3, <2>4, <2>6, <2>7 DEF TakesToken
<1> HIDE DEF p
<1> QED
  BY <1>4, <1>18, <1>19, <1>20, ArrivalKeeps

-----------------------------------------------------------------------------
(* Grace timers and the numbers of the disconnections, whatever else the    *)
(* connections do (disconnect_seq).                                         *)

TimersInv ==
  /\ mine \in [Sids -> Tokens \cup {None}]
  /\ timers \subseteq [token: Tokens, seq: 1 .. MaxSeq]
  /\ grace = [t \in Tokens |-> grace[t]]
  /\ \A t \in Tokens : grace[t] = NoGrace \/ grace[t].seq \in 1 .. MaxSeq

(* A step changes the tables and leaves, ends or begins a grace period. *)
TablesMove ==
  /\ mine' \in [Sids -> Tokens \cup {None}]
  /\ grace' = [t \in Tokens |-> grace'[t]]
  /\ \A t \in Tokens : grace'[t] \in {grace[t], NoGrace} \/ grace'[t].seq \in 1 .. MaxSeq

(* There is a number that no disconnection has. *)
LEMMA NextSeqIs ==
  ASSUME TimersInv
  PROVE  NextSeq \in 1 .. MaxSeq + 1
<1> USE SessionsAssumption
<1> DEFINE used == {grace[t].seq : t \in Tokens} \cup {m.seq : m \in timers}
           I == {n \in 1 .. MaxSeq + 1 : n \notin used}
<1>1. MaxSeq + 1 \notin used
  <2>1. \A t \in Tokens : grace[t].seq \in 0 .. MaxSeq
    BY DEF TimersInv, NoGrace
  <2>2. \A m \in timers : m.seq \in 0 .. MaxSeq
    BY DEF TimersInv
  <2>3. MaxSeq + 1 \notin 0 .. MaxSeq
    OBVIOUS
  <2> QED
    BY <2>1, <2>2, <2>3
<1>2. I \in SUBSET (1 .. MaxSeq + 1) /\ I # {} /\ MaxSeq + 1 \in Nat
  BY <1>1
<1>3. \E n \in 1 .. MaxSeq + 1 : n \notin used /\ \A k \in 1 .. n - 1 : k \in used
  <2> HIDE DEF used
  <2>1. Min(I) \in I /\ \A j \in I : Min(I) <= j
    <3> HIDE DEF I
    <3> QED
      BY <1>2, SmallestIs
  <2>2. PICK n : n = Min(I)
    OBVIOUS
  <2>3. n \in 1 .. MaxSeq + 1 /\ n \notin used /\ \A j \in I : n <= j
    BY <2>1, <2>2
  <2>4. \A k \in 1 .. n - 1 : k \in used
    BY <2>3
  <2> QED
    BY <2>3, <2>4
<1> QED
  BY <1>3 DEF NextSeq

LEMMA IssueMoves ==
  ASSUME TimersInv, NEW t \in Tokens, NEW s, NEW r, NEW p, Issue(t, s, r, p)
  PROVE  TablesMove
BY DEF TimersInv, Issue, Keeps, TablesMove

LEMMA ForgetMoves ==
  ASSUME TimersInv, NEW S, NEW R, Forget(S, R)
  PROVE  TablesMove
<1> DEFINE owned == {mine[s] : s \in S} \cap Tokens
           waiting == {t \in Tokens \ owned : grace[t].room \in R}
           gone == owned \cup waiting
<1>1. /\ grace' = [t \in Tokens |-> IF t \in gone THEN NoGrace ELSE grace[t]]
      /\ mine' = [s \in Sids |-> IF s \in S \/ \E t \in waiting : grace[t].sid = s THEN None ELSE mine[s]]
  BY DEF Forget
<1> HIDE DEF owned, waiting, gone
<1> QED
  BY <1>1 DEF TimersInv, TablesMove

LEMMA RememberMoves ==
  ASSUME TimersInv, NEW t, NEW s, NEW r, Remember(t, s, r)
  PROVE  TablesMove
<1>1. NextSeq \in 1 .. MaxSeq
  BY NextSeqIs, SessionsAssumption DEF Remember
<1>2. PICK n : n = NextSeq
  OBVIOUS
<1>3. grace' = [grace EXCEPT ![t] = [room |-> r, sid |-> s, seq |-> n]] /\ mine' = mine
  BY <1>2 DEF Remember
<1> QED
  BY <1>1, <1>2, <1>3 DEF TimersInv, TablesMove

LEMMA FinalizedMoves ==
  ASSUME TimersInv, NEW t, Finalized(t)
  PROVE  TablesMove
BY DEF TimersInv, TablesMove, Finalized

LEMMA UnchangedMoves ==
  ASSUME TimersInv, mine' = mine, grace' = grace
  PROVE  TablesMove
BY DEF TimersInv, TablesMove

LEMMA MovesKeep ==
  ASSUME TimersInv, TablesMove, timers' \subseteq [token: Tokens, seq: 1 .. MaxSeq]
  PROVE  TimersInv'
BY DEF TimersInv, TablesMove

LEMMA LeavesMoves ==
  ASSUME TimersInv, NEW s \in Sids, Leaves(s)
  PROVE  TablesMove /\ timers' = timers
<1>1. \/ UNCHANGED tables
      \/ \E t, r : Remember(t, s, r)
      \/ \E S, R : Forget(S, R)
  BY Zenon DEF Leaves, Vacate
<1>2. timers' = timers
  BY DEF Leaves
<1> QED
  BY <1>1, <1>2, RememberMoves, ForgetMoves, UnchangedMoves DEF tables

LEMMA ArrivalMoves ==
  ASSUME TimersInv, NEW s \in Sids, NEW r \in Rooms,
         \/ JoinRoom(s, r) \/ LateJoin(s, r) \/ OpenAsync(s, r)
         \/ \E kind \in KindsOf[r] : Open(s, r, kind)
  PROVE  TablesMove /\ timers' = timers
<1>1. TokensFor(auth[s]) \subseteq Tokens
  BY DEF TokensFor, Tokens
<1>2. CASE JoinRoom(s, r) \/ LateJoin(s, r) \/ \E kind \in KindsOf[r] : Open(s, r, kind)
  <2>1. (\E t \in TokensFor(auth[s]) : Issue(t, s, r, auth[s])) /\ timers' = timers
    <3>1. ASSUME NEW kind \in KindsOf[r], Open(s, r, kind)
          PROVE  (\E t \in TokensFor(auth[s]) : Issue(t, s, r, auth[s])) /\ timers' = timers
      BY <3>1, Zenon DEF Open
    <3>2. CASE JoinRoom(s, r) \/ LateJoin(s, r)
      <4>1. \E room : Enter(s, r, room)
        BY <3>2, Zenon DEF JoinRoom, LateJoin
      <4> QED
        BY <4>1, Zenon DEF Enter
    <3> QED
      BY <1>2, <3>1, <3>2
  <2> QED
    BY <1>1, <2>1, IssueMoves
<1>3. CASE OpenAsync(s, r)
  <2> DEFINE t == auth[s]
  <2>1. t \in Tokens /\ timers' = timers /\ grace' = [grace EXCEPT ![t] = NoGrace]
    <3>1. timers' = timers /\ auth[s] \in Users
      BY <1>3, Zenon DEF OpenAsync
    <3>2. grace' = [grace EXCEPT ![auth[s]] = NoGrace]
      BY <1>3, Zenon DEF OpenAsync
    <3> QED
      BY <3>1, <3>2 DEF Tokens
  <2>2. \E taken : mine' = Keeps(s, t, taken)
    BY <1>3, Zenon DEF OpenAsync
  <2> HIDE DEF t
  <2> QED
    BY <2>1, <2>2 DEF TimersInv, TablesMove, Keeps
<1> QED
  BY <1>2, <1>3

LEMMA DisconnectTimers ==
  ASSUME TimersInv, NEW s \in Sids, Disconnect(s)
  PROVE  TablesMove /\ timers' \subseteq [token: Tokens, seq: 1 .. MaxSeq]
<1>1. \/ UNCHANGED tables
      \/ \E t, r : Remember(t, s, r)
      \/ \E S, R : Forget(S, R)
  BY Zenon DEF Disconnect, Vacate
<1>2. timers' = timers \/ (timers' = timers \cup {[token |-> mine[s], seq |-> NextSeq]} /\ mine[s] # None /\ NextSeq <= MaxSeq)
  BY DEF Disconnect, Remember
<1>3. timers' \subseteq [token: Tokens, seq: 1 .. MaxSeq]
  <2>1. mine[s] # None /\ NextSeq <= MaxSeq => [token |-> mine[s], seq |-> NextSeq] \in [token: Tokens, seq: 1 .. MaxSeq]
    BY NextSeqIs, SessionsAssumption DEF TimersInv
  <2> QED
    BY <1>2, <2>1 DEF TimersInv
<1> QED
  BY <1>1, <1>3, RememberMoves, ForgetMoves, UnchangedMoves DEF tables

LEMMA TimersStart == Init => TimersInv
BY SessionsAssumption DEF Init, TimersInv

LEMMA TimersStep ==
  ASSUME TimersInv, [Next]_vars
  PROVE  TimersInv'
<1> USE SessionsAssumption
<1>1. ASSUME NEW s \in Sids, StartGame(s) \/ \E p \in People : Connect(s, p) \/ SetName(s, p)
      PROVE  TimersInv'
  <2>1. UNCHANGED <<mine, grace, timers>>
    BY <1>1 DEF StartGame, Connect, SetName, Introduce, tables
  <2> QED
    BY <2>1 DEF TimersInv
<1>2. ASSUME NEW s \in Sids, LeaveRoom(s) \/ Logout(s)
      PROVE  TimersInv'
  <2>1. Leaves(s) \/ UNCHANGED <<mine, grace, timers>>
    BY <1>2 DEF LeaveRoom, Logout, tables
  <2> QED
    BY <2>1, LeavesMoves, MovesKeep DEF TimersInv
<1>3. ASSUME NEW s \in Sids, Disconnect(s)
      PROVE  TimersInv'
  BY <1>3, DisconnectTimers, MovesKeep
<1>4. ASSUME NEW s \in Sids, NEW r \in Rooms,
             JoinRoom(s, r) \/ LateJoin(s, r) \/ OpenAsync(s, r) \/ \E kind \in KindsOf[r] : Open(s, r, kind)
      PROVE  TimersInv'
  <2>1. TablesMove /\ timers' = timers
    BY <1>4, ArrivalMoves
  <2> QED
    BY <2>1, MovesKeep DEF TimersInv
<1>5. ASSUME NEW r \in Rooms, AdminDisband(r) \/ GameEnds(r) \/ \E s \in Sids : AdminRemove(r, s)
      PROVE  TimersInv'
  <2>1. timers' = timers /\ (UNCHANGED tables \/ \E S, R : Forget(S, R))
    BY <1>5, Zenon DEF AdminRemove, AdminDisband, GameEnds, Disband
  <2> QED
    BY <2>1, ForgetMoves, UnchangedMoves, MovesKeep DEF TimersInv, tables
<1>6. ASSUME NEW s \in Sids, NEW t \in Tokens, Rejoin(s, t)
      PROVE  TimersInv'
  <2>1. timers' = timers /\ grace' = [grace EXCEPT ![t] = NoGrace]
    BY <1>6 DEF Rejoin
  <2>2. mine' = mine \/ \E z : mine' = [mine EXCEPT ![z] = None, ![s] = t]
    BY <1>6, Zenon DEF Rejoin
  <2>3. mine' \in [Sids -> Tokens \cup {None}]
    BY <2>2 DEF TimersInv
  <2> QED
    BY <2>1, <2>3 DEF TimersInv
<1>7. ASSUME NEW m \in timers, GraceExpires(m)
      PROVE  TimersInv'
  <2>1. timers' = timers \ {m}
    BY <1>7, Zenon DEF GraceExpires
  <2>2. UNCHANGED tables \/ (\E t : Finalized(t)) \/ \E S, R : Forget(S, R)
    BY <1>7, Zenon DEF GraceExpires, Disband
  <2>3. TablesMove
    BY <2>2, ForgetMoves, FinalizedMoves, UnchangedMoves DEF tables
  <2> QED
    BY <2>1, <2>3, MovesKeep DEF TimersInv
<1>8. ASSUME NEW u \in Users, KickUser(u)
      PROVE  TimersInv'
  <2>1. timers' = timers /\ mine' = mine /\ grace' = [grace EXCEPT ![u] = NoGrace]
    BY <1>8 DEF KickUser
  <2> QED
    BY <2>1 DEF TimersInv
<1>9. CASE UNCHANGED vars
  BY <1>9 DEF vars, TimersInv
<1> QED
  BY <1>1, <1>2, <1>3, <1>4, <1>5, <1>6, <1>7, <1>8, <1>9 DEF Next

(* Whatever the connections do, also when one that has left a running game  *)
(* enters another room: a grace period ends before its own timer only with  *)
(* its room (disconnect_is_current).                                        *)
THEOREM GracePeriodsRunTheirCourse == Spec => GraceRunsItsCourse
<1> DEFINE Runs(m) ==
             LET g == grace[m.token] IN
             g # NoGrace /\ grace'[m.token] = NoGrace /\ [token |-> m.token, seq |-> g.seq] \in timers'
             => rooms'[g.room] = NoRoom
<1>1. ASSUME TimersInv, Next, NEW m \in timers, m \notin timers'
      PROVE  GraceExpires(m)
  <2>1. ASSUME timers \subseteq timers'
        PROVE  FALSE
    BY <1>1, <2>1
  <2>2. ASSUME NEW s \in Sids, Disconnect(s)
        PROVE  timers \subseteq timers'
    BY <2>2 DEF Disconnect
  <2>3. ASSUME NEW s \in Sids,
               \/ StartGame(s) \/ LeaveRoom(s) \/ Logout(s)
               \/ \E p \in People : Connect(s, p) \/ SetName(s, p)
               \/ \E t \in Tokens : Rejoin(s, t)
        PROVE  timers \subseteq timers'
    <3>1. timers' = timers
      BY <2>3, Zenon DEF StartGame, LeaveRoom, Logout, Leaves, Connect, SetName, Introduce, Rejoin
    <3> QED
      BY <3>1
  <2>4. ASSUME NEW s \in Sids, NEW r \in Rooms,
               JoinRoom(s, r) \/ LateJoin(s, r) \/ OpenAsync(s, r) \/ \E kind \in KindsOf[r] : Open(s, r, kind)
        PROVE  timers \subseteq timers'
    BY <1>1, <2>4, ArrivalMoves
  <2>5. ASSUME NEW r \in Rooms, AdminDisband(r) \/ GameEnds(r) \/ \E s \in Sids : AdminRemove(r, s)
        PROVE  timers \subseteq timers'
    BY <2>5 DEF AdminRemove, AdminDisband, GameEnds
  <2>6. ASSUME NEW u \in Users, KickUser(u)
        PROVE  timers \subseteq timers'
    BY <2>6 DEF KickUser
  <2>7. ASSUME NEW n \in timers, GraceExpires(n)
        PROVE  GraceExpires(m)
    <3>1. timers' = timers \ {n}
      BY <2>7, Zenon DEF GraceExpires
    <3>2. m = n
      BY <1>1, <3>1
    <3> QED
      BY <2>7, <3>2
  <2> QED
    BY <1>1, <2>1, <2>2, <2>3, <2>4, <2>5, <2>6, <2>7 DEF Next
<1>2. ASSUME TimersInv, [Next]_vars
      PROVE  \A m \in timers \ timers' : Runs(m)
  <2> TAKE m \in timers \ timers'
  <2>1. GraceExpires(m)
    BY <1>1, <1>2 DEF vars
  <2>2. CASE ~IsCurrent(m)
    <3>1. grace' = grace
      BY <2>1, <2>2, SMTT(20) DEF GraceExpires, tables
    <3> QED
      BY <3>1
  <2>3. CASE IsCurrent(m)
    <3>1. [token |-> m.token, seq |-> grace[m.token].seq] = m
      BY <1>2, <2>3 DEF TimersInv, IsCurrent
    <3> QED
      BY <3>1
  <2> QED
    BY <2>2, <2>3
<1>3. ASSUME TimersInv, [Next]_vars
      PROVE  [\A m \in timers \ timers' : Runs(m)]_vars
  BY <1>2, <1>3
<1> QED
  BY TimersStart, TimersStep, <1>3, PTL DEF Spec, GraceRunsItsCourse

-----------------------------------------------------------------------------
(* The tables, for connections that enter no other room before they are out *)
(* of the game they left.                                                   *)

LEMMA SessionsStart == Init => SessionsInv
<1> USE SessionsAssumption
<1> SUFFICES ASSUME Init
             PROVE  SessionsInv
  OBVIOUS
<1>1. \A r \in Rooms : rooms[r] = NoRoom /\ SeatsOf(r) = {}
  BY DEF Init, NoRoom, SeatsOf, ToSet
<1>2. NoRoom \in RoomRecord /\ NoRoom.kind = "none" /\ NoRoom.late = {} /\ NoRoom.seats = <<>>
  BY DEF NoRoom, RoomRecord
<1>3. SessionsTypeOK
  BY <1>2 DEF Init, SessionsTypeOK
<1>4. SeatsApart /\ RoomsFit
  BY <1>1, <1>2 DEF SeatsApart, RoomsFit, Distinct
<1>5. Seated
  BY <1>1 DEF Init, Seated
<1>6. TokensFit
  BY DEF Init, TokensFit, Tokens
<1>7. GraceFits
  BY DEF Init, GraceFits
<1>8. OwnerSits
  BY <1>1, <1>2 DEF OwnerSits
<1> QED
  BY <1>3, <1>4, <1>5, <1>6, <1>7, <1>8 DEF SessionsInv

LEMMA StutterKeeps ==
  ASSUME SessionsInv, UNCHANGED vars
  PROVE  SessionsInv'
<1>1. /\ conn' = conn /\ auth' = auth /\ at' = at /\ token' = token /\ mine' = mine
      /\ grace' = grace /\ rooms' = rooms
  BY DEF vars
<1>2. SessionsTypeOK' /\ SeatsApart'
  BY <1>1 DEF SessionsInv, SessionsTypeOK, SeatsApart, SeatsOf
<1>3. RoomsFit' /\ Seated' /\ OwnerSits'
  BY <1>1 DEF SessionsInv, RoomsFit, Seated, OwnerSits, SeatsOf
<1>4. TokensFit'
  BY <1>1 DEF SessionsInv, TokensFit, SeatsOf, OwnerOf
<1>5. GraceFits'
  BY <1>1 DEF SessionsInv, GraceFits, SeatsOf, OwnerOf
<1> QED
  BY <1>2, <1>3, <1>4, <1>5 DEF SessionsInv

LEMMA SessionsStep ==
  ASSUME ~MovesOn, SessionsInv, TimersInv, [Next]_vars
  PROVE  SessionsInv'
<1>1. ASSUME NEW s \in Sids, StartGame(s) \/ LeaveRoom(s) \/ Logout(s) \/ Disconnect(s)
      PROVE  SessionsInv'
  <2>1. CASE LeaveRoom(s)
    BY <2>1, LeavesKeeps DEF LeaveRoom
  <2> QED
    BY <1>1, <2>1, StartGameKeeps, LogoutKeeps, DisconnectKeeps
<1>2. ASSUME NEW s \in Sids, NEW p \in People, Connect(s, p) \/ SetName(s, p)
      PROVE  SessionsInv'
  BY <1>2, ConnectKeeps
<1>3. ASSUME NEW s \in Sids, NEW r \in Rooms, JoinRoom(s, r)
      PROVE  SessionsInv'
  BY <1>3, JoinRoomKeeps
<1>4. ASSUME NEW s \in Sids, NEW r \in Rooms, LateJoin(s, r)
      PROVE  SessionsInv'
  BY <1>4, LateJoinKeeps
<1>5. ASSUME NEW s \in Sids, NEW r \in Rooms, OpenAsync(s, r)
      PROVE  SessionsInv'
  BY <1>5, OpenAsyncKeeps
<1>6. ASSUME NEW s \in Sids, NEW r \in Rooms, AdminRemove(r, s)
      PROVE  SessionsInv'
  BY <1>6, AdminRemoveKeeps
<1>7. ASSUME NEW s \in Sids, NEW r \in Rooms, NEW kind \in KindsOf[r], Open(s, r, kind)
      PROVE  SessionsInv'
  BY <1>7, OpenKeeps
<1>8. ASSUME NEW s \in Sids, NEW t \in Tokens, Rejoin(s, t)
      PROVE  SessionsInv'
  BY <1>8, RejoinKeeps
<1>9. ASSUME NEW r \in Rooms, GameEnds(r) \/ AdminDisband(r)
      PROVE  SessionsInv'
  BY <1>9, GameEndsKeeps, AdminDisbandKeeps
<1>10. ASSUME NEW m \in timers, GraceExpires(m)
       PROVE  SessionsInv'
  <2>1. m.token \in Tokens /\ m.seq \in 1 .. MaxSeq
    BY DEF TimersInv
  <2>2. IsCurrent(m) => grace[m.token] # NoGrace
    BY <2>1, SessionsAssumption DEF IsCurrent, NoGrace
  <2> QED
    BY <1>10, <2>1, <2>2, ExpiryKeeps
<1>11. ASSUME NEW u \in Users, KickUser(u)
       PROVE  SessionsInv'
  BY <1>11, KickKeeps
<1>12. CASE UNCHANGED vars
  BY <1>12, StutterKeeps
<1> QED
  BY <1>1, <1>2, <1>3, <1>4, <1>5, <1>6, <1>7, <1>8, <1>9, <1>10, <1>11, <1>12 DEF Next

(* The invariant of the connections: seats, tokens, grace periods, owners   *)
(* and tables as they are after every handler and timer, as long as nobody  *)
(* with a seat in a running game enters another room.                       *)
THEOREM SessionsAlways ==
  ASSUME ~MovesOn
  PROVE  Spec => []SessionsInv
<1>1. Init => SessionsInv /\ TimersInv
  BY SessionsStart, TimersStart
<1>2. SessionsInv /\ TimersInv /\ [Next]_vars => (SessionsInv /\ TimersInv)'
  BY SessionsStep, TimersStep
<1> QED
  BY <1>1, <1>2, PTL DEF Spec

(* After any sequence of arrivals, departures, takeovers, timers and the    *)
(* admin's interventions player_rooms, Game.players and Room.owner agree:   *)
(* the moves of a connection reach one hand, every player who counts as     *)
(* connected can be lost, and an ordinary room has its owner in it.         *)
THEOREM TablesAlwaysAgree ==
  ASSUME ~MovesOn
  PROVE  Spec => []TablesAgree
<1>1. ASSUME SessionsInv
      PROVE  RegisteredIsSeated
  <2> SUFFICES ASSUME NEW s \in Sids, at[s] # None
               PROVE  /\ rooms[at[s]].stage # "none"
                      /\ Cardinality({x \in SeatsOf(at[s]) : x.sid = s /\ ~x.away}) = 1
    BY DEF RegisteredIsSeated
  <2>1. at[s] \in Rooms
    BY <1>1 DEF SessionsInv, SessionsTypeOK
  <2>2. PICK x \in SeatsOf(at[s]) : x.sid = s /\ ~x.away
    BY <1>1 DEF SessionsInv, Seated
  <2>3. rooms[at[s]].stage # "none"
    <3>1. rooms[at[s]] # NoRoom
      BY <2>2 DEF NoRoom, SeatsOf, ToSet
    <3> QED
      BY <1>1, <2>1, <3>1 DEF SessionsInv, RoomsFit
  <2>4. \A y \in SeatsOf(at[s]) : y.sid = s => y = x
    BY <1>1, <2>1, <2>2, SessionsAssumption DEF SessionsInv, SeatsApart
  <2>5. {y \in SeatsOf(at[s]) : y.sid = s /\ ~y.away} = {x}
    BY <2>2, <2>4
  <2> QED
    BY <2>3, <2>5, FS_Singleton
<1>2. SessionsInv => TablesAgree
  BY <1>1 DEF SessionsInv, Seated, PresentIsRegistered, TablesAgree
<1> QED
  BY SessionsAlways, <1>2, PTL

(* The seat a connection plays is its person's own (rejoin_room,            *)
(* open_async_game, try_late_join).                                         *)
THEOREM NobodyPlaysAnothersSeat ==
  ASSUME ~MovesOn
  PROVE  Spec => []OwnSeatOnly
<1>1. SessionsInv => OwnSeatOnly
  <2> SUFFICES ASSUME SessionsInv, NEW s \in Sids, at[s] # None, NEW x \in SeatsOf(at[s]), x.sid = s
               PROVE  x.who = auth[s]
    BY DEF OwnSeatOnly
  <2>1. at[s] \in Rooms /\ auth[s] # None /\ s # None
    BY SessionsAssumption DEF SessionsInv, SessionsTypeOK, Seated
  <2> QED
    BY <2>1 DEF SessionsInv, Seated
<1> QED
  BY SessionsAlways, <1>1, PTL

(* Who sits where his token leads has the token, and loses a connection and *)
(* not his seat (generate_reconnect_token, sid_to_token).                   *)
THEOREM SeatsKeepTheirTokens ==
  ASSUME ~MovesOn
  PROVE  Spec => []SeatedKeepsToken
<1>1. SessionsInv => SeatedKeepsToken
  BY DEF SessionsInv, TokensFit, SeatedKeepsToken
<1> QED
  BY SessionsAlways, <1>1, PTL

(* Whoever returns within his grace period finds his seat                   *)
(* (cleanup_player_token, replace_player_sid).                              *)
THEOREM AbsentSeatsAreKept ==
  ASSUME ~MovesOn
  PROVE  Spec => []GraceKeepsSeat
<1>1. SessionsInv => GraceKeepsSeat
  BY DEF SessionsInv, GraceFits, GraceKeepsSeat
<1> QED
  BY SessionsAlways, <1>1, PTL
=============================================================================
