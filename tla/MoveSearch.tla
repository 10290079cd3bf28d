----------------------------- MODULE MoveSearch -----------------------------
(***************************************************************************)
(* The board and the bot's move generator.                                 *)
(*                                                                         *)
(* engine/board.rs judges a placement (a set of tiles put on squares);     *)
(* robot/ai.rs generates placements with an anchor based search over a     *)
(* sorted vocabulary; words/practice.rs walks the same vocabulary for the  *)
(* words a rack can spell.  A tile is a model value and Spelling[t] is the *)
(* text on it, a sequence of characters, so that the tile SZ and the two   *)
(* tiles S and Z spell the same text.  The state machine is the bot        *)
(* playing with itself from the empty board; the bag is any rack of Racks. *)
(***************************************************************************)
EXTENDS Integers, Sequences, FiniteSets, SequencesExt, FiniteSetsExt

CONSTANTS
    Size,            \* the board has Size * Size squares
    Centre,          \* its middle square
    Tiles,           \* the tiles with a letter
    Blank,           \* the blank tile
    Spelling,        \* the text on a tile
    Worth,           \* its points
    Premiums,        \* squares to [letter, word] multipliers, 1 where there is none
    Vocabulary,      \* the texts the bot knows
    OtherWords,      \* further texts the dictionary accepts
    Racks,           \* the racks dealt: functions from Tiles and Blank to numbers
    RackSize, Bonus, \* HAND_SIZE and what using it up is worth
    MaxLaid,         \* bound: nothing is placed when so many squares are taken
    NoRack

VARIABLES board, rack
searchVars == <<board, rack>>

Squares == (1..Size) \X (1..Size)
Hand == Tiles \union {Blank}

-----------------------------------------------------------------------------
(* Texts.                                                                  *)
Text(letters) == FlattenSeq([i \in DOMAIN letters |-> Spelling[letters[i]]])

FormsDigraph(s, t) ==
    /\ Len(Spelling[s]) = 1
    /\ Len(Spelling[t]) = 1
    /\ \E d \in Tiles : Len(Spelling[d]) = 2 /\ Spelling[d] = Spelling[s] \o Spelling[t]

StartsWord(prefix) == \E word \in Vocabulary : IsPrefix(prefix, word)
Accepted(text) == text \in Vocabulary \union OtherWords

-----------------------------------------------------------------------------
(* The board: a function on the occupied squares.  A placement is a set of *)
(* records; along says whether a line is a row.                            *)
Step(sq, along, k) == IF along THEN <<sq[1], sq[2] + k>> ELSE <<sq[1] + k, sq[2]>>
Ordinate(sq, along) == IF along THEN sq[2] ELSE sq[1]
Flip(sq) == <<sq[2], sq[1]>>
Flipped(b) == [sq \in {Flip(p) : p \in DOMAIN b} |-> b[Flip(sq)]]
FlippedTiles(placed) == {[p EXCEPT !.at = Flip(@)] : p \in placed}

Touching(sq) == {Step(sq, along, k) : along \in BOOLEAN, k \in {-1, 1}}
Covered(placed) == {p.at : p \in placed}
Laid(b, placed) ==
    [sq \in DOMAIN b \union Covered(placed) |->
        IF sq \in DOMAIN b THEN b[sq]
        ELSE LET p == CHOOSE q \in placed : q.at = sq IN [letter |-> p.letter, blank |-> p.blank]]

\* How far the letters reach from sq in one direction.
Reach(b, sq, along, sign) ==
    Max({0} \union {k \in 1..Size : \A j \in 1..k : Step(sq, along, sign * j) \in DOMAIN b})

\* The squares of the word from sq, k squares on, both ends extended.
WordFrom(b, sq, k, along) ==
    LET before == Reach(b, sq, along, -1)
        after == Reach(b, Step(sq, along, k), along, 1)
    IN  [i \in 1..(before + k + after + 1) |-> Step(sq, along, i - 1 - before)]

Read(b, word) == Text([i \in DOMAIN word |-> b[word[i]].letter])

WordScore(b, new, word) ==
    LET value(sq) == (IF b[sq].blank THEN 0 ELSE Worth[b[sq].letter])
                       * (IF sq \in new THEN Premiums[sq].letter ELSE 1)
        times(sq) == IF sq \in new THEN Premiums[sq].word ELSE 1
    IN  FoldFunction(LAMBDA sq, sum : sum + value(sq), 0, word)
          * FoldFunction(LAMBDA sq, product : times(sq) * product, 1, word)

Positioned(b, placed) ==
    /\ placed # {}
    /\ Covered(placed) \subseteq Squares \ DOMAIN b
    /\ Cardinality(Covered(placed)) = Cardinality(placed)

Aligned(new, along) == \A p, q \in new : Ordinate(p, ~along) = Ordinate(q, ~along)

OpensWell(new) == Centre \in new /\ Cardinality(new) >= 2

Neighbour(b, sq, along) == \E k \in {-1, 1} : Step(sq, along, k) \in DOMAIN b

\* The direction the tiles are read in: that of the line, and for a single
\* tile that of its neighbours, the row first.
Direction(b, new) ==
    IF Cardinality(new) = 1
    THEN LET sq == CHOOSE p \in new : TRUE IN Neighbour(b, sq, TRUE) \/ ~Neighbour(b, sq, FALSE)
    ELSE Aligned(new, TRUE)

MainWord(b, new, along) ==
    LET sq == CHOOSE p \in new : \A q \in new : Ordinate(p, along) <= Ordinate(q, along)
        last == Max({Ordinate(p, along) : p \in new})
    IN  WordFrom(b, sq, last - Ordinate(sq, along), along)

CollectWords(b, new, along) ==
    {w \in {MainWord(b, new, along)} \union {WordFrom(b, sq, 0, ~along) : sq \in new} : Len(w) > 1}

SplitDigraph(b, new, words) ==
    \E w \in words : \E i \in 1..(Len(w) - 1) :
        /\ {w[i], w[i + 1]} \intersect new # {}
        /\ FormsDigraph(b[w[i]].letter, b[w[i + 1]].letter)

\* The words a placement forms, or {} when the board refuses it (the
\* dictionary is asked separately).
ValidatePlacement(b, placed) ==
    LET new == Covered(placed)
        after == Laid(b, placed)
        along == Direction(after, new)
        words == CollectWords(after, new, along)
    IN  IF /\ Positioned(b, placed)
           /\ Aligned(new, TRUE) \/ Aligned(new, FALSE)
           /\ IF DOMAIN b = {} THEN OpensWell(new)
              ELSE \E sq \in new : Touching(sq) \intersect DOMAIN b # {}
           /\ ToSet(MainWord(after, new, along)) \subseteq DOMAIN after
           /\ ~SplitDigraph(after, new, words)
        THEN words ELSE {}

PlacementScore(b, placed) ==
    LET after == Laid(b, placed)
    IN  FoldSet(LAMBDA w, sum : sum + WordScore(after, Covered(placed), w), 0,
                              ValidatePlacement(b, placed))

-----------------------------------------------------------------------------
(* The search.  A grid is a board; the columns are searched as the rows of *)
(* the flipped one.                                                        *)
Used(hand, t) == [hand EXCEPT ![t] = @ - 1]

\* Every letter the hand can show: the tile itself, or a blank in its place.
Showable(hand) ==
    {c \in [letter : Tiles, blank : BOOLEAN] : hand[IF c.blank THEN Blank ELSE c.letter] > 0}
Spent(hand, c) == Used(hand, IF c.blank THEN Blank ELSE c.letter)

\* (faulty variant: only squares beside a letter)
FaultAnchors(b) ==
    IF DOMAIN b = {} THEN {Centre}
    ELSE {sq \in Squares \ DOMAIN b : {Step(sq, TRUE, -1), Step(sq, TRUE, 1)} \intersect DOMAIN b # {}}
Anchors(b) ==
    IF DOMAIN b = {} THEN {Centre}
    ELSE {sq \in Squares \ DOMAIN b : Touching(sq) \intersect DOMAIN b # {}}

\* May the letter stand on the square, judged by the word across?
Allowed(grid, sq, letter) ==
    LET word == WordFrom(grid, sq, 0, FALSE)
        filled == Laid(grid, {[at |-> sq, letter |-> letter, blank |-> FALSE]})
    IN  Len(word) = 1 \/ Accepted(Read(filled, word))

RECURSIVE ExtendRight(_, _, _, _, _, _)
ExtendRight(grid, anchor, sq, prefix, placed, hand) ==
    IF ~StartsWord(prefix) THEN {}
    ELSE IF sq \in DOMAIN grid
    THEN ExtendRight(grid, anchor, Step(sq, TRUE, 1), prefix \o Spelling[grid[sq].letter], placed, hand)
    ELSE (IF sq[2] > anchor[2] /\ Len(prefix) >= 2 /\ prefix \in Vocabulary THEN {placed} ELSE {})
         \union UNION {ExtendRight(grid, anchor, Step(sq, TRUE, 1), prefix \o Spelling[c.letter],
                                   placed \union {[at |-> sq, letter |-> c.letter, blank |-> c.blank]},
                                   Spent(hand, c))
                       : c \in {d \in Showable(hand) : sq \in Squares /\ Allowed(grid, sq, d.letter)}}

RECURSIVE LeftPart(_, _, _, _, _)
LeftPart(grid, anchor, left, limit, hand) ==
    LET prefix == Text([i \in DOMAIN left |-> left[i].letter])
        placed == {[at |-> Step(anchor, TRUE, i - 1 - Len(left)), letter |-> left[i].letter,
                    blank |-> left[i].blank] : i \in DOMAIN left}
    IN  IF ~StartsWord(prefix) THEN {}
        ELSE ExtendRight(grid, anchor, anchor, prefix, placed, hand)
             \union (IF Len(left) >= limit THEN {}
                     ELSE UNION {LeftPart(grid, anchor, Append(left, c), limit, Spent(hand, c))
                                 : c \in Showable(hand)})

\* Squares to the left of an anchor that no letter touches.
LeftLimit(grid, anchor) ==
    Max({k \in 0..(RackSize - 1) :
            \A j \in 1..k : Step(anchor, TRUE, -j) \in Squares \ (DOMAIN grid \union Anchors(grid))})

SearchRows(grid, hand) ==
    UNION {LET before == Reach(grid, anchor, TRUE, -1)
               fixed == [i \in 1..before |-> grid[Step(anchor, TRUE, i - 1 - before)].letter]
           IN  IF before > 0 THEN ExtendRight(grid, anchor, anchor, Text(fixed), {}, hand)
               ELSE LeftPart(grid, anchor, <<>>, LeftLimit(grid, anchor), hand)
           : anchor \in Anchors(grid)}

\* On the empty board only the row is searched.
GenerateMoves(b, hand) ==
    LET columns == IF DOMAIN b = {} THEN {} ELSE SearchRows(Flipped(b), hand)
        found == SearchRows(b, hand) \union {FlippedTiles(p) : p \in columns}
    IN  {p \in found : Cardinality(p) <= RackSize /\ ValidatePlacement(b, p) # {}}

MoveScore(b, p) == PlacementScore(b, p) + (IF Cardinality(p) = RackSize THEN Bonus ELSE 0)

-----------------------------------------------------------------------------
(* The words a rack can spell (practice.rs): a walk over the tiles, with   *)
(* the digraph rule applied as it goes; each word with its best score.     *)
MayFollow(prefix, t) == prefix = <<>> \/ ~FormsDigraph(Last(prefix), t)

RECURSIVE Walk(_, _, _, _)
Walk(prefix, hand, used, score) ==
    IF ~StartsWord(Text(prefix)) THEN {}
    ELSE (IF used >= 2 /\ Text(prefix) \in Vocabulary
          THEN {[text |-> Text(prefix), score |-> score + (IF used = RackSize THEN Bonus ELSE 0)]}
          ELSE {})
         \union UNION {Walk(Append(prefix, t), Used(hand, t), used + 1, score + Worth[t])
                       : t \in {u \in Tiles : hand[u] > 0 /\ MayFollow(prefix, u)}}

RackWords(hand) ==
    LET all == Walk(<<>>, hand, 0, 0)
    IN  {w \in all : \A v \in all : v.text = w.text => v.score <= w.score}

-----------------------------------------------------------------------------
(* The bot plays: a placement found and accepted by the dictionary, an     *)
(* exchange or a pass (the lowest level may miss every move, and a search  *)
(* out of time has found only some).                                       *)
SearchInit == board = << >> /\ rack = NoRack

Proposals ==
    {p \in GenerateMoves(board, rack) :
        \A w \in ValidatePlacement(board, p) : Accepted(Read(Laid(board, p), w))}

Deal == rack = NoRack /\ rack' \in Racks /\ UNCHANGED board

Place ==
    /\ rack # NoRack
    /\ Cardinality(DOMAIN board) < MaxLaid
    /\ \E p \in Proposals : board' = Laid(board, p) /\ rack' \in Racks
Exchange == rack # NoRack /\ rack' \in Racks \ {rack} /\ UNCHANGED board

SearchNext == Deal \/ Place \/ Exchange
SearchSpec == SearchInit /\ [][SearchNext]_searchVars

-----------------------------------------------------------------------------
(* References.                                                             *)

\* Every way to put tiles of the hand on squares of one line.
AllPlacements(b, hand) ==
    LET free == Squares \ DOMAIN b
        tilesOn(at) == {f \in [at -> [letter : Tiles, blank : BOOLEAN]] :
                           /\ \A t \in Tiles : Cardinality({s \in at : f[s].letter = t /\ ~f[s].blank}) <= hand[t]
                           /\ Cardinality({s \in at : f[s].blank}) <= hand[Blank]}
        onLines == UNION {{s \in SUBSET {sq \in free : Ordinate(sq, along) = n} : Cardinality(s) \in 1..RackSize}
                          : along \in BOOLEAN, n \in 1..Size}
    IN  UNION {{{[at |-> s, letter |-> f[s].letter, blank |-> f[s].blank] : s \in at} : f \in tilesOn(at)}
               : at \in onLines}

\* The placement makes a word of the vocabulary in one direction and words
\* of the dictionary across it.
Playable(b, p) ==
    LET after == Laid(b, p)
        words == ValidatePlacement(b, p)
    IN  /\ \A w \in words : Accepted(Read(after, w))
        /\ \E w \in words : Covered(p) \subseteq ToSet(w) /\ Read(after, w) \in Vocabulary

\* Tilings of a text by the rack's tiles, no digraph split.
Tilings(text, hand) ==
    {s \in UNION {[1..n -> Tiles] : n \in 2..RackSize} :
        /\ Text(s) = text
        /\ \A t \in Tiles : Cardinality({i \in DOMAIN s : s[i] = t}) <= hand[t]
        /\ \A i \in 1..(Len(s) - 1) : ~FormsDigraph(s[i], s[i + 1])}

-----------------------------------------------------------------------------
(* Properties.                                                             *)

\* The words a placement makes: the lines of letters, as long as they can be,
\* that go through a new tile.
LinesThrough(b, new) ==
    {w \in {[i \in 1..n |-> Step(sq, along, i - 1)] : sq \in DOMAIN b, along \in BOOLEAN, n \in 2..Size} :
        /\ ToSet(w) \subseteq DOMAIN b /\ ToSet(w) \intersect new # {}
        /\ LET along == w[1][1] = w[2][1]
           IN  {Step(w[1], along, -1), Step(Last(w), along, 1)} \intersect DOMAIN b = {}}

\* The generator finds every placement that can be played, and no other: the
\* anchors, the limit of the left part, the letters allowed across and the
\* blanks lose nothing (ai.rs, generate_moves).  Only the first move is found
\* in the row alone.
FindsEveryMove ==
    LET legal == {p \in AllPlacements(board, rack) : ValidatePlacement(board, p) # {} /\ Playable(board, p)}
    IN  Proposals = IF DOMAIN board = {} THEN {p \in legal : Aligned(Covered(p), TRUE)} ELSE legal

\* Whatever the direction a placement is read in, each word it makes counts,
\* and counts once (board.rs, validate_placement).
ScoresEveryWord ==
    \A p \in Proposals :
        LET after == Laid(board, p)
        IN  MoveScore(board, p) =
                FoldSet(LAMBDA w, sum : sum + WordScore(after, Covered(p), w),
                        IF Cardinality(p) = RackSize THEN Bonus ELSE 0, LinesThrough(after, Covered(p)))

\* The letter hunt lists the words the rack can spell with the best score of
\* each; a digraph is never spelled with two tiles (practice.rs, rack_words).
HuntIsExact ==
    LET base(s) == FoldFunction(LAMBDA t, sum : sum + Worth[t], IF Len(s) = RackSize THEN Bonus ELSE 0, s)
    IN  RackWords(rack) =
            {[text |-> w, score |-> Max({base(s) : s \in Tilings(w, rack)})]
             : w \in {v \in Vocabulary : Tilings(v, rack) # {}}}

\* The two searches find what a search of everything would find, with the
\* right score.
SearchIsExact == rack # NoRack => FindsEveryMove /\ ScoresEveryWord /\ HuntIsExact
=============================================================================
