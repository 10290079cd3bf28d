----------------------------- MODULE AffixProofs -----------------------------
(* Proofs about the word analysis, for every dictionary: any entries, any   *)
(* rules and flags, any list of attested forms.                             *)
EXTENDS Affix, SequenceTheorems, TLAPS

Text == Seq(Letters)
Rules == SuffixRules \union PrefixRules

-----------------------------------------------------------------------------
(* Taking an ending off and putting it on are inverse to one another.       *)

\* x ends u when the last letters of u are those of x.
LEMMA Ending ==
  ASSUME NEW x \in Text, NEW u \in Text
  PROVE  IsSuffix(x, u) <=> /\ Len(x) <= Len(u)
                            /\ \A i \in 1..Len(x) : x[i] = u[Len(u) - Len(x) + i]
<1>1. /\ Len(x) \in Nat /\ Len(u) \in Nat
      /\ Reverse(x) \in Text /\ Reverse(u) \in Text
      /\ Len(Reverse(x)) = Len(x) /\ Len(Reverse(u)) = Len(u)
      /\ \A i \in 1..Len(x) : Reverse(x)[i] = x[(Len(x) - i) + 1]
      /\ \A i \in 1..Len(u) : Reverse(u)[i] = u[(Len(u) - i) + 1]
  BY DEF Reverse, Text
<1> DEFINE a == Reverse(x)
           b == Reverse(u)
<1>2. IsSuffix(x, u) <=> Len(x) <= Len(u) /\ SubSeq(a, 1, Len(x)) = SubSeq(b, 1, Len(x))
  BY <1>1 DEF IsSuffix, IsPrefix
<1>3. ASSUME Len(x) <= Len(u)
      PROVE  SubSeq(a, 1, Len(x)) = SubSeq(b, 1, Len(x)) <=> \A i \in 1..Len(x) : a[i] = b[i]
  BY <1>1, <1>3 DEF Text
<1>4. ASSUME Len(x) <= Len(u)
      PROVE  (\A i \in 1..Len(x) : a[i] = b[i]) <=> \A i \in 1..Len(x) : x[i] = u[Len(u) - Len(x) + i]
  <2>1. ASSUME \A i \in 1..Len(x) : a[i] = b[i], NEW i \in 1..Len(x)
        PROVE  x[i] = u[Len(u) - Len(x) + i]
    <3> DEFINE j == (Len(x) - i) + 1
    <3>1. j \in 1..Len(x) /\ j \in 1..Len(u) /\ (Len(x) - j) + 1 = i /\ (Len(u) - j) + 1 = Len(u) - Len(x) + i
      BY <1>1, <1>4
    <3>2. a[j] = b[j]
      BY <2>1, <3>1
    <3>3. a[j] = x[(Len(x) - j) + 1] /\ b[j] = u[(Len(u) - j) + 1]
      <4> HIDE DEF j
      <4> QED
        BY <1>1, <3>1
    <3>4. a[j] = x[i] /\ b[j] = u[Len(u) - Len(x) + i]
      BY <3>1, <3>3, Zenon
    <3> QED
      BY <3>2, <3>4, Zenon
  <2>2. ASSUME \A i \in 1..Len(x) : x[i] = u[Len(u) - Len(x) + i], NEW i \in 1..Len(x)
        PROVE  a[i] = b[i]
    <3> DEFINE j == (Len(x) - i) + 1
    <3>1. j \in 1..Len(x) /\ i \in 1..Len(u) /\ Len(u) - Len(x) + j = (Len(u) - i) + 1
      BY <1>1, <1>4
    <3> QED
      BY <1>1, <2>2, <3>1
  <2> QED
    BY <2>1, <2>2
<1> QED
  BY <1>2, <1>3, <1>4

\* The ending x of u is replaced by y: replacing y by x again gives u back.
LEMMA EndingReplaced ==
  ASSUME NEW x \in Text, NEW y \in Text, NEW u \in Text,
         Len(u) > Len(x), IsSuffix(x, u),
         NEW v, v = SubSeq(u, 1, Len(u) - Len(x)) \o y
  PROVE  /\ v \in Text /\ Len(v) > Len(y) /\ IsSuffix(y, v)
         /\ u = SubSeq(v, 1, Len(v) - Len(y)) \o x
<1> DEFINE n == Len(u) - Len(x)
           base == SubSeq(u, 1, n)
<1>1. /\ Len(x) \in Nat /\ Len(y) \in Nat /\ Len(u) \in Nat /\ n \in 1..Len(u)
      /\ base \in Text /\ Len(base) = n
      /\ \A i \in 1..n : base[i] = u[i]
  <2>0. Len(x) \in Nat /\ Len(y) \in Nat /\ Len(u) \in Nat
    BY DEF Text
  <2>1. Len(x) \in Nat /\ Len(y) \in Nat /\ Len(u) \in Nat /\ n \in 1..Len(u)
    BY <2>0
  <2> HIDE DEF n
  <2>2. \A i \in 1..n : u[i] \in Letters
    BY <2>1, SMTT(30) DEF Text
  <2>3. /\ SubSeq(u, 1, n) \in Seq(Letters)
        /\ Len(SubSeq(u, 1, n)) = (IF 1 <= n THEN n - 1 + 1 ELSE 0)
        /\ \A i \in 1..(n - 1 + 1) : SubSeq(u, 1, n)[i] = u[1 + i - 1]
    BY <2>1, <2>2, SubSeqProperties
  <2> QED
    BY <2>1, <2>3 DEF Text
<1>2. /\ v \in Text /\ Len(v) = n + Len(y)
      /\ \A i \in 1..n : v[i] = u[i]
      /\ \A i \in 1..Len(y) : v[n + i] = y[i]
  <2> HIDE DEF base, n
  <2> QED
    BY <1>1 DEF Text, base, n
<1>3. \A i \in 1..Len(x) : x[i] = u[n + i]
  BY Ending
<1>4. IsSuffix(y, v)
  <2>1. Len(y) <= Len(v) /\ \A i \in 1..Len(y) : y[i] = v[Len(v) - Len(y) + i]
    BY <1>1, <1>2
  <2> QED
    BY <2>1, <1>2, Ending
<1>5. /\ SubSeq(v, 1, n) \in Text /\ Len(SubSeq(v, 1, n)) = n
      /\ \A i \in 1..n : SubSeq(v, 1, n)[i] = u[i]
  BY <1>1, <1>2 DEF Text
<1> DEFINE back == SubSeq(v, 1, n) \o x
<1>6. /\ back \in Text /\ Len(back) = Len(u)
      /\ \A i \in 1..n : back[i] = u[i]
      /\ \A i \in 1..Len(x) : back[n + i] = x[i]
  BY <1>1, <1>5, SMTT(60) DEF Text
<1>7. ASSUME NEW i \in 1..Len(u) PROVE back[i] = u[i]
  <2>1. CASE i \in 1..n
    BY <2>1, <1>6
  <2>2. CASE i \notin 1..n
    <3>1. (i - n) \in 1..Len(x) /\ n + (i - n) = i
      BY <2>2, <1>1
    <3> QED
      BY <3>1, <1>3, <1>6
  <2> QED
    BY <2>1, <2>2
<1>8. back = u
  <2> HIDE DEF back
  <2> QED
    BY <1>6, <1>7, SeqEqual DEF Text
<1>9. Len(v) - Len(y) = n
  BY <1>1, <1>2
<1>10. u = SubSeq(v, 1, Len(v) - Len(y)) \o x
  BY <1>8, <1>9, Zenon
<1>11. Len(v) > Len(y)
  BY <1>1, <1>2
<1> QED
  BY <1>2, <1>4, <1>10, <1>11, Zenon

\* The same of the beginning x of u.
After(u, x) == SubSeq(u, Len(x) + 1, Len(u))
Restores(x, y, u, v) ==
  v \in Text /\ Len(v) > Len(y) /\ IsPrefix(y, v) /\ u = x \o After(v, y)

LEMMA BeginningReplaced ==
  ASSUME NEW x \in Text, NEW y \in Text, NEW u \in Text,
         Len(u) > Len(x), IsPrefix(x, u)
  PROVE  Restores(x, y, u, y \o After(u, x))
<1>0. PICK v : v = y \o After(u, x)
  OBVIOUS
<1> DEFINE m == Len(x)
           rest == SubSeq(u, m + 1, Len(u))
<1>1. /\ m \in Nat /\ Len(y) \in Nat /\ Len(u) \in Nat /\ m < Len(u)
      /\ rest \in Text /\ Len(rest) = Len(u) - m
      /\ \A i \in 1..(Len(u) - m) : rest[i] = u[m + i]
  BY DEF Text
<1>2. /\ v \in Text /\ Len(v) = Len(y) + (Len(u) - m)
      /\ \A i \in 1..Len(y) : v[i] = y[i]
      /\ \A i \in 1..(Len(u) - m) : v[Len(y) + i] = u[m + i]
  <2>1. v = y \o rest
    BY <1>0 DEF After
  <2> HIDE DEF rest, m
  <2>2. /\ y \o rest \in Text /\ Len(y \o rest) = Len(y) + Len(rest)
        /\ \A i \in 1..(Len(y) + Len(rest)) :
              (y \o rest)[i] = IF i <= Len(y) THEN y[i] ELSE rest[i - Len(y)]
    BY <1>1, ConcatProperties DEF Text
  <2>3. \A i \in 1..(Len(u) - m) : (y \o rest)[Len(y) + i] = u[m + i]
    <3> TAKE i \in 1..(Len(u) - m)
    <3>1. /\ Len(y) + i \in 1..(Len(y) + Len(rest)) /\ ~(Len(y) + i <= Len(y)) /\ (Len(y) + i) - Len(y) = i
          /\ rest[i] = u[m + i]
      BY <1>1
    <3> QED
      BY <2>2, <3>1
  <2> QED
    BY <2>1, <2>2, <2>3, <1>1
<1>3. \A i \in 1..m : x[i] = u[i]
  <2>1. SubSeq(x, 1, m) = SubSeq(u, 1, m)
    BY DEF IsPrefix
  <2>2. \A i \in 1..m : SubSeq(x, 1, m)[i] = x[i] /\ SubSeq(u, 1, m)[i] = u[i]
    BY <1>1 DEF Text
  <2> QED
    BY <2>1, <2>2
<1>4. IsPrefix(y, v)
  <2>1. SubSeq(y, 1, Len(y)) = SubSeq(v, 1, Len(y))
    BY <1>1, <1>2 DEF Text
  <2> QED
    BY <2>1, <1>1, <1>2 DEF IsPrefix
<1> DEFINE rest2 == SubSeq(v, Len(y) + 1, Len(v))
<1>5. /\ rest2 \in Text /\ Len(rest2) = Len(u) - m
      /\ \A i \in 1..(Len(u) - m) : rest2[i] = u[m + i]
  <2>1. \A i \in (Len(y) + 1)..Len(v) : v[i] \in Letters
    BY <1>1, <1>2 DEF Text
  <2>2. /\ rest2 \in Seq(Letters)
        /\ Len(rest2) = (IF Len(y) + 1 <= Len(v) THEN Len(v) - (Len(y) + 1) + 1 ELSE 0)
        /\ \A i \in 1..(Len(v) - (Len(y) + 1) + 1) : rest2[i] = v[(Len(y) + 1) + i - 1]
    <3>1. Len(y) + 1 \in Int /\ Len(v) \in Int
      BY <1>1, <1>2
    <3> QED
      BY <2>1, <3>1, SubSeqProperties
  <2>3. \A i \in 1..(Len(u) - m) : i \in 1..(Len(v) - (Len(y) + 1) + 1) /\ (Len(y) + 1) + i - 1 = Len(y) + i
    BY <1>1, <1>2
  <2> HIDE DEF rest2
  <2>4. rest2 \in Text /\ Len(rest2) = Len(u) - m
    BY <2>2, <1>1, <1>2 DEF Text
  <2>5. ASSUME NEW i \in 1..(Len(u) - m) PROVE rest2[i] = u[m + i]
    <3>1. rest2[i] = v[(Len(y) + 1) + i - 1] /\ (Len(y) + 1) + i - 1 = Len(y) + i
      BY <2>2, <2>3
    <3>2. rest2[i] = v[Len(y) + i]
      BY <3>1, Zenon
    <3> QED
      BY <3>2, <1>2
  <2> QED
    BY <2>4, <2>5
<1> DEFINE back == x \o rest2
<1>6. /\ back \in Text /\ Len(back) = Len(u)
      /\ \A i \in 1..m : back[i] = x[i]
      /\ \A i \in 1..(Len(u) - m) : back[m + i] = u[m + i]
  <2> HIDE DEF rest2
  <2> QED
    BY <1>1, <1>5, SMTT(60) DEF Text
<1>7. ASSUME NEW i \in 1..Len(u) PROVE back[i] = u[i]
  <2>1. CASE i \in 1..m
    BY <2>1, <1>3, <1>6
  <2>2. CASE i \notin 1..m
    <3>1. (i - m) \in 1..(Len(u) - m) /\ m + (i - m) = i
      BY <2>2, <1>1
    <3> QED
      BY <3>1, <1>6
  <2> QED
    BY <2>1, <2>2
<1>8. back = u
  <2> HIDE DEF back
  <2> QED
    BY <1>6, <1>7, SeqEqual DEF Text
<1>9. Len(v) > Len(y)
  BY <1>1, <1>2
<1> QED
  BY <1>0, <1>2, <1>4, <1>8, <1>9, Zenon DEF After, Restores

\* A word with the ending of r on a stem is a word from which the ending of r
\* comes off, leaving the stem.
Stands(stem, r) == Len(stem) > Len(r.strip) /\ IsSuffix(r.strip, stem)
ComesOff(w, r) == Len(r.add) < Len(w) /\ IsSuffix(r.add, w)

LEMMA SuffixOnAndOff ==
  ASSUME NEW r \in Rules
  PROVE  /\ \A stem \in Text : Stands(stem, r) =>
              LET w == Suffixed(stem, r) IN w \in Text /\ ComesOff(w, r) /\ stem = WithoutSuffix(w, r)
         /\ \A w \in Text : ComesOff(w, r) =>
              LET stem == WithoutSuffix(w, r) IN stem \in Text /\ Stands(stem, r) /\ w = Suffixed(stem, r)
<1>1. r.strip \in Text /\ r.add \in Text /\ Len(r.strip) \in Nat /\ Len(r.add) \in Nat
  BY AffixAssumption DEF Rules, Text
<1>2. ASSUME NEW stem \in Text, Stands(stem, r), NEW w, w = Suffixed(stem, r)
      PROVE  w \in Text /\ ComesOff(w, r) /\ stem = WithoutSuffix(w, r)
  <2>1. Len(stem) > Len(r.strip) /\ IsSuffix(r.strip, stem)
    BY <1>2 DEF Stands
  <2>2. w = SubSeq(stem, 1, Len(stem) - Len(r.strip)) \o r.add
    BY <1>2 DEF Suffixed
  <2>3. /\ w \in Text /\ Len(w) > Len(r.add) /\ IsSuffix(r.add, w)
        /\ stem = SubSeq(w, 1, Len(w) - Len(r.add)) \o r.strip
    BY <1>1, <1>2, <2>1, <2>2, EndingReplaced, ZenonT(90)
  <2>4. Len(r.add) < Len(w)
    BY <2>3, <1>1 DEF Text
  <2> QED
    BY <2>3, <2>4, Zenon DEF ComesOff, WithoutSuffix
<1>3. ASSUME NEW w \in Text, ComesOff(w, r), NEW stem, stem = WithoutSuffix(w, r)
      PROVE  stem \in Text /\ Stands(stem, r) /\ w = Suffixed(stem, r)
  <2>1. Len(w) > Len(r.add) /\ IsSuffix(r.add, w)
    BY <1>1, <1>3 DEF ComesOff, Text
  <2>2. stem = SubSeq(w, 1, Len(w) - Len(r.add)) \o r.strip
    BY <1>3 DEF WithoutSuffix
  <2>3. /\ stem \in Text /\ Len(stem) > Len(r.strip) /\ IsSuffix(r.strip, stem)
        /\ w = SubSeq(stem, 1, Len(stem) - Len(r.strip)) \o r.add
    BY <1>1, <1>3, <2>1, <2>2, EndingReplaced, ZenonT(90)
  <2> QED
    BY <2>3, Zenon DEF Stands, Suffixed
<1> QED
  BY <1>2, <1>3, Zenon

\* The same of a prefix.
Begins(stem, p) == Len(stem) > Len(p.strip) /\ IsPrefix(p.strip, stem)
Falls(w, p) == Len(p.add) < Len(w) /\ IsPrefix(p.add, w)

LEMMA PrefixOnAndOff ==
  ASSUME NEW p \in Rules
  PROVE  /\ \A stem \in Text : Begins(stem, p) =>
              LET w == Prefixed(stem, p) IN w \in Text /\ Falls(w, p) /\ stem = WithoutPrefix(w, p)
         /\ \A w \in Text : Falls(w, p) =>
              LET stem == WithoutPrefix(w, p) IN stem \in Text /\ Begins(stem, p) /\ w = Prefixed(stem, p)
<1>1. p.strip \in Text /\ p.add \in Text /\ Len(p.strip) \in Nat /\ Len(p.add) \in Nat
  BY AffixAssumption DEF Rules, Text
<1>2. ASSUME NEW stem \in Text, Begins(stem, p), NEW w, w = Prefixed(stem, p)
      PROVE  w \in Text /\ Falls(w, p) /\ stem = WithoutPrefix(w, p)
  <2>1. Len(stem) > Len(p.strip) /\ IsPrefix(p.strip, stem)
    BY <1>2 DEF Begins
  <2>2. w = p.add \o After(stem, p.strip)
    BY <1>2 DEF Prefixed, After
  <2>3. /\ w \in Text /\ Len(w) > Len(p.add) /\ IsPrefix(p.add, w)
        /\ stem = p.strip \o After(w, p.add)
    <3>1. stem \in Text
      BY <1>2
    <3>2. Restores(p.strip, p.add, stem, p.add \o After(stem, p.strip))
      BY <1>1, <3>1, <2>1, BeginningReplaced
    <3> QED
      BY <2>2, <3>2, Zenon DEF Restores
  <2>4. Len(p.add) < Len(w)
    BY <2>3, <1>1 DEF Text
  <2> QED
    BY <2>3, <2>4, Zenon DEF Falls, WithoutPrefix, After
<1>3. ASSUME NEW w \in Text, Falls(w, p), NEW stem, stem = WithoutPrefix(w, p)
      PROVE  stem \in Text /\ Begins(stem, p) /\ w = Prefixed(stem, p)
  <2>1. Len(w) > Len(p.add) /\ IsPrefix(p.add, w)
    BY <1>1, <1>3 DEF Falls, Text
  <2>2. stem = p.strip \o After(w, p.add)
    BY <1>3 DEF WithoutPrefix, After
  <2>3. /\ stem \in Text /\ Len(stem) > Len(p.strip) /\ IsPrefix(p.strip, stem)
        /\ w = p.add \o After(stem, p.strip)
    <3>1. w \in Text
      BY <1>3
    <3>2. Restores(p.add, p.strip, w, p.strip \o After(w, p.add))
      BY <1>1, <3>1, <2>1, BeginningReplaced
    <3> QED
      BY <2>2, <3>2, Zenon DEF Restores
  <2> QED
    BY <2>3, Zenon DEF Begins, Prefixed, After
<1> QED
  BY <1>2, <1>3, Zenon

\* The two facts as one: on and off are the same relation.
LEMMA SuffixRelation ==
  ASSUME NEW r \in Rules, NEW stem, NEW w
  PROVE  stem \in Text /\ Stands(stem, r) /\ w = Suffixed(stem, r)
            <=> w \in Text /\ ComesOff(w, r) /\ stem = WithoutSuffix(w, r)
BY SuffixOnAndOff, Zenon

LEMMA PrefixRelation ==
  ASSUME NEW p \in Rules, NEW stem, NEW w
  PROVE  stem \in Text /\ Begins(stem, p) /\ w = Prefixed(stem, p)
            <=> w \in Text /\ Falls(w, p) /\ stem = WithoutPrefix(w, p)
BY PrefixOnAndOff, Zenon

-----------------------------------------------------------------------------
(* One ending, two endings, and a prefix: each check of the analysis        *)
(* against the words made by putting the same affixes on.                   *)

LEMMA UsableFacts ==
  /\ \A stem : UsableEntries(stem) = {e \in Usable : e.word = stem}
  /\ \A e \in Usable : e \in Lexicon /\ e.word \in Text /\ e \in UsableEntries(e.word)
BY AffixAssumption DEF Usable, UsableEntries, Text

\* e stands under the ending r and the prefix p, w being what they make.
OneSuffix(w, e, r, p, a) ==
  /\ e \in Usable /\ r \in SuffixRules /\ ~CompoundOnly(r)
  /\ Licensed(e, r, p) /\ Tolerated(e, r, NoRule, a)
  /\ NeedsMore(r) => p # NoRule /\ ~NeedsMore(p)
  /\ EndsLike(e.word, r.cond) /\ Stands(e.word, r) /\ w = Suffixed(e.word, r)

LEMMA InSuffixings ==
  ASSUME NEW stem, NEW rules, NEW x
  PROVE  x \in Suffixings(stem, rules) <=>
            \E r \in rules : EndsLike(stem, r.cond) /\ Stands(stem, r) /\ x = <<Suffixed(stem, r), r>>
BY DEF Suffixings, Applies, Stands

LEMMA InWithSuffix ==
  ASSUME NEW w, NEW p, NEW a
  PROVE  w \in WithSuffix(p, a) <=> \E e, r : OneSuffix(w, e, r, p, a)
<1> DEFINE rules(e) == {r \in Simple(SuffixRules) :
                              /\ Licensed(e, r, p)
                              /\ Tolerated(e, r, NoRule, a)
                              /\ NeedsMore(r) => p # NoRule /\ ~NeedsMore(p)}
<1>1. w \in WithSuffix(p, a) <=> \E e \in Usable : \E x \in Suffixings(e.word, rules(e)) : w = x[1]
  BY DEF WithSuffix
<1>2. \A e : \A r : r \in rules(e) <=> /\ r \in SuffixRules /\ ~CompoundOnly(r)
                                       /\ Licensed(e, r, p) /\ Tolerated(e, r, NoRule, a)
                                       /\ NeedsMore(r) => p # NoRule /\ ~NeedsMore(p)
  BY DEF Simple
<1> HIDE DEF rules
<1>3. \A e : \A x : x \in Suffixings(e.word, rules(e)) <=>
          \E r \in rules(e) : EndsLike(e.word, r.cond) /\ Stands(e.word, r) /\ x = <<Suffixed(e.word, r), r>>
  BY InSuffixings, Zenon
<1>4. ASSUME NEW e, NEW r, OneSuffix(w, e, r, p, a)
      PROVE  w \in WithSuffix(p, a)
  <2>1. r \in rules(e)
    BY <1>2, <1>4 DEF OneSuffix
  <2>2. <<Suffixed(e.word, r), r>> \in Suffixings(e.word, rules(e))
    BY <2>1, <1>3, <1>4, Zenon DEF OneSuffix
  <2>3. <<Suffixed(e.word, r), r>>[1] = w
    BY <1>4 DEF OneSuffix
  <2> QED
    BY <1>1, <1>4, <2>2, <2>3 DEF OneSuffix
<1>5. ASSUME w \in WithSuffix(p, a)
      PROVE  \E e, r : OneSuffix(w, e, r, p, a)
  <2>1. PICK e \in Usable : \E x \in Suffixings(e.word, rules(e)) : w = x[1]
    BY <1>1, <1>5
  <2>2. PICK r \in rules(e) : EndsLike(e.word, r.cond) /\ Stands(e.word, r) /\ w = <<Suffixed(e.word, r), r>>[1]
    BY <2>1, <1>3
  <2>3. w = Suffixed(e.word, r)
    BY <2>2
  <2>4. OneSuffix(w, e, r, p, a)
    BY <2>1, <2>2, <2>3, <1>2, Zenon DEF OneSuffix
  <2> QED
    BY <2>4
<1> QED
  BY <1>4, <1>5

\* A prefix of the files, or none.
PrefixOrNone == PrefixRules \union {NoRule}

LEMMA LicensedIs ==
  ASSUME NEW e, NEW r \in SuffixRules, NEW p \in PrefixOrNone
  PROVE  Licensed(e, r, p) /\ (p # NoRule => p.cross)
            <=> Matches(e, r, p, NoRule) /\ Crosses(r, p) /\ (p # NoRule => p.cross)
<1>1. r # NoRule
  BY AffixAssumption
<1> QED
  BY <1>1 DEF Licensed, Matches, Crosses, Continues

\* One ending, under a prefix that crosses or none: taken off as put on.
LEMMA SuffixCheckIs ==
  ASSUME NEW w \in Text, NEW p \in PrefixOrNone, p # NoRule => p.cross, NEW a
  PROVE  SuffixCheck(w, p, NoRule, a) <=> w \in WithSuffix(p, a)
<1> DEFINE Off(e, r) ==
             /\ r \in SuffixRules /\ ComesOff(w, r) /\ ~CompoundOnly(r)
             /\ NeedsMore(r) => p # NoRule /\ ~NeedsMore(p)
             /\ Crosses(r, p)
             /\ EndsLike(WithoutSuffix(w, r), r.cond)
             /\ e \in UsableEntries(WithoutSuffix(w, r))
             /\ Matches(e, r, p, NoRule) /\ Tolerated(e, r, NoRule, a)
<1>1. SuffixCheck(w, p, NoRule, a) <=> \E e, r : Off(e, r)
  BY DEF SuffixCheck, Innermost, SuffixCandidates, ComesOff, StemOk, Tolerated
<1>2. ASSUME NEW e, NEW r
      PROVE  Off(e, r) <=> OneSuffix(w, e, r, p, a)
  <2>1. CASE r \in SuffixRules
    <3>1. r \in Rules
      BY <2>1 DEF Rules
    <3>2. e.word \in Text /\ Stands(e.word, r) /\ w = Suffixed(e.word, r)
             <=> ComesOff(w, r) /\ e.word = WithoutSuffix(w, r)
      BY <3>1, SuffixRelation, Zenon
    <3>3. Licensed(e, r, p) <=> Matches(e, r, p, NoRule) /\ Crosses(r, p)
      BY <2>1, LicensedIs
    <3>4. e \in UsableEntries(WithoutSuffix(w, r)) <=> e \in Usable /\ e.word = WithoutSuffix(w, r)
      BY UsableFacts
    <3>5. e \in Usable => e.word \in Text
      BY UsableFacts
    <3> QED
      BY <2>1, <3>2, <3>3, <3>4, <3>5, Zenon DEF OneSuffix
  <2> QED
    BY <2>1 DEF OneSuffix
<1> QED
  BY <1>1, <1>2, InWithSuffix, Zenon

\* The ending r on e, and the ending o on what they make; the prefix p will
\* begin the whole.
TwoSuffixes(w, e, r, o, p, a) ==
  LET inner == Suffixed(e.word, r)
  IN  /\ e \in Usable
      /\ r \in SuffixRules /\ ~CompoundOnly(r) /\ EndsLike(e.word, r.cond) /\ Stands(e.word, r)
      /\ o \in SuffixRules /\ ~CompoundOnly(o) /\ EndsLike(inner, o.cond) /\ Stands(inner, o)
      /\ Continues(r, o.flag) /\ Tolerated(e, r, o, a) /\ Licensed(e, r, Under(p, o))
      /\ p # NoRule => p.cross /\ o.cross
      /\ w = Suffixed(inner, o)

LEMMA InWithTwoSuffixes ==
  ASSUME NEW w, NEW p, NEW a
  PROVE  w \in WithTwoSuffixes(p, a) <=> \E e, r, o : TwoSuffixes(w, e, r, o, p, a)
<1> DEFINE outer(e, r) == {o \in Simple(SuffixRules) :
                              /\ Continues(r, o.flag)
                              /\ Tolerated(e, r, o, a)
                              /\ Licensed(e, r, Under(p, o))
                              /\ p # NoRule => p.cross /\ o.cross}
<1>1. w \in WithTwoSuffixes(p, a) <=>
        \E e \in Usable : \E y \in Suffixings(e.word, Simple(SuffixRules)) :
            \E x \in Suffixings(y[1], outer(e, y[2])) : w = x[1]
  BY DEF WithTwoSuffixes
<1>2. \A e, r, o : o \in outer(e, r) <=>
          /\ o \in SuffixRules /\ ~CompoundOnly(o)
          /\ Continues(r, o.flag) /\ Tolerated(e, r, o, a) /\ Licensed(e, r, Under(p, o))
          /\ p # NoRule => p.cross /\ o.cross
  BY DEF Simple
<1>3. \A r : r \in Simple(SuffixRules) <=> r \in SuffixRules /\ ~CompoundOnly(r)
  BY DEF Simple
<1> HIDE DEF outer
<1>4. ASSUME NEW e, NEW r, NEW o, TwoSuffixes(w, e, r, o, p, a)
      PROVE  w \in WithTwoSuffixes(p, a)
  <2> DEFINE inner == Suffixed(e.word, r)
             y == <<inner, r>>
             x == <<w, o>>
  <2>1. y \in Suffixings(e.word, Simple(SuffixRules))
    BY <1>3, <1>4, InSuffixings, Zenon DEF TwoSuffixes
  <2>2. o \in outer(e, r) /\ EndsLike(inner, o.cond) /\ Stands(inner, o) /\ x = <<Suffixed(inner, o), o>>
    BY <1>2, <1>4, Zenon DEF TwoSuffixes
  <2>3. y[1] = inner /\ y[2] = r /\ x[1] = w
    OBVIOUS
  <2> HIDE DEF x, y, inner
  <2>4. x \in Suffixings(inner, outer(e, r))
    BY <2>2, InSuffixings, Zenon
  <2>5. x \in Suffixings(y[1], outer(e, y[2]))
    BY <2>3, <2>4, Zenon
  <2>6. e \in Usable
    BY <1>4, Zenon DEF TwoSuffixes
  <2> QED
    BY <1>1, <2>1, <2>3, <2>5, <2>6, Zenon
<1>5. ASSUME w \in WithTwoSuffixes(p, a)
      PROVE  \E e, r, o : TwoSuffixes(w, e, r, o, p, a)
  <2>1. PICK e \in Usable : \E y \in Suffixings(e.word, Simple(SuffixRules)) :
                                \E x \in Suffixings(y[1], outer(e, y[2])) : w = x[1]
    BY <1>1, <1>5, Zenon
  <2>2. PICK y \in Suffixings(e.word, Simple(SuffixRules)) :
                                \E x \in Suffixings(y[1], outer(e, y[2])) : w = x[1]
    BY <2>1, Zenon
  <2>3. PICK r \in Simple(SuffixRules) :
            EndsLike(e.word, r.cond) /\ Stands(e.word, r) /\ y = <<Suffixed(e.word, r), r>>
    <3>1. y \in Suffixings(e.word, Simple(SuffixRules))
      BY <2>2
    <3> QED
      BY <3>1, InSuffixings
  <2>4. y[1] = Suffixed(e.word, r) /\ y[2] = r
    BY <2>3
  <2>5. PICK x \in Suffixings(Suffixed(e.word, r), outer(e, r)) : w = x[1]
    BY <2>2, <2>4, Zenon
  <2>6. PICK o \in outer(e, r) :
            /\ EndsLike(Suffixed(e.word, r), o.cond) /\ Stands(Suffixed(e.word, r), o)
            /\ x = <<Suffixed(Suffixed(e.word, r), o), o>>
    <3>1. x \in Suffixings(Suffixed(e.word, r), outer(e, r))
      BY <2>5
    <3> QED
      BY <3>1, InSuffixings
  <2>7. w = Suffixed(Suffixed(e.word, r), o)
    BY <2>5, <2>6
  <2>8. TwoSuffixes(w, e, r, o, p, a)
    BY <2>1, <2>3, <2>6, <2>7, <1>2, <1>3, Zenon DEF TwoSuffixes
  <2> QED
    BY <2>8, Zenon
<1> QED
  BY <1>4, <1>5

\* Two endings: the outer one comes off first, and the inner one is then asked
\* for what the outer one leaves open.
LEMMA SuffixCheckTwoIs ==
  ASSUME NEW w \in Text, NEW p \in PrefixOrNone, p # NoRule => p.cross, NEW a
  PROVE  SuffixCheckTwo(w, p, a) <=> w \in WithTwoSuffixes(p, a)
<1> DEFINE q(o) == IF p # NoRule /\ Continues(o, p.flag) THEN NoRule ELSE p
           OffOuter(o) ==
             /\ o \in SuffixRules /\ ComesOff(w, o) /\ o.flag \in ContFlags
             /\ ~CompoundOnly(o) /\ Crosses(o, p)
             /\ EndsLike(WithoutSuffix(w, o), o.cond)
           OffInner(v, e, r, o) ==
             /\ r \in SuffixRules /\ ComesOff(v, r) /\ ~CompoundOnly(r)
             /\ Crosses(r, q(o))
             /\ EndsLike(WithoutSuffix(v, r), r.cond)
             /\ e \in UsableEntries(WithoutSuffix(v, r))
             /\ Matches(e, r, q(o), o) /\ Tolerated(e, r, o, a)
<1>1. \A o \in SuffixRules : o # NoRule
  BY AffixAssumption
<1>2. ASSUME NEW o \in SuffixRules, NEW v
      PROVE  SuffixCheck(v, q(o), o, a) <=> \E e, r : OffInner(v, e, r, o)
  BY <1>1, <1>2 DEF SuffixCheck, Innermost, SuffixCandidates, ComesOff, StemOk, Tolerated
<1>3. SuffixCheckTwo(w, p, a) <=> \E o : OffOuter(o) /\ SuffixCheck(WithoutSuffix(w, o), q(o), o, a)
  BY DEF SuffixCheckTwo, Outermost, SuffixCandidates, ComesOff
<1>4. SuffixCheckTwo(w, p, a) <=> \E e, r, o : OffOuter(o) /\ OffInner(WithoutSuffix(w, o), e, r, o)
  <2> HIDE DEF OffInner, q
  <2>1. \A o : OffOuter(o) => o \in SuffixRules
    OBVIOUS
  <2> HIDE DEF OffOuter
  <2> QED
    BY <1>2, <1>3, <2>1, Zenon
<1>5. ASSUME NEW e, NEW r, NEW o
      PROVE  OffOuter(o) /\ OffInner(WithoutSuffix(w, o), e, r, o) <=> TwoSuffixes(w, e, r, o, p, a)
  <2>1. CASE r \in SuffixRules /\ o \in SuffixRules
    <3> DEFINE inner == Suffixed(e.word, r)
    <3>1. r \in Rules /\ o \in Rules
      BY <2>1 DEF Rules
    <3>2. inner \in Text /\ Stands(inner, o) /\ w = Suffixed(inner, o)
             <=> ComesOff(w, o) /\ inner = WithoutSuffix(w, o)
      BY <3>1, SuffixRelation, Zenon
    <3>3. \A v : e.word \in Text /\ Stands(e.word, r) /\ v = Suffixed(e.word, r)
             <=> v \in Text /\ ComesOff(v, r) /\ e.word = WithoutSuffix(v, r)
      BY <3>1, SuffixRelation, Zenon
    <3>4. q(o) = Under(p, o) /\ q(o) \in PrefixOrNone /\ (q(o) # NoRule => q(o).cross)
      BY DEF Under, PrefixOrNone
    <3>5. Licensed(e, r, q(o)) <=> Matches(e, r, q(o), NoRule) /\ Crosses(r, q(o))
      <4> HIDE DEF q
      <4> QED
        BY <2>1, <3>4, LicensedIs, Zenon
    <3>6. Matches(e, r, q(o), o) <=> Matches(e, r, q(o), NoRule) /\ Continues(r, o.flag)
      <4> HIDE DEF q
      <4> QED
        BY <2>1, <1>1 DEF Matches, Continues
    <3>7. Continues(r, o.flag) => o.flag \in ContFlags
      BY <2>1, <1>1 DEF Continues, ContFlags
    <3>8. Crosses(o, p) <=> (p # NoRule => p.cross /\ o.cross)
      BY DEF Crosses
    <3>9. e \in UsableEntries(WithoutSuffix(WithoutSuffix(w, o), r))
             <=> e \in Usable /\ e.word = WithoutSuffix(WithoutSuffix(w, o), r)
      BY UsableFacts
    <3>10. e \in Usable => e.word \in Text
      BY UsableFacts
    <3>11. ComesOff(w, o) => WithoutSuffix(w, o) \in Text
      BY <3>1, SuffixOnAndOff, Zenon
    <3> HIDE DEF q
    <3>12. ASSUME OffOuter(o), OffInner(WithoutSuffix(w, o), e, r, o)
           PROVE  TwoSuffixes(w, e, r, o, p, a)
      <4>1. /\ e \in Usable /\ e.word \in Text /\ Stands(e.word, r) /\ WithoutSuffix(w, o) = inner
            /\ e.word = WithoutSuffix(WithoutSuffix(w, o), r)
        BY <3>12, <3>3, <3>9, <3>10, <3>11, Zenon
      <4>2. Stands(inner, o) /\ w = Suffixed(inner, o)
        BY <4>1, <3>12, <3>2, Zenon
      <4>3. Continues(r, o.flag) /\ Licensed(e, r, Under(p, o))
        BY <3>12, <3>4, <3>5, <3>6, Zenon
      <4> QED
        BY <2>1, <3>12, <3>8, <4>1, <4>2, <4>3, Zenon DEF TwoSuffixes
    <3>13. ASSUME TwoSuffixes(w, e, r, o, p, a)
           PROVE  OffOuter(o) /\ OffInner(WithoutSuffix(w, o), e, r, o)
      <4>1. /\ e \in Usable /\ e.word \in Text /\ Stands(e.word, r) /\ Stands(inner, o) /\ w = Suffixed(inner, o)
            /\ Continues(r, o.flag) /\ Licensed(e, r, q(o))
        BY <3>13, <3>4, <3>10, Zenon DEF TwoSuffixes
      <4>2. inner \in Text /\ ComesOff(inner, r) /\ e.word = WithoutSuffix(inner, r)
        BY <4>1, <3>3, Zenon
      <4>3. ComesOff(w, o) /\ inner = WithoutSuffix(w, o)
        BY <4>1, <4>2, <3>2, Zenon
      <4>4. Matches(e, r, q(o), o) /\ Crosses(r, q(o)) /\ o.flag \in ContFlags
        BY <4>1, <3>5, <3>6, <3>7, Zenon
      <4>5. e \in UsableEntries(WithoutSuffix(WithoutSuffix(w, o), r))
        BY <4>1, <4>2, <4>3, <3>9, Zenon
      <4>6. OffOuter(o)
        BY <2>1, <3>13, <3>8, <4>3, <4>4, Zenon DEF TwoSuffixes
      <4>7. OffInner(WithoutSuffix(w, o), e, r, o)
        BY <2>1, <3>13, <4>2, <4>3, <4>4, <4>5, Zenon DEF TwoSuffixes
      <4> QED
        BY <4>6, <4>7
    <3> HIDE DEF OffOuter, OffInner
    <3> QED
      BY <3>12, <3>13, Zenon
  <2> QED
    BY <2>1 DEF TwoSuffixes
<1> HIDE DEF OffOuter, OffInner
<1> QED
  BY <1>4, <1>5, InWithTwoSuffixes, Zenon

\* What the endings make is a text.
LEMMA MadeTexts ==
  ASSUME NEW w, NEW p, NEW a, w \in WithSuffix(p, a) \/ w \in WithTwoSuffixes(p, a)
  PROVE  w \in Text
<1>1. ASSUME NEW e, NEW r, OneSuffix(w, e, r, p, a) PROVE w \in Text
  <2>1. r \in Rules /\ e \in Usable /\ Stands(e.word, r) /\ w = Suffixed(e.word, r)
    BY <1>1 DEF OneSuffix, Rules
  <2> QED
    BY <2>1, UsableFacts, SuffixRelation, Zenon
<1>2. ASSUME NEW e, NEW r, NEW o, TwoSuffixes(w, e, r, o, p, a) PROVE w \in Text
  <2>1. /\ r \in Rules /\ o \in Rules /\ e \in Usable
        /\ Stands(e.word, r) /\ Stands(Suffixed(e.word, r), o) /\ w = Suffixed(Suffixed(e.word, r), o)
    BY <1>2 DEF TwoSuffixes, Rules
  <2>2. Suffixed(e.word, r) \in Text
    BY <2>1, UsableFacts, SuffixRelation, Zenon
  <2> QED
    BY <2>1, <2>2, SuffixRelation, Zenon
<1> QED
  BY <1>1, <1>2, InWithSuffix, InWithTwoSuffixes, Zenon

\* The prefix p may begin v, and w is what they make.
Beginning(w, v, p) ==
  p \in PrefixRules /\ ~CompoundOnly(p) /\ Begins(v, p) /\ StartsLike(v, p.cond) /\ w = Prefixed(v, p)

LEMMA PrefixOff ==
  ASSUME NEW w \in Text, NEW v, NEW p
  PROVE  v \in Text /\ Beginning(w, v, p) <=> p \in PrefixesOff(w) /\ v = WithoutPrefix(w, p)
<1>1. CASE p \in PrefixRules
  <2>1. v \in Text /\ Begins(v, p) /\ w = Prefixed(v, p) <=> Falls(w, p) /\ v = WithoutPrefix(w, p)
    <3>1. p \in Rules
      BY <1>1 DEF Rules
    <3> QED
      BY <3>1, PrefixRelation, Zenon
  <2>2. p \in PrefixesOff(w) <=> Falls(w, p) /\ ~CompoundOnly(p) /\ StartsLike(WithoutPrefix(w, p), p.cond)
    BY <1>1 DEF PrefixesOff, PrefixCandidates, Falls
  <2> QED
    BY <1>1, <2>1, <2>2, Zenon DEF Beginning
<1> QED
  BY <1>1 DEF Beginning, PrefixesOff, PrefixCandidates

LEMMA InPrefixings ==
  ASSUME NEW w, NEW v, NEW rules
  PROVE  (\E x \in Prefixings(v, rules) : w = x[1])
            <=> \E p \in rules : Begins(v, p) /\ StartsLike(v, p.cond) /\ w = Prefixed(v, p)
<1>1. ASSUME NEW p \in rules, Begins(v, p), StartsLike(v, p.cond), w = Prefixed(v, p)
      PROVE  \E x \in Prefixings(v, rules) : w = x[1]
  <2>1. <<Prefixed(v, p), p>> \in Prefixings(v, rules)
    BY <1>1 DEF Prefixings, Begins
  <2> QED
    BY <1>1, <2>1
<1>2. ASSUME NEW x \in Prefixings(v, rules), w = x[1]
      PROVE  \E p \in rules : Begins(v, p) /\ StartsLike(v, p.cond) /\ w = Prefixed(v, p)
  BY <1>2 DEF Prefixings, Begins
<1> QED
  BY <1>1, <1>2

LEMMA InWithPrefix ==
  ASSUME NEW w
  PROVE  w \in WithPrefix <=> \E e \in Usable : \E p : p.flag \in e.flags /\ Beginning(w, e.word, p)
<1> DEFINE rules(e) == {p \in Simple(PrefixRules) : p.flag \in e.flags}
<1>1. w \in WithPrefix <=> \E e \in Usable : \E x \in Prefixings(e.word, rules(e)) : w = x[1]
  BY DEF WithPrefix
<1>2. \A e, p : p \in rules(e) <=> p \in PrefixRules /\ ~CompoundOnly(p) /\ p.flag \in e.flags
  BY DEF Simple
<1> HIDE DEF rules
<1>3. \A e : (\E x \in Prefixings(e.word, rules(e)) : w = x[1])
         <=> \E p \in rules(e) : Begins(e.word, p) /\ StartsLike(e.word, p.cond) /\ w = Prefixed(e.word, p)
  BY InPrefixings, ZenonT(60)
<1> QED
  BY <1>1, <1>2, <1>3, Zenon DEF Beginning

LEMMA InBegunOne ==
  ASSUME NEW w, NEW a
  PROVE  w \in Begun([p \in Crossing |-> WithSuffix(p, a)])
            <=> \E p, v : p \in PrefixRules /\ p.cross /\ v \in WithSuffix(p, a) /\ Beginning(w, v, p)
<1>1. w \in Begun([p \in Crossing |-> WithSuffix(p, a)])
         <=> \E p \in Crossing : \E v \in WithSuffix(p, a) : \E x \in Prefixings(v, {p}) : w = x[1]
  <2> DEFINE W == [p \in Crossing |-> WithSuffix(p, a)]
  <2>1. w \in Begun(W) <=> \E p \in Crossing : \E v \in W[p] : \E x \in Prefixings(v, {p}) : w = x[1]
    <3> HIDE DEF W
    <3> DEFINE begun(p) == UNION {{x[1] : x \in Prefixings(v, {p})} : v \in W[p]}
    <3>1. w \in Begun(W) <=> \E p \in Crossing : w \in begun(p)
      BY ZenonT(40) DEF Begun
    <3>2. \A p : w \in begun(p) <=> \E v \in W[p] : \E x \in Prefixings(v, {p}) : w = x[1]
      OBVIOUS
    <3> HIDE DEF begun
    <3> QED
      BY <3>1, <3>2
  <2>2. \A p \in Crossing : W[p] = WithSuffix(p, a)
    OBVIOUS
  <2> QED
    BY <2>1, <2>2
<1>2. ASSUME NEW p, NEW v
      PROVE  (\E x \in Prefixings(v, {p}) : w = x[1])
                   <=> Begins(v, p) /\ StartsLike(v, p.cond) /\ w = Prefixed(v, p)
  <2>1. \A rules : (\E x \in Prefixings(v, rules) : w = x[1])
                     <=> \E q \in rules : Begins(v, q) /\ StartsLike(v, q.cond) /\ w = Prefixed(v, q)
    BY InPrefixings, Zenon
  <2>2. (\E x \in Prefixings(v, {p}) : w = x[1])
                     <=> \E q \in {p} : Begins(v, q) /\ StartsLike(v, q.cond) /\ w = Prefixed(v, q)
    BY <2>1
  <2> QED
    BY <2>2
<1>3. \A p : p \in Crossing <=> p \in PrefixRules /\ ~CompoundOnly(p) /\ p.cross
  BY DEF Crossing, Simple
<1> QED
  BY <1>1, <1>2, <1>3, Zenon DEF Beginning

LEMMA InBegunTwo ==
  ASSUME NEW w, NEW a
  PROVE  w \in Begun([p \in Crossing |-> WithTwoSuffixes(p, a)])
            <=> \E p, v : p \in PrefixRules /\ p.cross /\ v \in WithTwoSuffixes(p, a) /\ Beginning(w, v, p)
<1>1. w \in Begun([p \in Crossing |-> WithTwoSuffixes(p, a)])
         <=> \E p \in Crossing : \E v \in WithTwoSuffixes(p, a) : \E x \in Prefixings(v, {p}) : w = x[1]
  <2> DEFINE W == [p \in Crossing |-> WithTwoSuffixes(p, a)]
  <2>1. w \in Begun(W) <=> \E p \in Crossing : \E v \in W[p] : \E x \in Prefixings(v, {p}) : w = x[1]
    <3> HIDE DEF W
    <3> DEFINE begun(p) == UNION {{x[1] : x \in Prefixings(v, {p})} : v \in W[p]}
    <3>1. w \in Begun(W) <=> \E p \in Crossing : w \in begun(p)
      BY ZenonT(40) DEF Begun
    <3>2. \A p : w \in begun(p) <=> \E v \in W[p] : \E x \in Prefixings(v, {p}) : w = x[1]
      OBVIOUS
    <3> HIDE DEF begun
    <3> QED
      BY <3>1, <3>2
  <2>2. \A p \in Crossing : W[p] = WithTwoSuffixes(p, a)
    OBVIOUS
  <2> QED
    BY <2>1, <2>2
<1>2. ASSUME NEW p, NEW v
      PROVE  (\E x \in Prefixings(v, {p}) : w = x[1])
                   <=> Begins(v, p) /\ StartsLike(v, p.cond) /\ w = Prefixed(v, p)
  <2>1. \A rules : (\E x \in Prefixings(v, rules) : w = x[1])
                     <=> \E q \in rules : Begins(v, q) /\ StartsLike(v, q.cond) /\ w = Prefixed(v, q)
    BY InPrefixings, Zenon
  <2>2. (\E x \in Prefixings(v, {p}) : w = x[1])
                     <=> \E q \in {p} : Begins(v, q) /\ StartsLike(v, q.cond) /\ w = Prefixed(v, q)
    BY <2>1
  <2> QED
    BY <2>2
<1>3. \A p : p \in Crossing <=> p \in PrefixRules /\ ~CompoundOnly(p) /\ p.cross
  BY DEF Crossing, Simple
<1> QED
  BY <1>1, <1>2, <1>3, Zenon DEF Beginning

-----------------------------------------------------------------------------
(* The analysis as a whole.                                                 *)

\* A prefix comes off a word that is then an entry, or has one ending.
LEMMA PrefixCheckIs ==
  ASSUME NEW w \in Text, NEW a
  PROVE  PrefixCheck(w, a) <=> w \in WithPrefix \/ w \in Begun([p \in Crossing |-> WithSuffix(p, a)])
<1> DEFINE Entry(v, p) == \E e \in UsableEntries(v) : p.flag \in e.flags
           Ended(v, p) == p.cross /\ SuffixCheck(v, p, NoRule, a)
<1>1. PrefixCheck(w, a) <=> \E p, v : p \in PrefixesOff(w) /\ v = WithoutPrefix(w, p) /\ (Entry(v, p) \/ Ended(v, p))
  BY DEF PrefixCheck
<1>2. PrefixCheck(w, a) <=> \E p, v : v \in Text /\ Beginning(w, v, p) /\ (Entry(v, p) \/ Ended(v, p))
  <2> HIDE DEF Entry, Ended
  <2> QED
    BY <1>1, PrefixOff, Zenon
<1>3. \A p, v : p \in PrefixRules /\ v \in Text => (Ended(v, p) <=> p.cross /\ v \in WithSuffix(p, a))
  BY SuffixCheckIs DEF PrefixOrNone
<1>4. \A p, v : Entry(v, p) <=> \E e \in Usable : e.word = v /\ p.flag \in e.flags
  BY UsableFacts
<1> HIDE DEF Entry, Ended
<1>5. \A p, v : Beginning(w, v, p) => p \in PrefixRules
  BY DEF Beginning
<1>6. (\E p, v : v \in Text /\ Beginning(w, v, p) /\ Entry(v, p)) <=> w \in WithPrefix
  BY <1>4, UsableFacts, InWithPrefix, Zenon
<1>7. (\E p, v : v \in Text /\ Beginning(w, v, p) /\ Ended(v, p)) <=> w \in Begun([p \in Crossing |-> WithSuffix(p, a)])
  <2>1. \A p, v : v \in WithSuffix(p, a) => v \in Text
    BY MadeTexts
  <2>2. w \in Begun([p \in Crossing |-> WithSuffix(p, a)])
            <=> \E p, v : p \in PrefixRules /\ p.cross /\ v \in WithSuffix(p, a) /\ Beginning(w, v, p)
    BY InBegunOne
  <2> QED
    BY <1>3, <1>5, <2>1, <2>2, Zenon
<1> QED
  BY <1>2, <1>6, <1>7, Zenon

LEMMA PrefixCheckTwoIs ==
  ASSUME NEW w \in Text, NEW a
  PROVE  PrefixCheckTwo(w, a) <=> w \in Begun([p \in Crossing |-> WithTwoSuffixes(p, a)])
<1> DEFINE Ended(v, p) == p.cross /\ SuffixCheckTwo(v, p, a)
<1>1. PrefixCheckTwo(w, a) <=> \E p, v : p \in PrefixesOff(w) /\ v = WithoutPrefix(w, p) /\ Ended(v, p)
  BY DEF PrefixCheckTwo
<1>2. \A p, v : p \in PrefixRules /\ v \in Text => (Ended(v, p) <=> p.cross /\ v \in WithTwoSuffixes(p, a))
  BY SuffixCheckTwoIs DEF PrefixOrNone
<1> HIDE DEF Ended
<1>3. PrefixCheckTwo(w, a) <=> \E p, v : v \in Text /\ Beginning(w, v, p) /\ Ended(v, p)
  BY <1>1, PrefixOff, Zenon
<1>4. \A p, v : Beginning(w, v, p) => p \in PrefixRules
  BY DEF Beginning
<1>5. \A p, v : v \in WithTwoSuffixes(p, a) => v \in Text
  BY MadeTexts
<1>6. w \in Begun([p \in Crossing |-> WithTwoSuffixes(p, a)])
          <=> \E p, v : p \in PrefixRules /\ p.cross /\ v \in WithTwoSuffixes(p, a) /\ Beginning(w, v, p)
  BY InBegunTwo
<1> QED
  BY <1>2, <1>3, <1>4, <1>5, <1>6, Zenon

\* A word is accepted exactly when it is derived.
LEMMA ComputeIsDerived ==
  ASSUME NEW w \in Text, NEW a
  PROVE  Compute(w, a) <=> w \in Derived(a)
<1>1. w \in Derived(a) <=>
        /\ \/ w \in Bare \/ w \in WithPrefix
           \/ w \in WithSuffix(NoRule, a) \/ w \in WithTwoSuffixes(NoRule, a)
           \/ w \in Begun([p \in Crossing |-> WithSuffix(p, a)]) \/ w \in Begun([p \in Crossing |-> WithTwoSuffixes(p, a)])
        /\ ~IsForbidden(w)
  BY DEF Derived
<1>2. ~IsForbidden(w) => (HasStem(w) <=> w \in Bare)
  BY UsableFacts DEF HasStem, Bare
<1>3. PrefixCheck(w, a) <=> w \in WithPrefix \/ w \in Begun([p \in Crossing |-> WithSuffix(p, a)])
  BY PrefixCheckIs
<1>4. PrefixCheckTwo(w, a) <=> w \in Begun([p \in Crossing |-> WithTwoSuffixes(p, a)])
  BY PrefixCheckTwoIs
<1>5. SuffixCheck(w, NoRule, NoRule, a) <=> w \in WithSuffix(NoRule, a)
  BY SuffixCheckIs DEF PrefixOrNone
<1>6. SuffixCheckTwo(w, NoRule, a) <=> w \in WithTwoSuffixes(NoRule, a)
  BY SuffixCheckTwoIs DEF PrefixOrNone
<1> QED
  BY <1>1, <1>2, <1>3, <1>4, <1>5, <1>6, Zenon DEF Compute

LookedUpInv == word = NoWord \/ word \in Text

LEMMA LookedUp == AffixSpec => []LookedUpInv
<1>1. AffixInit => LookedUpInv
  BY DEF AffixInit, LookedUpInv
<1>2. LookedUpInv /\ [AffixNext]_affixVars => LookedUpInv'
  BY AffixAssumption DEF LookedUpInv, AffixNext, LookUp, affixVars, Text
<1> QED
  BY <1>1, <1>2, PTL DEF AffixSpec

\* Taking affixes off accepts exactly the words that putting them on makes:
\* for every lexicon, every set of rules and every list of attested forms.
THEOREM AnalysisExact == AffixSpec => []AnalysisIsExact
<1>1. LookedUpInv => AnalysisIsExact
  <2> SUFFICES ASSUME word \in Text
               PROVE  Check(word) = (word \in IF word \in Attested THEN DerivedLoose ELSE DerivedStrict)
    BY DEF LookedUpInv, AnalysisIsExact
  <2>1. \A a : Compute(word, a) <=> word \in Derived(a)
    BY ComputeIsDerived
  <2>2. \A a : Compute(word, a) \in BOOLEAN
    BY DEF Compute
  <2>3. CASE word \in Attested
    <3>1. (word \in Attested) = TRUE
      BY <2>3
    <3>2. Check(word) = Compute(word, TRUE)
      BY <3>1, Zenon DEF Check
    <3>3. Check(word) <=> word \in DerivedLoose
      BY <2>1, <3>2, Zenon DEF DerivedLoose
    <3>4. (IF word \in Attested THEN DerivedLoose ELSE DerivedStrict) = DerivedLoose
      BY <2>3
    <3>5. Check(word) \in BOOLEAN
      BY <2>2, <3>2
    <3>6. Check(word) = (word \in DerivedLoose)
      BY <3>3, <3>5
    <3> QED
      BY <3>4, <3>6, Zenon
  <2>4. CASE word \notin Attested
    <3>1. (word \in Attested) = FALSE
      BY <2>4
    <3>2. Check(word) = Compute(word, FALSE)
      BY <3>1, Zenon DEF Check
    <3>3. Check(word) <=> word \in DerivedStrict
      BY <2>1, <3>2, Zenon DEF DerivedStrict
    <3>4. (IF word \in Attested THEN DerivedLoose ELSE DerivedStrict) = DerivedStrict
      BY <2>4
    <3>5. Check(word) \in BOOLEAN
      BY <2>2, <3>2
    <3>6. Check(word) = (word \in DerivedStrict)
      BY <3>3, <3>5
    <3> QED
      BY <3>4, <3>6, Zenon
  <2> QED
    BY <2>3, <2>4
<1> QED
  BY <1>1, LookedUp, PTL

-----------------------------------------------------------------------------
(* The bot's forms.                                                         *)

\* A form is a stem with an ending that does not strip it whole, and it is no
\* entry itself.
LEMMA FormHasStem ==
  ASSUME NEW stem \in Text, NEW risky \in BOOLEAN, NEW form \in InflectedForms(stem, risky)
  PROVE  \E e \in UsableEntries(stem) : \E r \in SuffixRules :
            /\ form \in Text /\ ComesOff(form, r) /\ stem = WithoutSuffix(form, r)
            /\ r.flag \in e.flags /\ EndsLike(stem, r.cond) /\ ~NeedsMore(r) /\ ~CompoundOnly(r)
            /\ \A d \in Lexicon : d.word # form
            /\ IsRisky(e.kind, r, NoRule) => form \in Attested
<1>1. PICK e \in UsableEntries(stem), r \in SuffixRules :
            /\ IsWanted(r) /\ ~NeedsMore(r) /\ ~CompoundOnly(r)
            /\ r.flag \in e.flags /\ Applies(r, stem) /\ KeepsForm(e, r, risky)
            /\ form = Suffixed(stem, r)
  BY DEF InflectedForms
<1>2. e \in Lexicon /\ e.word = stem
  BY <1>1 DEF UsableEntries
<1>3. r \in Rules /\ r.strip \in Text /\ IsSuffix(r.strip, stem) /\ EndsLike(stem, r.cond)
  BY <1>1, AffixAssumption DEF Rules, Text, Applies
<1>4. Stands(stem, r)
  <2>1. r.strip # stem
    BY <1>1, <1>2, StripsLeaveSomething
  <2>2. Len(r.strip) <= Len(stem) /\ \A i \in 1..Len(r.strip) : r.strip[i] = stem[Len(stem) - Len(r.strip) + i]
    BY <1>3, Ending
  <2>3. CASE Len(r.strip) = Len(stem)
    <3>1. Len(stem) \in Nat
      BY DEF Text
    <3>2. \A i \in 1..Len(stem) : Len(stem) - Len(stem) + i = i
      BY <3>1
    <3>3. \A i \in 1..Len(r.strip) : r.strip[i] = stem[i]
      BY <2>2, <2>3, <3>2
    <3>4. r.strip = stem
      BY <1>3, <2>3, <3>3, SeqEqual DEF Text
    <3> QED
      BY <2>1, <3>4
  <2>4. Len(r.strip) \in Nat /\ Len(stem) \in Nat
    BY <1>3 DEF Text
  <2> QED
    BY <1>3, <2>2, <2>3, <2>4 DEF Stands
<1>5. form \in Text /\ ComesOff(form, r) /\ stem = WithoutSuffix(form, r)
  BY <1>1, <1>3, <1>4, SuffixRelation
<1>6. (\A d \in Lexicon : d.word # form) /\ (IsRisky(e.kind, r, NoRule) => form \in Attested)
  BY <1>1, <1>2, Zenon DEF KeepsForm
<1> QED
  BY <1>1, <1>3, <1>5, <1>6

\* Every form the bot learns is accepted, and the word inspector explains it:
\* for every dictionary whose endings leave something of the entries.
THEOREM FormsAccepted == AffixSpec => []FormsAreWords
<1>1. ASSUME NEW stem \in Text, NEW risky \in BOOLEAN, NEW form \in InflectedForms(stem, risky)
      PROVE  Check(form) /\ Explain(form) # {}
  <2>1. PICK e \in UsableEntries(stem), r \in SuffixRules :
            /\ form \in Text /\ ComesOff(form, r) /\ stem = WithoutSuffix(form, r)
            /\ r.flag \in e.flags /\ EndsLike(stem, r.cond) /\ ~NeedsMore(r) /\ ~CompoundOnly(r)
            /\ \A d \in Lexicon : d.word # form
            /\ IsRisky(e.kind, r, NoRule) => form \in Attested
    BY <1>1, FormHasStem
  <2>2. r \in Innermost(form, NoRule, NoRule)
    BY <2>1 DEF Innermost, SuffixCandidates, ComesOff, Crosses
  <2>3. Matches(e, r, NoRule, NoRule)
    BY <2>1 DEF Matches
  <2>4. StemOk(WithoutSuffix(form, r), r, NoRule, NoRule, form \in Attested)
    BY <2>1, <2>3 DEF StemOk
  <2>5. ~IsForbidden(form)
    BY <2>1 DEF IsForbidden
  <2>6. Check(form)
    BY <2>2, <2>4, <2>5, Zenon DEF Check, Compute, SuffixCheck
  <2>7. e.kind \in MatchingKinds(WithoutSuffix(form, r), r, NoRule, NoRule)
    BY <2>1, <2>3 DEF MatchingKinds
  <2>8. r \in SuffixHits(form, NoRule, NoRule)
    BY <2>2, <2>7 DEF SuffixHits
  <2>9. Reading(WithoutSuffix(form, r), <<r.add>>) \in Explain(form)
    <3>1. Reading(WithoutSuffix(form, r), <<r.add>>) \in EndingReadings(form)
      BY <2>8 DEF EndingReadings
    <3>2. EndingReadings(form) \subseteq Explain(form)
      BY DEF Explain
    <3> QED
      BY <3>1, <3>2
  <2> QED
    BY <2>6, <2>9
<1>2. LookedUpInv => FormsAreWords
  BY <1>1 DEF LookedUpInv, FormsAreWords
<1> QED
  BY <1>2, LookedUp, PTL
=============================================================================
